---------------------------- MODULE MemoryProofs ----------------------------
(***************************************************************************)
(* The properties of MemoryEngine, for any ids, batch size of the fsyncs,  *)
(* thresholds of the compaction, retention and TTL, and any number of      *)
(* failed writes, crashes and power losses.                                *)
(*                                                                         *)
(* The invariant is about OnDisk(files), what recovery would read now: the *)
(* snapshot, its backup or the one being written (Start), with every entry *)
(* of the log that is newer replayed. What is acknowledged is in memory and *)
(* in OnDisk; no number on disk exceeds the engine's, so that the next     *)
(* entry is not taken for an old one; and as long as no record changed     *)
(* without an entry, memory is OnDisk. Each step of an agenda keeps OnDisk *)
(* or adds one entry to it: the rotation because what it promotes is what  *)
(* memory holds, the truncation because every entry is covered by then.    *)
(* A power loss cuts entries that were not synced, and those make what     *)
(* they wrote unsure.                                                      *)
(***************************************************************************)
EXTENDS MemoryEngine, WellFoundedInduction, TLAPS

USE SMTT(30)

-----------------------------------------------------------------------------
(* Lists *)

\* One list behind another.
LEMMA Joined ==
    ASSUME NEW S, NEW s \in Seq(S), NEW t \in Seq(S)
    PROVE  /\ s \o t \in Seq(S) /\ Len(s \o t) = Len(s) + Len(t)
           /\ \A i \in 1..(Len(s) + Len(t)) :
                 (s \o t)[i] = IF i <= Len(s) THEN s[i] ELSE t[i - Len(s)]
OBVIOUS

-----------------------------------------------------------------------------
(* MemoryEngine *)

Recs == MemRecord \cup {NoRecord}
FileContents == Contents \cup {NoFile, Torn}
Files ==
    [snapshot : FileContents, next : FileContents, bak : FileContents, index : FileContents,
     log : Seq(LogEntries \cup {Torn}), synced : Nat]

\* What Query shows of a record at a time.
Seen(r, clock) == IF r # NoRecord /\ r.at + MemTTL < clock THEN NoRecord ELSE r
Same(a, b) == Seen(a, memClock) = Seen(b, memClock)

\* The log without the entries that do not decode.
Blank == [seq |-> 0, ids |-> {}, record |-> NoRecord]
Decoded(log) == [k \in 1..Len(log) |-> IF log[k] = Torn THEN Blank ELSE log[k]]

\* Where recovery would start now, and what it would read.
Start(files) == Base(Prepared(files))
OnDisk(files) == Replayed(Start(files), Decoded(files.log))[Len(files.log)]

\* The order of the steps of an operation.
StepNames ==
    {"trim", "open_index", "write_index", "maybe_compact", "create_next", "write_next", "rotate",
     "promote", "drop_bak", "truncate_log"}
Successors ==
    {<<"append", "trim">>, <<"append", "open_index">>, <<"trim", "open_index">>,
     <<"open_index", "write_index">>, <<"write_index", "maybe_compact">>,
     <<"create_next", "write_next">>, <<"write_next", "rotate">>, <<"rotate", "promote">>,
     <<"promote", "drop_bak">>, <<"drop_bak", "truncate_log">>, <<"truncate_log", "open_index">>}
AgendaItems == [do : StepNames] \cup [do : {"append"}, entry : LogEntries]
Chained(a) ==
    /\ a \in Seq(AgendaItems)
    /\ \A k \in 1..(Len(a) - 1) : <<a[k].do, a[k + 1].do>> \in Successors
    /\ a # <<>> => a[Len(a)].do \in {"write_index", "maybe_compact"}

Running == memPhase \in {"up", "opening"}

MemTypeOK ==
    /\ memRecords \in [MemIds -> Recs]
    /\ memSeq \in Nat /\ memClock \in Nat
    /\ memFiles \in Files
    /\ memPhase \in {"down", "up", "opening", "refused"}
    /\ Chained(agenda)
    /\ touched \subseteq MemIds
    /\ acked \in [MemIds -> Recs \cup {Unsure}]
    /\ unlogged \in BOOLEAN

\* What the files are like before the first step of an agenda.
Waits(a, step) == a # <<>> /\ Head(a).do = step
Ready(files, a, content) ==
    /\ files.snapshot = NoFile /\ files.next = NoFile => files.bak = NoFile
    /\ Waits(a, "rotate") => files.next = content
    /\ Waits(a, "promote") => files.next = content /\ files.snapshot = NoFile
    /\ Waits(a, "drop_bak") \/ Waits(a, "truncate_log") => files.snapshot = content
    /\ Waits(a, "maybe_compact") => files.index = content

StagesInv ==
    /\ Ready(memFiles, agenda, Content)
    /\ ~Running => agenda = <<>>
    /\ agenda = <<>> => touched = {} /\ memPhase # "opening"
    /\ At("append") =>
          LET entry == Head(agenda).entry
          IN  /\ entry.seq = memSeq /\ touched = entry.ids
              /\ \A i \in entry.ids : memRecords[i] = entry.record /\ acked[i] = Unsure

\* No number on disk is greater than seq.
Numbered(files, seq) ==
    /\ \A k \in 1..Len(files.log) : files.log[k] # Torn => files.log[k].seq <= seq
    /\ Start(files) # Torn => Start(files).seq <= seq

\* The number that the next entry gets is new.
NumbersInv ==
    Running => /\ Numbered(memFiles, memSeq)
               /\ At("append") => Numbered(memFiles, memSeq - 1)

\* What was acknowledged is in memory and on disk, and what is about to be is on
\* disk as it is in memory.
Remembers(recs) == \A i \in MemIds : acked[i] # Unsure => Same(recs[i], acked[i])
AckedInv ==
    /\ Running => Remembers(memRecords)
    /\ Start(memFiles) # Torn =>
          /\ Remembers(OnDisk(memFiles).records)
          /\ Running /\ ~At("append") =>
                \A i \in touched : Same(OnDisk(memFiles).records[i], memRecords[i])

\* Memory and disk are equal unless records changed without an entry, and the
\* index is up to date between operations.
ExactInv ==
    ~unlogged =>
        /\ Running /\ Start(memFiles) # Torn =>
              Content = IF At("append") THEN Replay(OnDisk(memFiles), Head(agenda).entry)
                                        ELSE OnDisk(memFiles)
        /\ memPhase = "up" /\ agenda = <<>> => memFiles.index = Content
        /\ memPhase = "down" /\ Start(memFiles) # Torn =>
              memFiles.index \in {NoFile, Torn, OnDisk(memFiles)}

MemInv == MemTypeOK /\ StagesInv /\ NumbersInv /\ AckedInv /\ ExactInv

-----------------------------------------------------------------------------
(* Replaying a log *)

LEMMA CountingUp ==
    ASSUME NEW T, 0 \in T, \A n \in Nat : n \in T => n + 1 \in T
    PROVE  Nat \subseteq T
<1> DEFINE Bad == Nat \ T
<1> SUFFICES ASSUME Bad # {} PROVE FALSE
  OBVIOUS
<1>1. PICK x \in Bad : \A y \in Bad : ~(<<y, x>> \in OpToRel(<, Nat))
  <2>1. Bad \subseteq Nat
    OBVIOUS
  <2> HIDE DEF Bad
  <2> QED BY Zenon, <2>1, NatLessThanWellFounded, WFMin
<1>2. x \in Nat /\ x # 0
  OBVIOUS
<1>3. x - 1 \in Nat /\ x - 1 < x
  BY <1>2
<1>4. <<x - 1, x>> \in OpToRel(<, Nat)
  BY <1>2, <1>3 DEF OpToRel
<1>5. x - 1 \notin Bad
  BY Zenon, <1>1, <1>4
<1> QED BY <1>2, <1>3, <1>5

Steps(content, log, r, N) ==
    r = [n \in 0..N |-> IF n = 0 THEN content ELSE Replay(r[n - 1], log[n])]

LEMMA ReplayedExists ==
    ASSUME NEW content, NEW log
    PROVE  \A N \in Nat : \E r : Steps(content, log, r, N)
<1> DEFINE T == {N \in Nat : \E r : Steps(content, log, r, N)}
<1>1. 0 \in T
  <2> DEFINE r == [n \in 0..0 |-> content]
  <2>1. Steps(content, log, r, 0)
    BY DEF Steps
  <2> QED BY <2>1
<1>2. ASSUME NEW N \in Nat, N \in T PROVE N + 1 \in T
  <2>1. PICK r : Steps(content, log, r, N)
    BY <1>2
  <2> DEFINE s == [n \in 0..(N + 1) |-> IF n = N + 1 THEN Replay(r[N], log[N + 1]) ELSE r[n]]
             t == [n \in 0..(N + 1) |-> IF n = 0 THEN content ELSE Replay(s[n - 1], log[n])]
  <2>2. ASSUME NEW n \in 0..(N + 1) PROVE s[n] = t[n]
    <3>1. CASE n = N + 1
      <4>1. s[n] = Replay(r[N], log[n]) /\ s[n - 1] = r[N] /\ n # 0
        BY <3>1
      <4>2. t[n] = Replay(s[n - 1], log[n])
        BY <4>1
      <4> QED BY <4>1, <4>2
    <3>2. CASE n # N + 1 /\ n # 0
      <4>1. n \in 0..N /\ n - 1 \in 0..N
        BY <3>2
      <4>2. s[n] = r[n] /\ s[n - 1] = r[n - 1]
        BY <4>1
      <4>3. r[n] = Replay(r[n - 1], log[n])
        BY <2>1, <3>2, <4>1 DEF Steps
      <4>4. t[n] = Replay(s[n - 1], log[n])
        BY <3>2
      <4> QED BY <4>2, <4>3, <4>4
    <3>3. CASE n = 0
      <4>1. r[0] = content
        BY <2>1 DEF Steps
      <4> QED BY <3>3, <4>1
    <3> QED BY <3>1, <3>2, <3>3
  <2>3. s = t
    BY <2>2
  <2>4. Steps(content, log, s, N + 1)
    BY <2>3 DEF Steps
  <2> QED BY <2>4
<1> HIDE DEF T
<1>3. Nat \subseteq T
  BY <1>1, <1>2, CountingUp
<1> QED BY <1>3 DEF T

LEMMA ReplayedSteps ==
    ASSUME NEW content, NEW log, Len(log) \in Nat
    PROVE  Steps(content, log, Replayed(content, log), Len(log))
<1>1. \E r : Steps(content, log, r, Len(log))
  BY ReplayedExists
<1> QED BY Zenon, <1>1 DEF Steps, Replayed

LEMMA ReplayedOneByOne ==
    ASSUME NEW content, NEW log, Len(log) \in Nat
    PROVE  /\ Replayed(content, log)[0] = content
           /\ \A n \in 0..(Len(log) - 1) :
                 Replayed(content, log)[n + 1] = Replay(Replayed(content, log)[n], log[n + 1])
<1> DEFINE r == Replayed(content, log)
<1>1. r = [n \in 0..Len(log) |-> IF n = 0 THEN content ELSE Replay(r[n - 1], log[n])]
  BY ReplayedSteps DEF Steps
<1> HIDE DEF r
<1>2. r[0] = content
  BY <1>1
<1>3. ASSUME NEW n \in 0..(Len(log) - 1) PROVE r[n + 1] = Replay(r[n], log[n + 1])
  <2>1. n + 1 \in 0..Len(log) /\ n + 1 # 0 /\ (n + 1) - 1 = n
    OBVIOUS
  <2> QED BY <1>1, <2>1
<1> QED BY <1>2, <1>3 DEF r

LEMMA ReplayType ==
    ASSUME NEW content \in Contents, NEW entry \in LogEntries
    PROVE  /\ Replay(content, entry) \in Contents
           /\ Replay(content, entry).seq =
                 IF entry.seq <= content.seq THEN content.seq ELSE entry.seq
           /\ \A i \in MemIds : Replay(content, entry).records[i] =
                 IF entry.seq > content.seq /\ i \in entry.ids THEN entry.record
                                                               ELSE content.records[i]
<1>1. content.seq \in Nat /\ content.records \in [MemIds -> Recs]
  BY DEF Contents, Recs
<1>2. entry.seq \in Nat /\ entry.record \in Recs
  BY DEF LogEntries, Recs
<1> DEFINE recs == [i \in MemIds |-> IF i \in entry.ids THEN entry.record ELSE content.records[i]]
<1>3. recs \in [MemIds -> Recs]
  BY <1>1, <1>2
<1>4. CASE entry.seq <= content.seq
  BY <1>1, <1>2, <1>4 DEF Replay
<1>5. CASE ~(entry.seq <= content.seq)
  <2>1. Replay(content, entry) = [seq |-> entry.seq, records |-> recs]
    BY <1>5 DEF Replay
  <2>2. [seq |-> entry.seq, records |-> recs] \in Contents
    BY <1>2, <1>3 DEF Contents, Recs
  <2>3. entry.seq > content.seq
    BY <1>1, <1>2, <1>5
  <2> QED BY <1>5, <2>1, <2>2, <2>3
<1> QED BY <1>4, <1>5

LEMMA ReplayedTypes ==
    ASSUME NEW content \in Contents, NEW log \in Seq(LogEntries)
    PROVE  \A n \in 0..Len(log) : Replayed(content, log)[n] \in Contents
<1> DEFINE r == Replayed(content, log)
           T == {n \in Nat : n <= Len(log) => r[n] \in Contents}
<1>1. Len(log) \in Nat /\ \A k \in 1..Len(log) : log[k] \in LogEntries
  OBVIOUS
<1>2. /\ r[0] = content
      /\ \A n \in 0..(Len(log) - 1) : r[n + 1] = Replay(r[n], log[n + 1])
  BY <1>1, ReplayedOneByOne
<1> HIDE DEF r
<1>3. 0 \in T
  BY <1>2
<1>4. ASSUME NEW n \in Nat, n \in T PROVE n + 1 \in T
  <2> SUFFICES ASSUME n + 1 <= Len(log) PROVE r[n + 1] \in Contents
    OBVIOUS
  <2>1. n \in 0..(Len(log) - 1) /\ n + 1 \in 1..Len(log) /\ r[n] \in Contents
    BY <1>1, <1>4
  <2>2. r[n + 1] = Replay(r[n], log[n + 1]) /\ log[n + 1] \in LogEntries
    BY <1>1, <1>2, <2>1
  <2> QED BY <2>1, <2>2, ReplayType
<1> HIDE DEF T
<1>5. Nat \subseteq T
  BY <1>3, <1>4, CountingUp
<1> QED BY <1>1, <1>5 DEF T, r

\* Logs with the same first entries are the same so far.
LEMMA ReplayedPrefix ==
    ASSUME NEW content, NEW log, NEW other, Len(log) \in Nat, Len(other) \in Nat,
           Len(log) <= Len(other), \A k \in 1..Len(log) : log[k] = other[k]
    PROVE  Replayed(content, log)[Len(log)] = Replayed(content, other)[Len(log)]
<1> DEFINE r == Replayed(content, log)
           s == Replayed(content, other)
           T == {n \in Nat : n <= Len(log) => r[n] = s[n]}
<1>1. /\ r[0] = content
      /\ \A n \in 0..(Len(log) - 1) : r[n + 1] = Replay(r[n], log[n + 1])
  BY ReplayedOneByOne
<1>2. /\ s[0] = content
      /\ \A n \in 0..(Len(other) - 1) : s[n + 1] = Replay(s[n], other[n + 1])
  BY ReplayedOneByOne
<1> HIDE DEF r, s
<1>3. 0 \in T
  BY <1>1, <1>2
<1>4. ASSUME NEW n \in Nat, n \in T PROVE n + 1 \in T
  <2> SUFFICES ASSUME n + 1 <= Len(log) PROVE r[n + 1] = s[n + 1]
    OBVIOUS
  <2>1. n \in 0..(Len(log) - 1) /\ n \in 0..(Len(other) - 1) /\ n + 1 \in 1..Len(log)
    OBVIOUS
  <2>2. r[n] = s[n]
    BY <1>4, <2>1
  <2> QED BY <1>1, <1>2, <2>1, <2>2
<1> HIDE DEF T
<1>5. Nat \subseteq T
  BY <1>3, <1>4, CountingUp
<1> QED BY <1>5 DEF T, r, s

LEMMA ReplayedAppend ==
    ASSUME NEW content, NEW log \in Seq(LogEntries), NEW entry \in LogEntries
    PROVE  Replayed(content, Append(log, entry))[Len(log) + 1]
              = Replay(Replayed(content, log)[Len(log)], entry)
<1> DEFINE longer == Append(log, entry)
<1>1. /\ Len(log) \in Nat /\ Len(longer) = Len(log) + 1 /\ longer[Len(log) + 1] = entry
      /\ \A k \in 1..Len(log) : log[k] = longer[k]
  OBVIOUS
<1> HIDE DEF longer
<1>2. Replayed(content, log)[Len(log)] = Replayed(content, longer)[Len(log)]
  BY <1>1, ReplayedPrefix
<1>3. Len(log) \in 0..(Len(longer) - 1)
  BY <1>1
<1>4. Replayed(content, longer)[Len(log) + 1]
         = Replay(Replayed(content, longer)[Len(log)], longer[Len(log) + 1])
  BY <1>1, <1>3, ReplayedOneByOne
<1> QED BY Zenon, <1>1, <1>2, <1>4 DEF longer

\* Entries that the snapshot covers change nothing.
LEMMA ReplayedCovered ==
    ASSUME NEW content \in Contents, NEW log \in Seq(LogEntries),
           \A k \in 1..Len(log) : log[k].seq <= content.seq
    PROVE  Replayed(content, log)[Len(log)] = content
<1> DEFINE r == Replayed(content, log)
           T == {n \in Nat : n <= Len(log) => r[n] = content}
<1>1. /\ r[0] = content /\ Len(log) \in Nat
      /\ \A n \in 0..(Len(log) - 1) : r[n + 1] = Replay(r[n], log[n + 1])
  BY ReplayedOneByOne
<1> HIDE DEF r
<1>2. 0 \in T
  BY <1>1
<1>3. ASSUME NEW n \in Nat, n \in T PROVE n + 1 \in T
  <2> SUFFICES ASSUME n + 1 <= Len(log) PROVE r[n + 1] = content
    OBVIOUS
  <2>1. n \in 0..(Len(log) - 1) /\ n + 1 \in 1..Len(log) /\ r[n] = content
    BY <1>1, <1>3
  <2>2. r[n + 1] = Replay(content, log[n + 1]) /\ log[n + 1].seq <= content.seq
    BY <1>1, <2>1
  <2> QED BY <2>2 DEF Replay
<1> HIDE DEF T
<1>4. Nat \subseteq T
  BY Zenon, <1>2, <1>3, CountingUp
<1> QED BY <1>1, <1>4 DEF T, r

\* The number that is read is the greatest.
LEMMA ReplayedGreatest ==
    ASSUME NEW content \in Contents, NEW log \in Seq(LogEntries)
    PROVE  LET seq == Replayed(content, log)[Len(log)].seq
           IN  /\ content.seq <= seq
               /\ \A k \in 1..Len(log) : log[k].seq <= seq
               /\ seq = content.seq \/ \E k \in 1..Len(log) : log[k].seq = seq
<1> DEFINE r == Replayed(content, log)
           P(n) == /\ content.seq <= r[n].seq
                   /\ \A k \in 1..n : log[k].seq <= r[n].seq
                   /\ r[n].seq = content.seq \/ \E k \in 1..n : log[k].seq = r[n].seq
           T == {n \in Nat : n <= Len(log) => P(n)}
<1>1. /\ r[0] = content /\ Len(log) \in Nat
      /\ \A n \in 0..(Len(log) - 1) : r[n + 1] = Replay(r[n], log[n + 1])
  BY ReplayedOneByOne
<1>2. /\ \A n \in 0..Len(log) : r[n] \in Contents
      /\ \A k \in 1..Len(log) : log[k] \in LogEntries
  BY ReplayedTypes
<1> HIDE DEF r
<1>3. content.seq \in Nat /\ \A c \in Contents : c.seq \in Nat
  BY DEF Contents
<1>4. \A e \in LogEntries : e.seq \in Nat
  BY DEF LogEntries
<1>5. 0 \in T
  BY <1>1, <1>3
<1>6. ASSUME NEW n \in Nat, n \in T PROVE n + 1 \in T
  <2> SUFFICES ASSUME n + 1 <= Len(log) PROVE P(n + 1)
    OBVIOUS
  <2>1. n \in 0..(Len(log) - 1) /\ n \in 0..Len(log) /\ n + 1 \in 1..Len(log) /\ P(n)
    BY <1>1, <1>6
  <2> DEFINE c == r[n]
             e == log[n + 1]
  <2>2. c \in Contents /\ e \in LogEntries /\ r[n + 1] = Replay(c, e)
    BY <1>1, <1>2, <2>1
  <2>3. c.seq \in Nat /\ e.seq \in Nat
    BY <1>3, <1>4, <2>2
  <2>4. r[n + 1].seq = IF e.seq <= c.seq THEN c.seq ELSE e.seq
    <3> HIDE DEF c, e, P, T
    <3>1. Replay(c, e).seq = IF e.seq <= c.seq THEN c.seq ELSE e.seq
      BY <2>2, ReplayType
    <3> QED BY <2>2, <3>1
  <2>5. \A k \in 1..n : log[k].seq \in Nat /\ log[k].seq <= c.seq
    BY <1>2, <1>4, <2>1
  <2>6. content.seq <= r[n + 1].seq /\ \A k \in 1..n : log[k].seq <= r[n + 1].seq
    BY <1>3, <2>1, <2>3, <2>4, <2>5
  <2>7. e.seq <= r[n + 1].seq
    BY <2>3, <2>4
  <2>8. \A k \in 1..(n + 1) : log[k].seq <= r[n + 1].seq
    <3> TAKE k \in 1..(n + 1)
    <3>1. k \in 1..n \/ k = n + 1
      OBVIOUS
    <3> QED BY <2>6, <2>7, <3>1
  <2>9. r[n + 1].seq = content.seq \/ \E k \in 1..(n + 1) : log[k].seq = r[n + 1].seq
    <3>1. CASE e.seq <= c.seq
      <4>1. c.seq = content.seq \/ \E k \in 1..n : log[k].seq = c.seq
        BY <2>1
      <4>2. r[n + 1].seq = c.seq /\ \A k \in 1..n : k \in 1..(n + 1)
        BY <2>4, <3>1
      <4> QED BY Zenon, <4>1, <4>2
    <3>2. CASE ~(e.seq <= c.seq)
      <4>1. n + 1 \in 1..(n + 1) /\ r[n + 1].seq = e.seq
        BY <2>4, <3>2
      <4> QED BY Zenon, <4>1
    <3> QED BY <3>1, <3>2
  <2> QED BY <2>6, <2>8, <2>9
<1> HIDE DEF T
<1>7. Nat \subseteq T
  BY <1>5, <1>6, CountingUp
<1>8. P(Len(log))
  BY <1>1, <1>7 DEF T
<1> QED BY Zenon, <1>8 DEF r

\* The last entries say nothing of i.
LEMMA ReplayedUntouched ==
    ASSUME NEW content \in Contents, NEW log \in Seq(LogEntries), NEW m \in 0..Len(log),
           NEW i \in MemIds, \A k \in (m + 1)..Len(log) : i \notin log[k].ids
    PROVE  Replayed(content, log)[Len(log)].records[i] = Replayed(content, log)[m].records[i]
<1> DEFINE r == Replayed(content, log)
           T == {n \in Nat : m <= n /\ n <= Len(log) => r[n].records[i] = r[m].records[i]}
<1>1. /\ Len(log) \in Nat /\ m \in Nat
      /\ \A n \in 0..(Len(log) - 1) : r[n + 1] = Replay(r[n], log[n + 1])
  BY ReplayedOneByOne
<1>2. /\ \A n \in 0..Len(log) : r[n] \in Contents
      /\ \A k \in 1..Len(log) : log[k] \in LogEntries
  BY ReplayedTypes
<1> HIDE DEF r
<1>3. 0 \in T
  BY <1>1
<1>4. ASSUME NEW n \in Nat, n \in T PROVE n + 1 \in T
  <2> SUFFICES ASSUME m <= n + 1, n + 1 <= Len(log) PROVE r[n + 1].records[i] = r[m].records[i]
    OBVIOUS
  <2>1. CASE m = n + 1
    BY <2>1
  <2>2. CASE m # n + 1
    <3>1. /\ n \in 0..(Len(log) - 1) /\ n \in 0..Len(log) /\ n + 1 \in 1..Len(log)
          /\ n + 1 \in (m + 1)..Len(log) /\ m <= n /\ n <= Len(log)
      BY <1>1, <2>2
    <3>2. r[n].records[i] = r[m].records[i]
      BY <1>4, <3>1
    <3>3. /\ r[n] \in Contents /\ log[n + 1] \in LogEntries /\ i \notin log[n + 1].ids
          /\ r[n + 1] = Replay(r[n], log[n + 1])
      BY <1>1, <1>2, <3>1
    <3>4. r[n + 1].records[i] = r[n].records[i]
      BY <3>3, ReplayType
    <3> QED BY <3>2, <3>4
  <2> QED BY <2>1, <2>2
<1> HIDE DEF T
<1>5. Nat \subseteq T
  BY <1>3, <1>4, CountingUp
<1> QED BY <1>1, <1>5 DEF T, r

-----------------------------------------------------------------------------
(* What is on disk *)

Empty == [seq |-> 0, records |-> NoRecords]

LEMMA EmptyType == Empty \in Contents
BY DEF Empty, NoRecords, Contents

LEMMA FileFields ==
    ASSUME NEW files \in Files
    PROVE  /\ files.snapshot \in FileContents /\ files.next \in FileContents
           /\ files.bak \in FileContents /\ files.index \in FileContents
           /\ files.log \in Seq(LogEntries \cup {Torn}) /\ files.synced \in Nat
           /\ Len(files.log) \in Nat
BY DEF Files

\* prepareSnapshotFiles leaves the log and the index alone.
LEMMA PreparedFields ==
    ASSUME NEW files \in Files
    PROVE  /\ Prepared(files) \in Files
           /\ Prepared(files).log = files.log /\ Prepared(files).index = files.index
           /\ Prepared(files).synced = files.synced
           /\ Prepared(files).snapshot =
                 IF files.snapshot # NoFile THEN files.snapshot
                 ELSE IF files.next # NoFile THEN files.next ELSE files.bak
           /\ Prepared(files).snapshot = NoFile => Prepared(files).next = NoFile
           /\ Prepared(files).bak = NoFile \/ Prepared(files).snapshot # NoFile
<1>0. NoFile \in FileContents
  BY DEF FileContents
<1>1. CASE files.snapshot # NoFile
  <2>1. Prepared(files) = [files EXCEPT !.next = NoFile, !.bak = NoFile]
    BY <1>1 DEF Prepared
  <2> QED BY Zenon, <1>0, <1>1, <2>1 DEF Files
<1>2. CASE files.snapshot = NoFile /\ files.next # NoFile
  <2>1. Prepared(files) = [files EXCEPT !.snapshot = files.next, !.next = NoFile]
    BY <1>2 DEF Prepared
  <2> QED BY Zenon, <1>0, <1>2, <2>1 DEF Files
<1>3. CASE files.snapshot = NoFile /\ files.next = NoFile
  <2>1. Prepared(files) = [files EXCEPT !.snapshot = files.bak, !.bak = NoFile]
    BY <1>3 DEF Prepared
  <2> QED BY Zenon, <1>0, <1>3, <2>1 DEF Files
<1> QED BY Zenon, <1>1, <1>2, <1>3

LEMMA StartIs ==
    ASSUME NEW files \in Files
    PROVE  /\ Start(files) = IF files.snapshot # NoFile THEN files.snapshot
                             ELSE IF files.next # NoFile THEN files.next
                             ELSE IF files.bak # NoFile THEN files.bak ELSE Empty
           /\ Start(files) \in Contents \cup {Torn}
<1>1. Start(files) = IF Prepared(files).snapshot = NoFile THEN Empty ELSE Prepared(files).snapshot
  BY Zenon DEF Start, Base, Empty
<1>2. Start(files) = IF files.snapshot # NoFile THEN files.snapshot
                             ELSE IF files.next # NoFile THEN files.next
                             ELSE IF files.bak # NoFile THEN files.bak ELSE Empty
  BY <1>1, PreparedFields
<1>3. Empty \in Contents /\ \A x \in FileContents : x # NoFile => x \in Contents \cup {Torn}
  BY EmptyType DEF FileContents
<1> QED BY <1>2, <1>3, FileFields

LEMMA PreparedStart ==
    ASSUME NEW files \in Files
    PROVE  Start(Prepared(files)) = Start(files)
<1>1. Prepared(files) \in Files
  BY PreparedFields
<1> QED BY <1>1, PreparedFields, StartIs

LEMMA DecodedType ==
    ASSUME NEW log \in Seq(LogEntries \cup {Torn})
    PROVE  /\ Decoded(log) \in Seq(LogEntries)
           /\ Len(Decoded(log)) = Len(log) /\ Len(log) \in Nat
           /\ \A k \in 1..Len(log) : Decoded(log)[k] = IF log[k] = Torn THEN Blank ELSE log[k]
<1>1. Blank \in LogEntries
  BY DEF Blank, LogEntries
<1>2. \A k \in 1..Len(log) : log[k] \in LogEntries \cup {Torn}
  OBVIOUS
<1>3. Decoded(log) \in [1..Len(log) -> LogEntries]
  BY <1>1, <1>2 DEF Decoded
<1>4. Len(log) \in Nat
  OBVIOUS
<1> QED BY <1>3, <1>4 DEF Decoded

LEMMA DecodedAppend ==
    ASSUME NEW log \in Seq(LogEntries \cup {Torn}), NEW entry \in LogEntries \cup {Torn}
    PROVE  Decoded(Append(log, entry)) =
              Append(Decoded(log), IF entry = Torn THEN Blank ELSE entry)
<1> DEFINE longer == Append(log, entry)
           e == IF entry = Torn THEN Blank ELSE entry
           d == Append(Decoded(log), e)
<1>0. Blank \in LogEntries /\ e \in LogEntries
  BY DEF Blank, LogEntries
<1>1. /\ longer \in Seq(LogEntries \cup {Torn}) /\ Len(longer) = Len(log) + 1 /\ Len(log) \in Nat
      /\ longer[Len(log) + 1] = entry /\ \A k \in 1..Len(log) : longer[k] = log[k]
  OBVIOUS
<1>2. /\ Decoded(log) \in Seq(LogEntries) /\ Len(Decoded(log)) = Len(log)
      /\ \A k \in 1..Len(log) : Decoded(log)[k] = IF log[k] = Torn THEN Blank ELSE log[k]
  BY DecodedType
<1>3. /\ Decoded(longer) \in Seq(LogEntries) /\ Len(Decoded(longer)) = Len(log) + 1
      /\ \A k \in 1..(Len(log) + 1) :
            Decoded(longer)[k] = IF longer[k] = Torn THEN Blank ELSE longer[k]
  <2> HIDE DEF longer
  <2> QED BY Zenon, <1>1, DecodedType
<1>4. /\ d \in Seq(LogEntries) /\ Len(d) = Len(log) + 1 /\ d[Len(log) + 1] = e
      /\ \A k \in 1..Len(log) : d[k] = Decoded(log)[k]
  <2>1. ASSUME NEW s \in Seq(LogEntries), NEW x \in LogEntries
        PROVE  /\ Append(s, x) \in Seq(LogEntries) /\ Len(Append(s, x)) = Len(s) + 1
               /\ Append(s, x)[Len(s) + 1] = x
               /\ \A k \in 1..Len(s) : Append(s, x)[k] = s[k]
    OBVIOUS
  <2>2. ASSUME NEW s \in Seq(LogEntries), NEW x \in LogEntries, Len(s) = Len(log)
        PROVE  /\ Append(s, x) \in Seq(LogEntries) /\ Len(Append(s, x)) = Len(log) + 1
               /\ Append(s, x)[Len(log) + 1] = x
               /\ \A k \in 1..Len(log) : Append(s, x)[k] = s[k]
    BY <2>1, <2>2
  <2> HIDE DEF e
  <2> QED BY Zenon, <1>0, <1>2, <2>2
<1> HIDE DEF longer, d
<1>5. \A k \in 1..(Len(log) + 1) : Decoded(longer)[k] = d[k]
  <2> TAKE k \in 1..(Len(log) + 1)
  <2>1. k \in 1..Len(log) \/ k = Len(log) + 1
    BY <1>1
  <2>2. CASE k \in 1..Len(log)
    BY Zenon, <1>1, <1>2, <1>3, <1>4, <2>2
  <2>3. CASE k = Len(log) + 1
    BY Zenon, <1>1, <1>3, <1>4, <2>3
  <2> QED BY <2>1, <2>2, <2>3
<1> QED BY <1>1, <1>3, <1>4, <1>5 DEF longer, d

LEMMA OnDiskType ==
    ASSUME NEW files \in Files, Start(files) # Torn
    PROVE  /\ Start(files) \in Contents /\ OnDisk(files) \in Contents
           /\ OnDisk(files).seq \in Nat /\ OnDisk(files).records \in [MemIds -> Recs]
<1>1. Start(files) \in Contents
  BY StartIs
<1>2. /\ Decoded(files.log) \in Seq(LogEntries) /\ Len(Decoded(files.log)) = Len(files.log)
      /\ Len(files.log) \in Nat
  BY FileFields, DecodedType
<1>3. OnDisk(files) \in Contents
  <2>1. Len(files.log) \in 0..Len(Decoded(files.log))
    BY <1>2
  <2> QED BY <1>1, <1>2, <2>1, ReplayedTypes DEF OnDisk
<1> QED BY <1>1, <1>3 DEF Contents, Recs

\* Recovery reads the same from the same snapshot and the same log.
LEMMA OnDiskSame ==
    ASSUME NEW files, NEW other, Start(other) = Start(files), other.log = files.log
    PROVE  OnDisk(other) = OnDisk(files)
BY Zenon DEF OnDisk

\* An entry at the end of the log is replayed last; a torn one is nothing.
LEMMA OnDiskAppend ==
    ASSUME NEW files \in Files, NEW other, NEW entry \in LogEntries \cup {Torn},
           Start(files) # Torn, Start(other) = Start(files),
           other.log = Append(files.log, entry)
    PROVE  /\ entry # Torn => OnDisk(other) = Replay(OnDisk(files), entry)
           /\ entry = Torn => OnDisk(other) = OnDisk(files)
<1> DEFINE start == Start(files)
           log == Decoded(files.log)
           e == IF entry = Torn THEN Blank ELSE entry
<1>1. start \in Contents /\ OnDisk(files).seq \in Nat
  BY OnDiskType
<1>2. /\ files.log \in Seq(LogEntries \cup {Torn}) /\ Len(files.log) \in Nat
      /\ log \in Seq(LogEntries) /\ Len(log) = Len(files.log)
  BY Zenon, FileFields, DecodedType
<1>3. e \in LogEntries
  BY DEF Blank, LogEntries
<1>4. Decoded(other.log) = Append(log, e) /\ Len(other.log) = Len(log) + 1
  BY <1>2, DecodedAppend
<1>5. OnDisk(files) = Replayed(start, log)[Len(log)]
  BY Zenon, <1>2 DEF OnDisk
<1>6. OnDisk(other) = Replayed(start, Append(log, e))[Len(log) + 1]
  BY Zenon, <1>4 DEF OnDisk
<1> HIDE DEF start, log
<1>7. OnDisk(other) = Replay(OnDisk(files), e)
  <2> HIDE DEF e
  <2> QED BY Zenon, <1>2, <1>3, <1>5, <1>6, ReplayedAppend
<1>8. Replay(OnDisk(files), Blank) = OnDisk(files)
  BY <1>1 DEF Replay, Blank
<1> QED BY Zenon, <1>7, <1>8

\* A snapshot with a number that no entry exceeds is all there is.
LEMMA OnDiskCovered ==
    ASSUME NEW files \in Files, Start(files) # Torn,
           \A k \in 1..Len(files.log) :
              files.log[k] # Torn => files.log[k].seq <= Start(files).seq
    PROVE  OnDisk(files) = Start(files)
<1> DEFINE start == Start(files)
           log == Decoded(files.log)
<1>1. start \in Contents /\ start.seq \in Nat
  BY OnDiskType DEF Contents
<1>2. /\ log \in Seq(LogEntries) /\ Len(log) = Len(files.log)
      /\ \A k \in 1..Len(log) : log[k] = IF files.log[k] = Torn THEN Blank ELSE files.log[k]
  BY Zenon, FileFields, DecodedType
<1>3. \A k \in 1..Len(log) : log[k].seq <= start.seq
  <2> TAKE k \in 1..Len(log)
  <2>1. CASE files.log[k] = Torn
    <3>1. log[k] = Blank
      BY <1>2, <2>1
    <3> QED BY <1>1, <3>1 DEF Blank
  <2>2. CASE files.log[k] # Torn
    <3>1. log[k] = files.log[k] /\ k \in 1..Len(files.log)
      BY <1>2, <2>2
    <3> QED BY Zenon, <2>2, <3>1
  <2> QED BY Zenon, <2>1, <2>2
<1>4. OnDisk(files) = Replayed(start, log)[Len(log)]
  BY Zenon, <1>2 DEF OnDisk
<1> HIDE DEF start, log
<1>5. Replayed(start, log)[Len(log)] = start
  BY Zenon, <1>1, <1>2, <1>3, ReplayedCovered
<1> QED BY Zenon, <1>4, <1>5 DEF start

\* The number that recovery goes on from.
LEMMA OnDiskNumber ==
    ASSUME NEW files \in Files, Start(files) # Torn
    PROVE  /\ Start(files).seq <= OnDisk(files).seq
           /\ \A k \in 1..Len(files.log) :
                 files.log[k] # Torn => files.log[k].seq <= OnDisk(files).seq
           /\ \A bound \in Nat :
                 /\ Start(files).seq <= bound
                 /\ \A k \in 1..Len(files.log) : files.log[k] # Torn => files.log[k].seq <= bound
                 => OnDisk(files).seq <= bound
<1> DEFINE start == Start(files)
           log == Decoded(files.log)
<1>1. start \in Contents /\ start.seq \in Nat
  BY OnDiskType DEF Contents
<1>2. /\ log \in Seq(LogEntries) /\ Len(log) = Len(files.log)
      /\ \A k \in 1..Len(log) : log[k] = IF files.log[k] = Torn THEN Blank ELSE files.log[k]
  BY FileFields, DecodedType
<1>3. OnDisk(files) = Replayed(start, log)[Len(log)]
  BY Zenon, <1>2 DEF OnDisk
<1> HIDE DEF start, log
<1>4. /\ start.seq <= OnDisk(files).seq
      /\ \A k \in 1..Len(log) : log[k].seq <= OnDisk(files).seq
      /\ OnDisk(files).seq = start.seq \/ \E k \in 1..Len(log) : log[k].seq = OnDisk(files).seq
  BY <1>1, <1>2, <1>3, ReplayedGreatest
<1>5. \A k \in 1..Len(files.log) : files.log[k] # Torn => files.log[k].seq <= OnDisk(files).seq
  BY <1>2, <1>4
<1>6. ASSUME NEW bound \in Nat, start.seq <= bound,
             \A k \in 1..Len(files.log) : files.log[k] # Torn => files.log[k].seq <= bound
      PROVE  OnDisk(files).seq <= bound
  <2>1. CASE OnDisk(files).seq = start.seq
    BY Zenon, <1>6, <2>1
  <2>2. ASSUME NEW k \in 1..Len(log), log[k].seq = OnDisk(files).seq PROVE OnDisk(files).seq <= bound
    <3>1. CASE files.log[k] = Torn
      <4>1. log[k].seq = 0
        BY <1>2, <3>1 DEF Blank
      <4> QED BY <2>2, <4>1
    <3>2. CASE files.log[k] # Torn
      BY <1>2, <1>6, <2>2, <3>2
    <3> QED BY <3>1, <3>2
  <2> QED BY Zenon, <1>4, <2>1, <2>2
<1> QED BY Zenon, <1>4, <1>5, <1>6 DEF start

\* A log that was cut off keeps what the lost entries did not say.
LEMMA OnDiskCut ==
    ASSUME NEW files \in Files, NEW other, Start(files) # Torn, Start(other) = Start(files),
           NEW n \in 0..Len(files.log),
           other.log \in {SubSeq(files.log, 1, n), Append(SubSeq(files.log, 1, n), Torn)},
           NEW i \in MemIds,
           \A k \in (n + 1)..Len(files.log) : files.log[k] # Torn => i \notin files.log[k].ids
    PROVE  OnDisk(other).records[i] = OnDisk(files).records[i]
<1> DEFINE start == Start(files)
           log == Decoded(files.log)
           cut == SubSeq(files.log, 1, n)
           kept == [files EXCEPT !.log = cut]
<1>1. start \in Contents
  BY OnDiskType
<1>2. files.log \in Seq(LogEntries \cup {Torn}) /\ Len(files.log) \in Nat
  BY FileFields
<1>3. /\ log \in Seq(LogEntries) /\ Len(log) = Len(files.log)
      /\ \A k \in 1..Len(log) : log[k] = IF files.log[k] = Torn THEN Blank ELSE files.log[k]
  BY <1>2, DecodedType
<1>4. /\ cut \in Seq(LogEntries \cup {Torn}) /\ Len(cut) = n
      /\ \A k \in 1..n : cut[k] = files.log[k]
  <2>1. ASSUME NEW S, NEW s \in Seq(S), NEW m \in 0..Len(s)
        PROVE  /\ SubSeq(s, 1, m) \in Seq(S) /\ Len(SubSeq(s, 1, m)) = m
               /\ \A k \in 1..m : SubSeq(s, 1, m)[k] = s[k]
    OBVIOUS
  <2> QED BY <1>2, <2>1
<1> HIDE DEF cut
<1>5. /\ Decoded(cut) \in Seq(LogEntries) /\ Len(Decoded(cut)) = n
      /\ \A k \in 1..n : Decoded(cut)[k] = log[k]
  <2>1. /\ Decoded(cut) \in Seq(LogEntries) /\ Len(Decoded(cut)) = n
        /\ \A k \in 1..n : Decoded(cut)[k] = IF cut[k] = Torn THEN Blank ELSE cut[k]
    BY <1>4, DecodedType
  <2>2. \A k \in 1..n : k \in 1..Len(log)
    BY <1>2, <1>3
  <2> HIDE DEF log
  <2> QED BY <1>3, <1>4, <2>1, <2>2
<1>6. kept \in Files /\ kept.log = cut /\ Start(kept) = start
  <2>1. kept \in Files /\ kept.log = cut
    BY Zenon, <1>4 DEF Files
  <2>2. kept.snapshot = files.snapshot /\ kept.next = files.next /\ kept.bak = files.bak
    BY Zenon DEF Files
  <2> HIDE DEF kept
  <2> QED BY <2>1, <2>2, StartIs
<1> HIDE DEF kept
<1>7. OnDisk(other) = OnDisk(kept)
  <2>1. CASE other.log = cut
    BY Zenon, <1>6, <2>1 DEF OnDisk
  <2>2. CASE other.log = Append(cut, Torn)
    <3>1. Torn \in LogEntries \cup {Torn} /\ Start(kept) # Torn /\ Start(other) = Start(kept)
          /\ other.log = Append(kept.log, Torn)
      BY Zenon, <1>6, <2>2
    <3> QED BY Zenon, <1>6, <3>1, OnDiskAppend
  <2> QED BY Zenon, <2>1, <2>2 DEF cut
<1>8. OnDisk(kept) = Replayed(start, Decoded(cut))[n]
  BY Zenon, <1>4, <1>6 DEF OnDisk
<1>9. OnDisk(files) = Replayed(start, log)[Len(log)]
  BY Zenon, <1>3 DEF OnDisk
<1>10. Replayed(start, Decoded(cut))[n] = Replayed(start, log)[n]
  <2>1. Len(Decoded(cut)) \in Nat /\ Len(log) \in Nat /\ Len(Decoded(cut)) <= Len(log)
    BY <1>2, <1>3, <1>5
  <2> HIDE DEF log, start
  <2>2. Replayed(start, Decoded(cut))[Len(Decoded(cut))] = Replayed(start, log)[Len(Decoded(cut))]
    BY <1>5, <2>1, ReplayedPrefix
  <2> QED BY Zenon, <1>5, <2>2
<1>11. \A k \in (n + 1)..Len(log) : i \notin log[k].ids
  <2> TAKE k \in (n + 1)..Len(log)
  <2>1. k \in 1..Len(log) /\ k \in (n + 1)..Len(files.log)
    BY <1>2, <1>3
  <2>2. CASE files.log[k] = Torn
    BY <1>3, <2>1, <2>2 DEF Blank
  <2>3. CASE files.log[k] # Torn
    BY Zenon, <1>3, <2>1, <2>3
  <2> QED BY <2>2, <2>3
<1>12. n \in 0..Len(log)
  BY <1>3
<1> HIDE DEF start, log
<1>13. Replayed(start, log)[Len(log)].records[i] = Replayed(start, log)[n].records[i]
  BY Zenon, <1>1, <1>3, <1>11, <1>12, ReplayedUntouched
<1> QED BY Zenon, <1>7, <1>8, <1>9, <1>10, <1>13

\* other is files with a log that was cut after n entries, perhaps within the
\* next one.
CutAfter(files, other, n) ==
    /\ files \in Files /\ Start(files) # Torn /\ Start(other) = Start(files)
    /\ n \in 0..Len(files.log)
    /\ other.log \in {SubSeq(files.log, 1, n), Append(SubSeq(files.log, 1, n), Torn)}

LostNothingOf(files, n, i) ==
    \A k \in (n + 1)..Len(files.log) : files.log[k] # Torn => i \notin files.log[k].ids

LEMMA CutKeeps ==
    ASSUME NEW files, NEW other, NEW n, NEW i \in MemIds,
           CutAfter(files, other, n), LostNothingOf(files, n, i)
    PROVE  OnDisk(other).records[i] = OnDisk(files).records[i]
BY OnDiskCut DEF CutAfter, LostNothingOf

\* NewFilesystemEngine reads what is on disk, if all of it decodes.
LEMMA RecoveredIsOnDisk ==
    ASSUME NEW files \in Files, ~Undecodable(Prepared(files))
    PROVE  /\ Start(files) # Torn
           /\ Recovered(Prepared(files)) = OnDisk(files)
           /\ OnDisk(Prepared(files)) = OnDisk(files)
           /\ files.index # Torn
<1> DEFINE f == Prepared(files)
<1>1. /\ f \in Files /\ f.log = files.log /\ f.index = files.index /\ Start(f) = Start(files)
  BY PreparedFields, PreparedStart
<1>2. f.snapshot # Torn /\ Torn \notin Range(f.log) /\ f.index # Torn
  BY Zenon DEF Undecodable
<1>3. Base(f) = Start(files)
  BY Zenon DEF Start
<1>4. Base(f) # Torn
  <2>1. Empty # Torn
    BY EmptyType, MemoryMarksAssumption
  <2> QED BY Zenon, <1>2, <2>1 DEF Base, Empty
<1>5. OnDisk(f) = OnDisk(files)
  BY Zenon, <1>1, OnDiskSame
<1>6. Decoded(f.log) = f.log
  <2>1. f.log \in Seq(LogEntries \cup {Torn}) /\ \A k \in 1..Len(f.log) : f.log[k] # Torn
    BY <1>1, <1>2, FileFields DEF Range
  <2> HIDE DEF f
  <2> QED BY <2>1 DEF Decoded
<1>7. Recovered(f) = OnDisk(files)
  BY Zenon, <1>1, <1>3, <1>6 DEF Recovered, OnDisk
<1> QED BY Zenon, <1>1, <1>2, <1>3, <1>4, <1>5, <1>7

-----------------------------------------------------------------------------
(* What Query shows *)

LEMMA SeenTwice ==
    ASSUME NEW r \in Recs, NEW c \in Nat
    PROVE  /\ Seen(r, c) \in Recs
           /\ Seen(Seen(r, c), c) = Seen(r, c)
           /\ Seen(Seen(r, c), c + 1) = Seen(r, c + 1)
<1>1. CASE r = NoRecord
  BY <1>1 DEF Seen, Recs
<1>2. CASE r # NoRecord
  <2>1. r \in MemRecord /\ r.at \in Nat /\ MemTTL \in Nat
    BY <1>2, MemoryAssumption DEF Recs, MemRecord
  <2>2. CASE r.at + MemTTL < c
    <3>1. Seen(r, c) = NoRecord /\ Seen(NoRecord, c) = NoRecord /\ Seen(NoRecord, c + 1) = NoRecord
      BY <1>2, <2>2 DEF Seen
    <3>2. r.at + MemTTL < c + 1
      BY <2>1, <2>2
    <3> QED BY <1>2, <3>1, <3>2 DEF Seen, Recs
  <2>3. CASE ~(r.at + MemTTL < c)
    BY <1>2, <2>3 DEF Seen
  <2> QED BY <2>2, <2>3
<1> QED BY <1>1, <1>2

\* Dropping expired records is not seen.
LEMMA PurgedIsSeen ==
    ASSUME NEW recs \in [MemIds -> Recs], memClock \in Nat
    PROVE  /\ Purged(recs) \in [MemIds -> Recs]
           /\ \A i \in MemIds : Purged(recs)[i] = Seen(recs[i], memClock) /\ Same(Purged(recs)[i], recs[i])
<1>1. \A i \in MemIds : recs[i] \in Recs
  OBVIOUS
<1>2. \A i \in MemIds : Purged(recs)[i] = Seen(recs[i], memClock)
  BY DEF Purged, Expired, Seen
<1>3. \A i \in MemIds : Seen(recs[i], memClock) \in Recs /\ Same(Seen(recs[i], memClock), recs[i])
  BY <1>1, SeenTwice DEF Same
<1>4. Purged(recs) = [i \in MemIds |-> Seen(recs[i], memClock)]
  BY Zenon DEF Purged, Expired, Seen
<1>5. Purged(recs) \in [MemIds -> Recs]
  BY <1>3, <1>4
<1> QED BY Zenon, <1>2, <1>3, <1>5

-----------------------------------------------------------------------------
(* The steps of an operation *)

LEMMA ChainedTail ==
    ASSUME NEW a, Chained(a), a # <<>>
    PROVE  /\ Head(a) \in AgendaItems
           /\ Chained(Tail(a))
           /\ Tail(a) = <<>> => Head(a).do \in {"write_index", "maybe_compact"}
           /\ Tail(a) # <<>> => <<Head(a).do, Head(Tail(a)).do>> \in Successors
<1> DEFINE t == Tail(a)
<1>1. /\ a \in Seq(AgendaItems) /\ Len(a) \in Nat /\ Len(a) # 0 /\ Head(a) = a[1]
      /\ a[1] \in AgendaItems
      /\ a[Len(a)].do \in {"write_index", "maybe_compact"}
      /\ \A k \in 1..(Len(a) - 1) : <<a[k].do, a[k + 1].do>> \in Successors
  BY DEF Chained
<1>2. /\ t \in Seq(AgendaItems) /\ Len(t) = Len(a) - 1 /\ \A k \in 1..Len(t) : t[k] = a[k + 1]
  BY <1>1
<1> HIDE DEF t
<1>3. t = <<>> => Len(a) = 1
  BY <1>1, <1>2
<1>4. t # <<>> => Len(t) \in Nat /\ Len(t) # 0 /\ Head(t) = t[1] /\ 1 \in 1..Len(t)
  BY <1>2
<1>5. t # <<>> => Head(t) = a[2] /\ 1 \in 1..(Len(a) - 1)
  BY <1>1, <1>2, <1>4
<1>6. t # <<>> => <<Head(a).do, Head(t).do>> \in Successors
  BY <1>1, <1>5
<1>7. t # <<>> => t[Len(t)].do \in {"write_index", "maybe_compact"}
  BY <1>1, <1>2, <1>4
<1>8. \A k \in 1..(Len(t) - 1) : <<t[k].do, t[k + 1].do>> \in Successors
  <2> TAKE k \in 1..(Len(t) - 1)
  <2>1. k \in 1..Len(t) /\ k + 1 \in 1..Len(t) /\ k + 1 \in 1..(Len(a) - 1)
    BY <1>1, <1>2
  <2>2. t[k] = a[k + 1] /\ t[k + 1] = a[(k + 1) + 1]
    BY <1>2, <2>1
  <2> QED BY <1>1, <2>1, <2>2
<1>9. Chained(t)
  BY <1>2, <1>7, <1>8 DEF Chained
<1> QED BY <1>1, <1>3, <1>6, <1>9 DEF t

\* The step after each step.
LEMMA StepAfter ==
    ASSUME NEW a, Chained(a), a # <<>>
    PROVE  LET step == Head(a).do
               rest == Tail(a)
           IN  /\ ~Waits(rest, "append")
               /\ Waits(rest, "rotate") => step = "write_next"
               /\ Waits(rest, "promote") => step = "rotate"
               /\ Waits(rest, "drop_bak") => step = "promote"
               /\ Waits(rest, "truncate_log") => step = "drop_bak"
               /\ Waits(rest, "maybe_compact") => step = "write_index"
               /\ rest = <<>> => step \in {"write_index", "maybe_compact"}
               /\ step = "maybe_compact" => rest = <<>>
<1> DEFINE step == Head(a).do
           rest == Tail(a)
           after == Head(rest).do
<1>1. rest = <<>> => step \in {"write_index", "maybe_compact"}
  BY Zenon, ChainedTail
<1>2. rest # <<>> => <<step, after>> \in Successors
  BY Zenon, ChainedTail
<1> HIDE DEF step, after, rest
<1>3. ASSUME NEW x, NEW y, <<x, y>> \in Successors
      PROVE  /\ y # "append" /\ x # "maybe_compact"
             /\ y = "rotate" => x = "write_next"
             /\ y = "promote" => x = "rotate"
             /\ y = "drop_bak" => x = "promote"
             /\ y = "truncate_log" => x = "drop_bak"
             /\ y = "maybe_compact" => x = "write_index"
  BY <1>3 DEF Successors
<1> QED BY Zenon, <1>1, <1>2, <1>3 DEF Waits, step, after, rest

\* The operations and what they have to do.
LEMMA Agendas ==
    /\ Chained(<<>>)
    /\ Chained(Compaction) /\ Waits(Compaction, "create_next")
    /\ Chained(<<Do("open_index"), Do("write_index")>>)
    /\ Waits(<<Do("open_index"), Do("write_index")>>, "open_index")
<1>1. ASSUME NEW step \in StepNames PROVE Do(step) \in AgendaItems /\ Do(step).do = step
  BY Zenon DEF Do, AgendaItems
<1>2. Chained(<<>>)
  BY DEF Chained
<1>3. Chained(Compaction) /\ Waits(Compaction, "create_next")
  <2> DEFINE c == <<Do("create_next"), Do("write_next"), Do("rotate"), Do("promote"), Do("drop_bak"),
                    Do("truncate_log"), Do("open_index"), Do("write_index")>>
  <2>1. /\ Do("create_next") \in AgendaItems /\ Do("write_next") \in AgendaItems
        /\ Do("rotate") \in AgendaItems /\ Do("promote") \in AgendaItems
        /\ Do("drop_bak") \in AgendaItems /\ Do("truncate_log") \in AgendaItems
        /\ Do("open_index") \in AgendaItems /\ Do("write_index") \in AgendaItems
    BY <1>1 DEF StepNames
  <2>2. c \in Seq(AgendaItems) /\ Len(c) = 8 /\ c # <<>>
    BY <2>1
  <2>3. /\ c[1].do = "create_next" /\ c[2].do = "write_next" /\ c[3].do = "rotate"
        /\ c[4].do = "promote" /\ c[5].do = "drop_bak" /\ c[6].do = "truncate_log"
        /\ c[7].do = "open_index" /\ c[8].do = "write_index"
    BY DEF Do
  <2> HIDE DEF c
  <2>4. \A k \in 1..(Len(c) - 1) : <<c[k].do, c[k + 1].do>> \in Successors
    <3> TAKE k \in 1..(Len(c) - 1)
    <3>1. k \in {1, 2, 3, 4, 5, 6, 7}
      BY <2>2
    <3>2. CASE k \in {1, 2, 3}
      BY <2>3, <3>2 DEF Successors
    <3>3. CASE k \in {4, 5}
      BY <2>3, <3>3 DEF Successors
    <3>4. CASE k \in {6, 7}
      BY <2>3, <3>4 DEF Successors
    <3> QED BY <3>1, <3>2, <3>3, <3>4
  <2>5. Chained(c)
    BY <2>2, <2>3, <2>4 DEF Chained
  <2>6. Waits(c, "create_next")
    BY <2>2, <2>3 DEF Waits
  <2> QED BY Zenon, <2>5, <2>6 DEF Compaction, c
<1>4. /\ Chained(<<Do("open_index"), Do("write_index")>>)
      /\ Waits(<<Do("open_index"), Do("write_index")>>, "open_index")
  <2> DEFINE c == <<Do("open_index"), Do("write_index")>>
  <2>1. Do("open_index") \in AgendaItems /\ Do("write_index") \in AgendaItems
    BY <1>1 DEF StepNames
  <2>2. c \in Seq(AgendaItems) /\ Len(c) = 2 /\ c # <<>>
    BY <2>1
  <2>3. c[1].do = "open_index" /\ c[2].do = "write_index"
    BY DEF Do
  <2> HIDE DEF c
  <2>4. \A k \in 1..(Len(c) - 1) : <<c[k].do, c[k + 1].do>> \in Successors
    BY <2>2, <2>3 DEF Successors
  <2>5. Chained(c)
    BY <2>2, <2>3, <2>4 DEF Chained
  <2>6. Waits(c, "open_index")
    BY <2>2, <2>3 DEF Waits
  <2> QED BY Zenon, <2>5, <2>6 DEF c
<1> QED BY <1>2, <1>3, <1>4

LEMMA WritingAgendas ==
    ASSUME NEW entry \in LogEntries
    PROVE  LET upsert == <<LogEntry(entry), Do("trim")>> \o Finish
               delete == <<LogEntry(entry)>> \o Finish
           IN  /\ Chained(upsert) /\ Waits(upsert, "append") /\ Head(upsert).entry = entry
               /\ Chained(delete) /\ Waits(delete, "append") /\ Head(delete).entry = entry
<1> DEFINE e == LogEntry(entry)
<1>1. ASSUME NEW step \in StepNames PROVE Do(step) \in AgendaItems /\ Do(step).do = step
  BY Zenon DEF Do, AgendaItems
<1>2. /\ Do("open_index") \in AgendaItems /\ Do("write_index") \in AgendaItems
      /\ Do("maybe_compact") \in AgendaItems /\ Do("trim") \in AgendaItems
  BY <1>1 DEF StepNames
<1>3. e \in AgendaItems /\ e.do = "append" /\ e.entry = entry
  BY Zenon DEF LogEntry, AgendaItems
<1>4. /\ Do("trim").do = "trim" /\ Do("open_index").do = "open_index"
      /\ Do("write_index").do = "write_index" /\ Do("maybe_compact").do = "maybe_compact"
  BY Zenon DEF Do
<1> HIDE DEF e
<1>5. ASSUME NEW c \in Seq(AgendaItems), Len(c) = 5, c[1] = e, c[2].do = "trim",
             c[3].do = "open_index", c[4].do = "write_index", c[5].do = "maybe_compact"
      PROVE  Chained(c) /\ Waits(c, "append") /\ Head(c).entry = entry
  <2>1. c # <<>> /\ Head(c) = e /\ c[1].do = "append"
    <3>1. Len(c) # 0 => c # <<>> /\ Head(c) = c[1]
      OBVIOUS
    <3>2. Len(c) # 0 /\ c[1] = e
      BY <1>5
    <3> QED BY Zenon, <1>3, <3>1, <3>2
  <2>2. \A k \in 1..(Len(c) - 1) : <<c[k].do, c[k + 1].do>> \in Successors
    <3> TAKE k \in 1..(Len(c) - 1)
    <3>1. k \in {1, 2, 3, 4}
      BY <1>5
    <3> QED BY <1>5, <2>1, <3>1 DEF Successors
  <2>3. Chained(c)
    BY <1>5, <2>2 DEF Chained
  <2> QED BY <1>3, <2>1, <2>3 DEF Waits
<1>6. ASSUME NEW c \in Seq(AgendaItems), Len(c) = 4, c[1] = e,
             c[2].do = "open_index", c[3].do = "write_index", c[4].do = "maybe_compact"
      PROVE  Chained(c) /\ Waits(c, "append") /\ Head(c).entry = entry
  <2>1. c # <<>> /\ Head(c) = e /\ c[1].do = "append"
    <3>1. Len(c) # 0 => c # <<>> /\ Head(c) = c[1]
      OBVIOUS
    <3>2. Len(c) # 0 /\ c[1] = e
      BY <1>6
    <3> QED BY Zenon, <1>3, <3>1, <3>2
  <2>2. \A k \in 1..(Len(c) - 1) : <<c[k].do, c[k + 1].do>> \in Successors
    <3> TAKE k \in 1..(Len(c) - 1)
    <3>1. k \in {1, 2, 3}
      BY <1>6
    <3> QED BY <1>6, <2>1, <3>1 DEF Successors
  <2>3. Chained(c)
    BY <1>6, <2>2 DEF Chained
  <2> QED BY <1>3, <2>1, <2>3 DEF Waits
<1>7. /\ Finish \in Seq(AgendaItems) /\ Len(Finish) = 3 /\ Finish[1].do = "open_index"
      /\ Finish[2].do = "write_index" /\ Finish[3].do = "maybe_compact"
  BY <1>2, <1>4 DEF Finish
<1>8. /\ <<e, Do("trim")>> \in Seq(AgendaItems) /\ Len(<<e, Do("trim")>>) = 2
      /\ <<e, Do("trim")>>[1] = e /\ <<e, Do("trim")>>[2].do = "trim"
      /\ <<e>> \in Seq(AgendaItems) /\ Len(<<e>>) = 1 /\ <<e>>[1] = e
  BY <1>2, <1>3, <1>4
<1>9. ASSUME NEW a \in Seq(AgendaItems), NEW b \in Seq(AgendaItems), Len(b) = 3
      PROVE  /\ a \o b \in Seq(AgendaItems) /\ Len(a \o b) = Len(a) + 3
             /\ \A k \in 1..Len(a) : (a \o b)[k] = a[k]
             /\ \A k \in 1..3 : (a \o b)[Len(a) + k] = b[k]
  <2>1. /\ a \o b \in Seq(AgendaItems) /\ Len(a \o b) = Len(a) + Len(b) /\ Len(a) \in Nat
        /\ \A i \in 1..(Len(a) + Len(b)) : (a \o b)[i] = IF i <= Len(a) THEN a[i] ELSE b[i - Len(a)]
    BY Joined
  <2> DEFINE c == a \o b
  <2>2. Len(c) = Len(a) + 3 /\ \A i \in 1..(Len(a) + 3) : c[i] = IF i <= Len(a) THEN a[i] ELSE b[i - Len(a)]
    BY <1>9, <2>1
  <2> HIDE DEF c
  <2>3. \A k \in 1..Len(a) : c[k] = a[k]
    BY <2>1, <2>2
  <2>4. ASSUME NEW k \in 1..3 PROVE c[Len(a) + k] = b[k]
    <3>1. Len(a) + k \in 1..(Len(a) + 3) /\ ~(Len(a) + k <= Len(a)) /\ (Len(a) + k) - Len(a) = k
      BY <2>1
    <3> QED BY <2>2, <3>1
  <2> QED BY Zenon, <2>1, <2>2, <2>3, <2>4 DEF c
<1>10. Chained(<<e, Do("trim")>> \o Finish) /\ Waits(<<e, Do("trim")>> \o Finish, "append")
       /\ Head(<<e, Do("trim")>> \o Finish).entry = entry
  <2> DEFINE c == <<e, Do("trim")>> \o Finish
  <2>1. /\ c \in Seq(AgendaItems) /\ Len(c) = 2 + 3
        /\ \A k \in 1..2 : c[k] = <<e, Do("trim")>>[k]
        /\ \A k \in 1..3 : c[2 + k] = Finish[k]
    BY Zenon, <1>7, <1>8, <1>9
  <2> HIDE DEF c
  <2>2. c[1] = e /\ c[2].do = "trim"
    BY <1>8, <2>1
  <2>3. c[2 + 1].do = "open_index" /\ c[2 + 2].do = "write_index" /\ c[2 + 3].do = "maybe_compact"
    BY <1>7, <2>1
  <2>4. Len(c) = 5 /\ c[3].do = "open_index" /\ c[4].do = "write_index" /\ c[5].do = "maybe_compact"
    BY <2>1, <2>3
  <2> QED BY Zenon, <1>5, <2>1, <2>2, <2>4 DEF c
<1>11. Chained(<<e>> \o Finish) /\ Waits(<<e>> \o Finish, "append")
       /\ Head(<<e>> \o Finish).entry = entry
  <2> DEFINE c == <<e>> \o Finish
  <2>1. /\ c \in Seq(AgendaItems) /\ Len(c) = 1 + 3
        /\ \A k \in 1..1 : c[k] = <<e>>[k]
        /\ \A k \in 1..3 : c[1 + k] = Finish[k]
    BY Zenon, <1>7, <1>8, <1>9
  <2> HIDE DEF c
  <2>2. c[1] = e
    BY <1>8, <2>1
  <2>3. c[1 + 1].do = "open_index" /\ c[1 + 2].do = "write_index" /\ c[1 + 3].do = "maybe_compact"
    BY <1>7, <2>1
  <2>4. Len(c) = 4 /\ c[2].do = "open_index" /\ c[3].do = "write_index" /\ c[4].do = "maybe_compact"
    BY <2>1, <2>3
  <2> QED BY Zenon, <1>6, <2>1, <2>2, <2>4 DEF c
<1> QED BY Zenon, <1>10, <1>11 DEF e

-----------------------------------------------------------------------------
(* Writing to the files *)

Fields(files, snapshot, next, bak, index, log) ==
    /\ files \in Files
    /\ files.snapshot = snapshot /\ files.next = next /\ files.bak = bak
    /\ files.index = index /\ files.log = log

LEMMA OneFileWritten ==
    ASSUME NEW f \in Files, NEW x \in FileContents
    PROVE  /\ Fields([f EXCEPT !.index = x], f.snapshot, f.next, f.bak, x, f.log)
           /\ Fields([f EXCEPT !.next = x], f.snapshot, x, f.bak, f.index, f.log)
           /\ Fields([f EXCEPT !.bak = x], f.snapshot, f.next, x, f.index, f.log)
BY Zenon DEF Fields, Files

LEMMA TwoFilesWritten ==
    ASSUME NEW f \in Files, NEW x \in FileContents, NEW y \in FileContents
    PROVE  /\ Fields([f EXCEPT !.bak = x, !.snapshot = y], y, f.next, x, f.index, f.log)
           /\ Fields([f EXCEPT !.snapshot = x, !.next = y], x, y, f.bak, f.index, f.log)
BY Zenon DEF Fields, Files

LEMMA LogWritten ==
    ASSUME NEW f \in Files, NEW log \in Seq(LogEntries \cup {Torn}), NEW n \in Nat
    PROVE  /\ Fields([f EXCEPT !.log = log, !.synced = n], f.snapshot, f.next, f.bak, f.index, log)
           /\ Fields([f EXCEPT !.log = log], f.snapshot, f.next, f.bak, f.index, log)
           /\ Fields([f EXCEPT !.synced = n], f.snapshot, f.next, f.bak, f.index, f.log)
BY Zenon DEF Fields, Files

LEMMA ContentFacts ==
    ASSUME MemTypeOK
    PROVE  /\ Content \in Contents /\ Content \in FileContents
           /\ Content # NoFile /\ Content # Torn
           /\ Content.seq = memSeq /\ Content.records = memRecords
           /\ NoFile \in FileContents /\ Torn \in FileContents /\ Torn # NoFile
<1>1. Content \in Contents
  BY DEF MemTypeOK, Content, Contents, Recs
<1>2. Content.seq = memSeq /\ Content.records = memRecords
  BY DEF Content
<1> QED BY Zenon, <1>1, <1>2, MemoryMarksAssumption DEF FileContents

LEMMA AtIs ==
    ASSUME NEW step
    PROVE  At(step) <=> Waits(agenda, step)
BY Zenon DEF At, Waits

-----------------------------------------------------------------------------
(* Steps that leave memory as it is *)

\* A step that is not an append: the disk has what it had, or what memory has.
LEMMA QuietStep ==
    ASSUME MemInv, agenda # <<>>, ~At("append"), memRecords' = memRecords, memSeq' = memSeq,
           NEW rest, Chained(rest), ~Waits(rest, "append"), Continue(rest),
           memFiles' \in Files, Ready(memFiles', rest, Content), Numbered(memFiles', memSeq),
           unlogged' \in BOOLEAN,
           Start(memFiles') # Torn =>
              \/ OnDisk(memFiles') = Content
              \/ /\ Start(memFiles) # Torn /\ OnDisk(memFiles') = OnDisk(memFiles)
                 /\ unlogged' = unlogged,
           rest = <<>> => memFiles'.index = Content
    PROVE  MemInv'
<1>1. /\ agenda' = rest /\ memPhase' = (IF rest = <<>> THEN "up" ELSE memPhase)
      /\ memClock' = memClock
      /\ rest # <<>> => acked' = acked /\ touched' = touched
      /\ rest = <<>> => /\ acked' = [i \in MemIds |-> IF i \in touched THEN memRecords[i] ELSE acked[i]]
                        /\ touched' = {}
  BY Zenon DEF Continue
<1>2. /\ memRecords \in [MemIds -> Recs] /\ memSeq \in Nat /\ memClock \in Nat
      /\ memPhase \in {"down", "up", "opening", "refused"} /\ touched \subseteq MemIds
      /\ acked \in [MemIds -> Recs \cup {Unsure}] /\ unlogged \in BOOLEAN
  BY Zenon DEF MemInv, MemTypeOK
<1>3. Running /\ Running' /\ (rest = <<>> => memPhase' = "up")
  BY Zenon, <1>1 DEF MemInv, StagesInv, Running
<1>4. Content' = Content
  BY Zenon DEF Content
<1>5. ~At("append")'
  BY Zenon, <1>1 DEF At, Waits
<1>6. MemTypeOK'
  <2>1. acked' \in [MemIds -> Recs \cup {Unsure}] /\ touched' \subseteq MemIds
    BY <1>1, <1>2
  <2>2. memPhase' \in {"down", "up", "opening", "refused"}
    BY <1>1, <1>2
  <2> QED BY Zenon, <1>1, <1>2, <2>1, <2>2 DEF MemTypeOK
<1>7. StagesInv'
  <2>1. agenda' = <<>> => touched' = {} /\ memPhase' # "opening"
    BY <1>1, <1>3
  <2> QED BY Zenon, <1>1, <1>3, <1>4, <1>5, <2>1 DEF StagesInv
<1>8. NumbersInv'
  BY Zenon, <1>5 DEF NumbersInv
<1>9. \A a, b : Same(a, b)' <=> Same(a, b)
  BY Zenon, <1>1 DEF Same
<1> DEFINE Matches(recs) == \A i \in touched : Same(recs[i], memRecords[i])
<1>10. /\ Remembers(memRecords) /\ Matches(memRecords)
       /\ Start(memFiles) # Torn => Remembers(OnDisk(memFiles).records) /\ Matches(OnDisk(memFiles).records)
  BY Zenon, <1>3 DEF MemInv, AckedInv, Same
<1>11. Content.records = memRecords
  BY Zenon DEF Content
<1>12. Start(memFiles') # Torn => Remembers(OnDisk(memFiles').records) /\ Matches(OnDisk(memFiles').records)
  BY Zenon, <1>10, <1>11
<1>13. ASSUME NEW recs, Remembers(recs), Matches(recs), NEW i \in MemIds, acked'[i] # Unsure
       PROVE  Same(recs[i], acked'[i])
  <2>1. CASE rest = <<>> /\ i \in touched
    <3>1. acked'[i] = memRecords[i]
      BY <1>1, <2>1
    <3> QED BY Zenon, <1>13, <2>1, <3>1
  <2>2. CASE ~(rest = <<>> /\ i \in touched)
    <3>1. acked'[i] = acked[i]
      BY <1>1, <2>2
    <3> QED BY Zenon, <1>13, <3>1 DEF Remembers
  <2> QED BY Zenon, <2>1, <2>2
<1>14. /\ \A i \in MemIds : acked'[i] # Unsure => Same(memRecords[i], acked'[i])
       /\ Start(memFiles') # Torn =>
             \A i \in MemIds : acked'[i] # Unsure => Same(OnDisk(memFiles').records[i], acked'[i])
  BY Zenon, <1>10, <1>12, <1>13
<1>15. \A i \in touched' : i \in touched
  BY <1>1
<1>16. AckedInv'
  BY Zenon, <1>9, <1>12, <1>14, <1>15 DEF AckedInv, Remembers
<1>17. ExactInv'
  <2>1. memPhase' # "down"
    BY <1>3 DEF Running
  <2>2. ~unlogged' /\ Start(memFiles') # Torn => Content = OnDisk(memFiles')
    <3>1. ~unlogged /\ Start(memFiles) # Torn => Content = OnDisk(memFiles)
      BY Zenon, <1>3 DEF MemInv, ExactInv
    <3>2. unlogged' = unlogged /\ ~unlogged' => ~unlogged
      BY <1>2
    <3> QED BY Zenon, <3>1, <3>2
  <2> QED BY Zenon, <1>1, <1>4, <1>5, <2>1, <2>2 DEF ExactInv
<1> QED BY Zenon, <1>6, <1>7, <1>8, <1>16, <1>17 DEF MemInv

\* A step that fails.
LEMMA FailedStep ==
    ASSUME MemInv, agenda # <<>>, GiveUp,
           memRecords' \in [MemIds -> Recs], memSeq' \in Nat, memFiles' \in Files,
           acked' \in [MemIds -> Recs \cup {Unsure}],
           Ready(memFiles', <<>>, Content'), Numbered(memFiles', memSeq'),
           Remembers(memRecords)',
           Start(memFiles') # Torn => Remembers(OnDisk(memFiles).records)'
    PROVE  MemInv'
<1>1. /\ agenda' = <<>> /\ memPhase' = (IF memPhase = "opening" THEN "down" ELSE memPhase)
      /\ memClock' = memClock /\ touched' = {} /\ unlogged' = TRUE
  BY Zenon DEF GiveUp
<1>2. memClock \in Nat /\ memPhase \in {"down", "up", "opening", "refused"}
  BY Zenon DEF MemInv, MemTypeOK
<1>3. memPhase' \in {"down", "up", "refused"}
  BY <1>1, <1>2
<1>4. ~At("append")'
  BY Zenon, <1>1 DEF At
<1>5. MemTypeOK'
  <2>1. touched' \subseteq MemIds /\ unlogged' \in BOOLEAN /\ Chained(<<>>)
    BY <1>1, Agendas
  <2> QED BY Zenon, <1>1, <1>2, <1>3, <2>1 DEF MemTypeOK
<1>6. StagesInv'
  <2>1. memPhase' # "opening"
    BY <1>3
  <2> QED BY Zenon, <1>1, <1>4, <2>1 DEF StagesInv
<1>7. NumbersInv'
  BY Zenon, <1>4 DEF NumbersInv
<1>8. AckedInv'
  <2>1. \A i \in touched' : FALSE
    BY <1>1
  <2> QED BY Zenon, <2>1 DEF AckedInv
<1>9. ExactInv'
  BY Zenon, <1>1 DEF ExactInv
<1> QED BY Zenon, <1>5, <1>6, <1>7, <1>8, <1>9 DEF MemInv

\* What the invariant says before a step of an operation.
LEMMA StepFacts ==
    ASSUME MemInv, agenda # <<>>
    PROVE  /\ MemTypeOK /\ memFiles \in Files /\ memSeq \in Nat /\ unlogged \in BOOLEAN
           /\ memRecords \in [MemIds -> Recs] /\ acked \in [MemIds -> Recs \cup {Unsure}]
           /\ Running /\ Chained(agenda) /\ Ready(memFiles, agenda, Content)
           /\ Numbered(memFiles, memSeq) /\ Remembers(memRecords)
           /\ Start(memFiles) # Torn => Remembers(OnDisk(memFiles).records)
           /\ Chained(Tail(agenda)) /\ ~Waits(Tail(agenda), "append")
<1>1. MemTypeOK /\ StagesInv /\ NumbersInv /\ AckedInv /\ Chained(agenda)
  BY Zenon DEF MemInv, MemTypeOK
<1>2. Chained(Tail(agenda)) /\ ~Waits(Tail(agenda), "append")
  BY Zenon, <1>1, ChainedTail, StepAfter
<1> QED BY Zenon, <1>1, <1>2 DEF MemTypeOK, StagesInv, NumbersInv, AckedInv

\* What can follow the step that is at the head of the agenda.
LEMMA StepNext ==
    ASSUME MemInv, agenda # <<>>
    PROVE  LET step == Head(agenda).do
               rest == Tail(agenda)
           IN  /\ ~Waits(rest, "append")
               /\ Waits(rest, "rotate") => step = "write_next"
               /\ Waits(rest, "promote") => step = "rotate"
               /\ Waits(rest, "drop_bak") => step = "promote"
               /\ Waits(rest, "truncate_log") => step = "drop_bak"
               /\ Waits(rest, "maybe_compact") => step = "write_index"
               /\ rest = <<>> => step \in {"write_index", "maybe_compact"}
               /\ step = "maybe_compact" => rest = <<>>
<1>1. Chained(agenda)
  BY Zenon, StepFacts
<1> QED BY Zenon, <1>1, StepAfter

\* Files with the same numbers.
LEMMA NumberedSame ==
    ASSUME NEW f, NEW g, NEW seq, Numbered(f, seq), Start(g) = Start(f), g.log = f.log
    PROVE  Numbered(g, seq)
BY Zenon DEF Numbered

\* A greater bound.
LEMMA NumberedUpTo ==
    ASSUME NEW f \in Files, NEW seq \in Nat, Numbered(f, seq), NEW bound \in Nat, seq <= bound
    PROVE  Numbered(f, bound)
<1>1. ASSUME NEW k \in 1..Len(f.log), f.log[k] # Torn PROVE f.log[k].seq <= bound
  <2>1. f.log \in Seq(LogEntries \cup {Torn})
    BY Zenon, FileFields
  <2>2. f.log[k] \in LogEntries
    BY <1>1, <2>1
  <2>3. f.log[k].seq \in Nat
    BY <2>2 DEF LogEntries
  <2> QED BY <1>1, <2>3 DEF Numbered
<1>2. ASSUME Start(f) # Torn PROVE Start(f).seq <= bound
  <2>1. Start(f) \in Contents
    BY Zenon, <1>2, OnDiskType
  <2>2. Start(f).seq \in Nat
    BY <2>1 DEF Contents
  <2> QED BY <1>2, <2>2 DEF Numbered
<1> QED BY Zenon, <1>1, <1>2 DEF Numbered

\* What is read from files whose snapshot is the content of the memory.
LEMMA CoveredByContent ==
    ASSUME MemTypeOK, NEW f \in Files, NEW g \in Files, Numbered(f, memSeq), Start(g) = Content,
           g.log = f.log \/ g.log = <<>>
    PROVE  OnDisk(g) = Content /\ Numbered(g, memSeq)
<1>1. Content.seq = memSeq /\ Content # Torn /\ memSeq \in Nat
  BY Zenon, ContentFacts DEF MemTypeOK
<1>2. \A k \in 1..Len(g.log) : g.log[k] # Torn => g.log[k].seq <= memSeq
  <2>1. CASE g.log = <<>>
    BY <2>1
  <2>2. CASE g.log = f.log
    BY Zenon, <2>2 DEF Numbered
  <2> QED BY Zenon, <2>1, <2>2
<1>3. OnDisk(g) = Content
  BY Zenon, <1>1, <1>2, OnDiskCovered
<1>4. Content.seq <= memSeq
  BY <1>1
<1> QED BY Zenon, <1>2, <1>3, <1>4 DEF Numbered

\* maintainIndexLocked, applyRetentionLocked with nothing to trim, maybeCompactLocked.
LEMMA NothingToTrimInv ==
    ASSUME MemInv, NothingToTrim
    PROVE  MemInv'
<1>1. /\ agenda # <<>> /\ Head(agenda).do = "trim" /\ Continue(Tail(agenda))
      /\ memRecords' = memRecords /\ memSeq' = memSeq /\ memFiles' = memFiles /\ unlogged' = unlogged
  BY Zenon DEF NothingToTrim, At, memVolatile
<1>2. ~At("append")
  BY <1>1 DEF At
<1>3. Tail(agenda) # <<>>
  BY <1>1, StepNext
<1>4. Ready(memFiles, Tail(agenda), Content)
  <2>1. \A step \in {"rotate", "promote", "drop_bak", "truncate_log", "maybe_compact"} :
           ~Waits(Tail(agenda), step)
    BY <1>1, StepNext
  <2> QED BY Zenon, <1>1, <2>1, StepFacts DEF Ready
<1>5. Start(memFiles) # Torn => OnDisk(memFiles') = OnDisk(memFiles)
  BY Zenon, <1>1
<1> QED BY Zenon, <1>1, <1>2, <1>3, <1>4, <1>5, StepFacts, QuietStep

LEMMA MaybeCompactInv ==
    ASSUME MemInv, MaybeCompact
    PROVE  MemInv'
<1> DEFINE rest == IF memOps >= CompactMinOps \/ Len(memFiles.log) >= CompactMaxLog
                   THEN Compaction ELSE <<>>
<1>1. /\ agenda # <<>> /\ Head(agenda).do = "maybe_compact" /\ Continue(rest)
      /\ memRecords' = memRecords /\ memSeq' = memSeq /\ memFiles' = memFiles /\ unlogged' = unlogged
  BY Zenon DEF MaybeCompact, At, memVolatile
<1>2. ~At("append") /\ Waits(agenda, "maybe_compact")
  BY <1>1 DEF At, Waits
<1>3. /\ Chained(rest)
      /\ \A step \in {"append", "rotate", "promote", "drop_bak", "truncate_log", "maybe_compact"} :
            ~Waits(rest, step)
  <2>1. Chained(Compaction) /\ Chained(<<>>) /\ Waits(Compaction, "create_next")
    BY Zenon, Agendas
  <2>2. CASE rest = Compaction
    BY <2>1, <2>2 DEF Waits
  <2>3. CASE rest = <<>>
    BY <2>1, <2>3 DEF Waits
  <2> QED BY Zenon, <2>2, <2>3
<1> HIDE DEF rest
<1>4. Ready(memFiles, agenda, Content) /\ ~Waits(rest, "append")
  BY Zenon, <1>1, <1>3, StepFacts
<1>5. memFiles.index = Content
  BY Zenon, <1>2, <1>4 DEF Ready
<1>6. Ready(memFiles, rest, Content)
  BY Zenon, <1>3, <1>4 DEF Ready
<1>7. Start(memFiles) # Torn => OnDisk(memFiles') = OnDisk(memFiles)
  BY Zenon, <1>1
<1> QED BY Zenon, <1>1, <1>2, <1>3, <1>4, <1>5, <1>6, <1>7, StepFacts, QuietStep

LEMMA FileStepFacts ==
    ASSUME MemInv, NEW step, NEW files, FileStep(step, files), step # "append"
    PROVE  /\ agenda # <<>> /\ Head(agenda).do = step /\ Waits(agenda, step) /\ ~At("append")
           /\ Continue(Tail(agenda)) /\ memFiles' = files
           /\ memRecords' = memRecords /\ memSeq' = memSeq /\ unlogged' = unlogged
<1>1. agenda # <<>> /\ Head(agenda).do = step
  BY Zenon DEF FileStep, At
<1> QED BY Zenon, <1>1 DEF FileStep, At, Waits, memVolatile

\* writeIndexState
LEMMA OpenIndexInv ==
    ASSUME MemInv, OpenIndex
    PROVE  MemInv'
<1> DEFINE files == [memFiles EXCEPT !.index = Torn]
<1>1. /\ agenda # <<>> /\ Head(agenda).do = "open_index" /\ ~At("append") /\ Continue(Tail(agenda))
      /\ memFiles' = files /\ memRecords' = memRecords /\ memSeq' = memSeq /\ unlogged' = unlogged
  <2>1. FileStep("open_index", files) /\ "open_index" # "append"
    BY DEF OpenIndex
  <2> HIDE DEF files
  <2> QED BY Zenon, <2>1, FileStepFacts
<1>2. Fields(files, memFiles.snapshot, memFiles.next, memFiles.bak, Torn, memFiles.log)
  BY Zenon, <1>1, StepFacts, ContentFacts, OneFileWritten
<1> HIDE DEF files
<1>3. files \in Files /\ Start(files) = Start(memFiles) /\ files.log = memFiles.log
  BY Zenon, <1>1, <1>2, StartIs, StepFacts DEF Fields
<1>4. Tail(agenda) # <<>>
  BY <1>1, StepNext
<1>5. Ready(files, Tail(agenda), Content)
  <2>1. \A step \in {"rotate", "promote", "drop_bak", "truncate_log", "maybe_compact"} :
           ~Waits(Tail(agenda), step)
    BY <1>1, StepNext
  <2> QED BY Zenon, <1>1, <1>2, <2>1, StepFacts DEF Ready, Fields
<1>6. Numbered(files, memSeq) /\ OnDisk(files) = OnDisk(memFiles)
  BY Zenon, <1>1, <1>3, StepFacts, NumberedSame, OnDiskSame
<1> QED BY Zenon, <1>1, <1>3, <1>4, <1>5, <1>6, StepFacts, QuietStep

LEMMA WriteIndexInv ==
    ASSUME MemInv, WriteIndex
    PROVE  MemInv'
<1> DEFINE files == [memFiles EXCEPT !.index = Content]
<1>1. /\ agenda # <<>> /\ Head(agenda).do = "write_index" /\ ~At("append") /\ Continue(Tail(agenda))
      /\ memFiles' = files /\ memRecords' = memRecords /\ memSeq' = memSeq /\ unlogged' = unlogged
  <2>1. FileStep("write_index", files) /\ "write_index" # "append"
    BY DEF WriteIndex
  <2> HIDE DEF files
  <2> QED BY Zenon, <2>1, FileStepFacts
<1>2. Fields(files, memFiles.snapshot, memFiles.next, memFiles.bak, Content, memFiles.log)
  BY Zenon, <1>1, StepFacts, ContentFacts, OneFileWritten
<1> HIDE DEF files
<1>3. files \in Files /\ Start(files) = Start(memFiles) /\ files.log = memFiles.log
  BY Zenon, <1>1, <1>2, StartIs, StepFacts DEF Fields
<1>4. files.index = Content
  BY Zenon, <1>2 DEF Fields
<1>5. Ready(files, Tail(agenda), Content)
  <2>1. \A step \in {"rotate", "promote", "drop_bak", "truncate_log"} : ~Waits(Tail(agenda), step)
    BY <1>1, StepNext
  <2> QED BY Zenon, <1>1, <1>2, <2>1, StepFacts DEF Ready, Fields
<1>6. Numbered(files, memSeq) /\ OnDisk(files) = OnDisk(memFiles)
  BY Zenon, <1>1, <1>3, StepFacts, NumberedSame, OnDiskSame
<1> QED BY Zenon, <1>1, <1>3, <1>4, <1>5, <1>6, StepFacts, QuietStep

\* writeSnapshotNextLocked: without a snapshot, recovery would take what is
\* being written, and refuse it while it is torn.
LEMMA CreateNextInv ==
    ASSUME MemInv, CreateNext
    PROVE  MemInv'
<1> DEFINE files == [memFiles EXCEPT !.next = Torn]
<1>1. /\ agenda # <<>> /\ Head(agenda).do = "create_next" /\ ~At("append") /\ Continue(Tail(agenda))
      /\ memFiles' = files /\ memRecords' = memRecords /\ memSeq' = memSeq /\ unlogged' = unlogged
  <2>1. FileStep("create_next", files) /\ "create_next" # "append"
    BY DEF CreateNext
  <2> HIDE DEF files
  <2> QED BY Zenon, <2>1, FileStepFacts
<1>2. /\ Fields(files, memFiles.snapshot, Torn, memFiles.bak, memFiles.index, memFiles.log)
      /\ Torn # NoFile
  BY Zenon, <1>1, StepFacts, ContentFacts, OneFileWritten
<1> HIDE DEF files
<1>3. /\ files \in Files /\ files.log = memFiles.log
      /\ Start(files) = Torn \/ Start(files) = Start(memFiles)
  BY Zenon, <1>1, <1>2, StartIs, StepFacts DEF Fields
<1>4. Tail(agenda) # <<>>
  BY <1>1, StepNext
<1>5. Ready(files, Tail(agenda), Content)
  <2>1. \A step \in {"rotate", "promote", "drop_bak", "truncate_log", "maybe_compact"} :
           ~Waits(Tail(agenda), step)
    BY <1>1, StepNext
  <2> QED BY Zenon, <1>1, <1>2, <2>1 DEF Ready, Fields
<1>6. /\ Numbered(files, memSeq)
      /\ Start(files) # Torn => Start(memFiles) # Torn /\ OnDisk(files) = OnDisk(memFiles)
  BY Zenon, <1>1, <1>3, StepFacts, OnDiskSame DEF Numbered
<1> QED BY Zenon, <1>1, <1>3, <1>4, <1>5, <1>6, StepFacts, QuietStep

LEMMA WriteNextInv ==
    ASSUME MemInv, WriteNext
    PROVE  MemInv'
<1> DEFINE files == [memFiles EXCEPT !.next = Content]
<1>1. /\ agenda # <<>> /\ Head(agenda).do = "write_next" /\ ~At("append") /\ Continue(Tail(agenda))
      /\ memFiles' = files /\ memRecords' = memRecords /\ memSeq' = memSeq /\ unlogged' = unlogged
  <2>1. FileStep("write_next", files) /\ "write_next" # "append"
    BY DEF WriteNext
  <2> HIDE DEF files
  <2> QED BY Zenon, <2>1, FileStepFacts
<1>2. /\ Fields(files, memFiles.snapshot, Content, memFiles.bak, memFiles.index, memFiles.log)
      /\ Content # NoFile
  BY Zenon, <1>1, StepFacts, ContentFacts, OneFileWritten
<1> HIDE DEF files
<1>3. /\ files \in Files /\ files.log = memFiles.log
      /\ Start(files) = Content \/ Start(files) = Start(memFiles)
  BY Zenon, <1>1, <1>2, StartIs, StepFacts DEF Fields
<1>4. Tail(agenda) # <<>>
  BY <1>1, StepNext
<1>5. Ready(files, Tail(agenda), Content)
  <2>1. \A step \in {"promote", "drop_bak", "truncate_log", "maybe_compact"} :
           ~Waits(Tail(agenda), step)
    BY <1>1, StepNext
  <2> QED BY Zenon, <1>1, <1>2, <2>1 DEF Ready, Fields
<1>6. CASE Start(files) = Content
  <2>1. OnDisk(files) = Content /\ Numbered(files, memSeq)
    BY Zenon, <1>1, <1>3, <1>6, StepFacts, CoveredByContent
  <2> QED BY Zenon, <1>1, <1>3, <1>4, <1>5, <2>1, StepFacts, QuietStep
<1>7. CASE Start(files) = Start(memFiles)
  <2>1. Numbered(files, memSeq) /\ OnDisk(files) = OnDisk(memFiles)
    BY Zenon, <1>1, <1>3, <1>7, StepFacts, NumberedSame, OnDiskSame
  <2> QED BY Zenon, <1>1, <1>3, <1>4, <1>5, <1>7, <2>1, StepFacts, QuietStep
<1> QED BY Zenon, <1>3, <1>6, <1>7

\* rotateSnapshotLocked: from here recovery takes the new snapshot, and skips
\* what the log has.
LEMMA RotateInv ==
    ASSUME MemInv, Rotate
    PROVE  MemInv'
<1> DEFINE rotated == [memFiles EXCEPT !.bak = memFiles.snapshot, !.snapshot = NoFile]
           files == IF memFiles.snapshot = NoFile THEN memFiles ELSE rotated
<1>1. /\ agenda # <<>> /\ Head(agenda).do = "rotate" /\ ~At("append") /\ Continue(Tail(agenda))
      /\ memFiles' = files /\ memRecords' = memRecords /\ memSeq' = memSeq /\ unlogged' = unlogged
      /\ Waits(agenda, "rotate")
  <2>1. FileStep("rotate", files) /\ "rotate" # "append"
    BY DEF Rotate
  <2> HIDE DEF files
  <2> QED BY Zenon, <2>1, FileStepFacts
<1>2. memFiles \in Files /\ memFiles.snapshot \in FileContents /\ NoFile \in FileContents
  BY Zenon, <1>1, StepFacts, FileFields, ContentFacts
<1>3. Fields(rotated, NoFile, memFiles.next, memFiles.snapshot, memFiles.index, memFiles.log)
  BY Zenon, <1>2, TwoFilesWritten
<1>4. memFiles.next = Content /\ Content # NoFile
  BY Zenon, <1>1, StepFacts, ContentFacts DEF Ready
<1> HIDE DEF rotated
<1>5. /\ files \in Files /\ files.log = memFiles.log /\ files.snapshot = NoFile /\ files.next = Content
  BY Zenon, <1>2, <1>3, <1>4 DEF Fields
<1> HIDE DEF files
<1>6. Start(files) = Content
  BY <1>4, <1>5, StartIs
<1>7. Tail(agenda) # <<>>
  BY <1>1, StepNext
<1>8. Ready(files, Tail(agenda), Content)
  <2>1. \A step \in {"rotate", "drop_bak", "truncate_log", "maybe_compact"} :
           ~Waits(Tail(agenda), step)
    BY <1>1, StepNext
  <2> QED BY Zenon, <1>4, <1>5, <2>1 DEF Ready
<1>9. OnDisk(files) = Content /\ Numbered(files, memSeq)
  BY Zenon, <1>1, <1>2, <1>5, <1>6, StepFacts, CoveredByContent
<1> QED BY Zenon, <1>1, <1>5, <1>7, <1>8, <1>9, StepFacts, QuietStep

\* promoteSnapshotLocked
LEMMA PromoteInv ==
    ASSUME MemInv, Promote
    PROVE  MemInv'
<1> DEFINE files == [memFiles EXCEPT !.snapshot = memFiles.next, !.next = NoFile]
<1>1. /\ agenda # <<>> /\ Head(agenda).do = "promote" /\ Continue(Tail(agenda))
      /\ memFiles' = files /\ memRecords' = memRecords /\ memSeq' = memSeq /\ unlogged' = FALSE
  BY Zenon DEF Promote, At, memVolatile
<1>2. ~At("append") /\ Waits(agenda, "promote")
  BY <1>1 DEF At, Waits
<1>3. memFiles \in Files /\ memFiles.next \in FileContents /\ NoFile \in FileContents
  BY Zenon, <1>1, StepFacts, FileFields, ContentFacts
<1>4. Fields(files, memFiles.next, NoFile, memFiles.bak, memFiles.index, memFiles.log)
  BY Zenon, <1>3, TwoFilesWritten
<1>5. memFiles.next = Content /\ Content # NoFile
  BY Zenon, <1>1, <1>2, StepFacts, ContentFacts DEF Ready
<1> HIDE DEF files
<1>6. files \in Files /\ files.log = memFiles.log /\ files.snapshot = Content
  BY Zenon, <1>4, <1>5 DEF Fields
<1>7. Start(files) = Content
  BY Zenon, <1>5, <1>6, StartIs
<1>8. Tail(agenda) # <<>>
  BY <1>1, StepNext
<1>9. Ready(files, Tail(agenda), Content)
  <2>1. \A step \in {"rotate", "promote", "truncate_log", "maybe_compact"} :
           ~Waits(Tail(agenda), step)
    BY <1>1, StepNext
  <2> QED BY Zenon, <1>5, <1>6, <2>1 DEF Ready
<1>10. OnDisk(files) = Content /\ Numbered(files, memSeq) /\ unlogged' \in BOOLEAN
  <2>1. unlogged' \in BOOLEAN
    BY Zenon, <1>1
  <2> QED BY Zenon, <1>1, <1>3, <1>6, <1>7, <2>1, StepFacts, CoveredByContent
<1> QED BY Zenon, <1>1, <1>2, <1>6, <1>8, <1>9, <1>10, StepFacts, QuietStep

\* promoteSnapshotLocked: the backup is of no use once the snapshot is in place.
LEMMA DropBackupInv ==
    ASSUME MemInv, DropBackup
    PROVE  MemInv'
<1> DEFINE files == [memFiles EXCEPT !.bak = NoFile]
<1>1. /\ agenda # <<>> /\ Head(agenda).do = "drop_bak" /\ ~At("append") /\ Continue(Tail(agenda))
      /\ memFiles' = files /\ memRecords' = memRecords /\ memSeq' = memSeq /\ unlogged' = unlogged
      /\ Waits(agenda, "drop_bak")
  <2>1. FileStep("drop_bak", files) /\ "drop_bak" # "append"
    BY DEF DropBackup
  <2> HIDE DEF files
  <2> QED BY Zenon, <2>1, FileStepFacts
<1>2. memFiles \in Files /\ NoFile \in FileContents
  BY Zenon, <1>1, StepFacts, FileFields, ContentFacts
<1>3. Fields(files, memFiles.snapshot, memFiles.next, NoFile, memFiles.index, memFiles.log)
  BY Zenon, <1>2, OneFileWritten
<1>4. memFiles.snapshot = Content /\ Content # NoFile
  BY Zenon, <1>1, StepFacts, ContentFacts DEF Ready
<1> HIDE DEF files
<1>5. files \in Files /\ files.log = memFiles.log /\ files.snapshot = Content
  BY Zenon, <1>3, <1>4 DEF Fields
<1>6. Start(files) = Content
  BY <1>4, <1>5, StartIs
<1>7. Tail(agenda) # <<>>
  BY <1>1, StepNext
<1>8. Ready(files, Tail(agenda), Content)
  <2>1. \A step \in {"rotate", "promote", "drop_bak", "maybe_compact"} :
           ~Waits(Tail(agenda), step)
    BY <1>1, StepNext
  <2> QED BY Zenon, <1>4, <1>5, <2>1 DEF Ready
<1>9. OnDisk(files) = Content /\ Numbered(files, memSeq)
  BY Zenon, <1>1, <1>2, <1>5, <1>6, StepFacts, CoveredByContent
<1> QED BY Zenon, <1>1, <1>5, <1>7, <1>8, <1>9, StepFacts, QuietStep

\* The emptied log.
LEMMA LogEmptied ==
    ASSUME MemInv, agenda # <<>>, Head(agenda).do = "truncate_log"
    PROVE  LET files == [memFiles EXCEPT !.log = <<>>, !.synced = 0]
           IN  /\ Fields(files, memFiles.snapshot, memFiles.next, memFiles.bak, memFiles.index, <<>>)
               /\ files.snapshot = Content /\ Start(files) = Content
               /\ OnDisk(files) = Content /\ Numbered(files, memSeq)
<1> DEFINE files == [memFiles EXCEPT !.log = <<>>, !.synced = 0]
<1>1. memFiles \in Files /\ memFiles.snapshot = Content /\ Content # NoFile
  <2>1. Waits(agenda, "truncate_log")
    BY DEF Waits
  <2> QED BY Zenon, <2>1, StepFacts, ContentFacts DEF Ready
<1>2. <<>> \in Seq(LogEntries \cup {Torn}) /\ 0 \in Nat
  OBVIOUS
<1>3. Fields(files, memFiles.snapshot, memFiles.next, memFiles.bak, memFiles.index, <<>>)
  BY Zenon, <1>1, <1>2, LogWritten
<1> HIDE DEF files
<1>4. files \in Files /\ files.log = <<>> /\ files.snapshot = Content
  BY Zenon, <1>1, <1>3 DEF Fields
<1>5. Start(files) = Content
  BY <1>1, <1>4, StartIs
<1>6. OnDisk(files) = Content /\ Numbered(files, memSeq)
  BY Zenon, <1>1, <1>4, <1>5, StepFacts, CoveredByContent
<1> QED BY Zenon, <1>3, <1>4, <1>5, <1>6 DEF files

\* truncateWALLocked
LEMMA TruncateLogInv ==
    ASSUME MemInv, TruncateLog
    PROVE  MemInv'
<1> DEFINE files == [memFiles EXCEPT !.log = <<>>, !.synced = 0]
<1>1. /\ agenda # <<>> /\ Head(agenda).do = "truncate_log" /\ Continue(Tail(agenda))
      /\ memFiles' = files /\ memRecords' = memRecords /\ memSeq' = memSeq /\ unlogged' = unlogged
  BY Zenon DEF TruncateLog, At
<1>2. ~At("append")
  BY <1>1 DEF At
<1>3. /\ Fields(files, memFiles.snapshot, memFiles.next, memFiles.bak, memFiles.index, <<>>)
      /\ files.snapshot = Content /\ OnDisk(files) = Content /\ Numbered(files, memSeq)
  BY Zenon, <1>1, LogEmptied
<1> HIDE DEF files
<1>4. files \in Files /\ files.snapshot # NoFile
  BY Zenon, <1>1, <1>3, StepFacts, ContentFacts DEF Fields
<1>5. Tail(agenda) # <<>>
  BY <1>1, StepNext
<1>6. Ready(files, Tail(agenda), Content)
  <2>1. \A step \in {"rotate", "promote", "drop_bak", "truncate_log", "maybe_compact"} :
           ~Waits(Tail(agenda), step)
    BY <1>1, StepNext
  <2> QED BY Zenon, <1>4, <2>1 DEF Ready
<1>7. unlogged' \in BOOLEAN
  BY Zenon, <1>1, StepFacts
<1> QED BY Zenon, <1>1, <1>2, <1>3, <1>4, <1>5, <1>6, <1>7, StepFacts, QuietStep

-----------------------------------------------------------------------------
(* Steps that write the log *)

\* appendWALEntryLocked, with a number that is new.
LEMMA EntryLogged ==
    ASSUME NEW f \in Files, NEW g, NEW entry \in LogEntries, NEW seq \in Int,
           Fields(g, f.snapshot, f.next, f.bak, f.index, Append(f.log, entry)),
           Numbered(f, seq), entry.seq > seq
    PROVE  /\ Start(g) = Start(f) /\ Numbered(g, entry.seq)
           /\ Start(f) # Torn =>
                 /\ OnDisk(g) = Replay(OnDisk(f), entry)
                 /\ OnDisk(f).seq < entry.seq
                 /\ \A i \in MemIds : OnDisk(g).records[i] =
                       IF i \in entry.ids THEN entry.record ELSE OnDisk(f).records[i]
<1>1. /\ g \in Files /\ g.log = Append(f.log, entry)
      /\ g.snapshot = f.snapshot /\ g.next = f.next /\ g.bak = f.bak
  BY Zenon DEF Fields
<1>2. Start(g) = Start(f)
  BY Zenon, <1>1, StartIs
<1>3. entry.seq \in Nat /\ entry # Torn
  BY MemoryMarksAssumption DEF LogEntries
<1>4. f.log \in Seq(LogEntries \cup {Torn}) /\ Len(f.log) \in Nat
  BY Zenon, FileFields
<1>5. \A k \in 1..Len(f.log) : f.log[k] # Torn => f.log[k].seq <= seq /\ f.log[k].seq \in Nat
  <2>1. \A k \in 1..Len(f.log) : f.log[k] \in LogEntries \cup {Torn}
    BY <1>4
  <2>2. \A e \in LogEntries : e.seq \in Nat
    BY DEF LogEntries
  <2> QED BY Zenon, <2>1, <2>2 DEF Numbered
<1>6. Start(f) # Torn => Start(f).seq <= seq /\ Start(f).seq \in Nat
  <2>1. Start(f) # Torn => Start(f) \in Contents
    BY Zenon, OnDiskType
  <2>2. \A c \in Contents : c.seq \in Nat
    BY DEF Contents
  <2> QED BY Zenon, <2>1, <2>2 DEF Numbered
<1>7. Numbered(g, entry.seq)
  <2>1. ASSUME NEW k \in 1..Len(g.log), g.log[k] # Torn PROVE g.log[k].seq <= entry.seq
    <3>1. k \in 1..(Len(f.log) + 1) /\ g.log[k] = (IF k <= Len(f.log) THEN f.log[k] ELSE entry)
      BY <1>1, <1>4
    <3>2. CASE k <= Len(f.log)
      BY <1>3, <1>5, <2>1, <3>1, <3>2
    <3>3. CASE ~(k <= Len(f.log))
      BY <1>3, <3>1, <3>3
    <3> QED BY Zenon, <3>2, <3>3
  <2>2. Start(g) # Torn => Start(g).seq <= entry.seq
    BY <1>2, <1>3, <1>6
  <2> QED BY Zenon, <2>1, <2>2 DEF Numbered
<1>8. ASSUME Start(f) # Torn
      PROVE  /\ OnDisk(g) = Replay(OnDisk(f), entry) /\ OnDisk(f).seq < entry.seq
             /\ \A i \in MemIds : OnDisk(g).records[i] =
                   IF i \in entry.ids THEN entry.record ELSE OnDisk(f).records[i]
  <2>1. OnDisk(g) = Replay(OnDisk(f), entry)
    BY Zenon, <1>1, <1>2, <1>3, <1>8, OnDiskAppend
  <2>2. OnDisk(f) \in Contents /\ OnDisk(f).seq \in Nat
    BY Zenon, <1>8, OnDiskType
  <2>3. seq \in Nat
    BY <1>6, <1>8
  <2>4. OnDisk(f).seq <= seq
    BY Zenon, <1>5, <1>6, <1>8, <2>3, OnDiskNumber
  <2>5. entry.seq > OnDisk(f).seq
    BY <1>3, <2>2, <2>4
  <2>6. OnDisk(f).seq < entry.seq
    BY <1>3, <2>2, <2>5
  <2>7. \A i \in MemIds : OnDisk(g).records[i] =
           IF entry.seq > OnDisk(f).seq /\ i \in entry.ids THEN entry.record
                                                           ELSE OnDisk(f).records[i]
    <3> DEFINE content == OnDisk(f)
    <3>1. content \in Contents
      BY Zenon, <2>2
    <3> HIDE DEF content
    <3>2. \A i \in MemIds : Replay(content, entry).records[i] =
             IF entry.seq > content.seq /\ i \in entry.ids THEN entry.record
                                                           ELSE content.records[i]
      BY Zenon, <3>1, ReplayType
    <3>3. OnDisk(g) = Replay(content, entry)
      BY ZenonT(60), <2>1 DEF content
    <3>4. \A i \in MemIds : OnDisk(g).records[i] =
             IF entry.seq > content.seq /\ i \in entry.ids THEN entry.record
                                                           ELSE content.records[i]
      BY <3>2, <3>3
    <3> QED BY Zenon, <3>4 DEF content
  <2> QED BY Zenon, <2>1, <2>5, <2>6, <2>7
<1> QED BY Zenon, <1>2, <1>7, <1>8

\* What recovery reads once an entry is at the end of the log.
LoggedOn(f, g, entry) ==
    /\ Start(g) = Start(f) /\ Numbered(g, entry.seq)
    /\ Start(f) # Torn =>
          /\ OnDisk(g) = Replay(OnDisk(f), entry)
          /\ \A i \in MemIds : OnDisk(g).records[i] =
                IF i \in entry.ids THEN entry.record ELSE OnDisk(f).records[i]

LEMMA EntryIsLogged ==
    ASSUME NEW f \in Files, NEW g, NEW entry \in LogEntries, NEW seq \in Int,
           Fields(g, f.snapshot, f.next, f.bak, f.index, Append(f.log, entry)),
           Numbered(f, seq), entry.seq > seq
    PROVE  LoggedOn(f, g, entry)
BY EntryLogged DEF LoggedOn

\* A part of a line at the end of the log brings no entry.
LEMMA TornLogged ==
    ASSUME NEW f \in Files, NEW g, NEW seq,
           Fields(g, f.snapshot, f.next, f.bak, f.index, Append(f.log, Torn)), Numbered(f, seq)
    PROVE  /\ Start(g) = Start(f) /\ Numbered(g, seq)
           /\ Start(f) # Torn => OnDisk(g) = OnDisk(f)
<1>1. /\ g \in Files /\ g.log = Append(f.log, Torn)
      /\ g.snapshot = f.snapshot /\ g.next = f.next /\ g.bak = f.bak
  BY Zenon DEF Fields
<1>2. Start(g) = Start(f)
  BY Zenon, <1>1, StartIs
<1>3. f.log \in Seq(LogEntries \cup {Torn}) /\ Len(f.log) \in Nat
  BY Zenon, FileFields
<1>4. ASSUME NEW k \in 1..Len(g.log), g.log[k] # Torn PROVE g.log[k].seq <= seq
  <2>1. k \in 1..(Len(f.log) + 1) /\ g.log[k] = (IF k <= Len(f.log) THEN f.log[k] ELSE Torn)
    BY <1>1, <1>3
  <2>2. k \in 1..Len(f.log) /\ g.log[k] = f.log[k]
    BY <1>3, <1>4, <2>1
  <2> QED BY Zenon, <1>4, <2>2 DEF Numbered
<1>5. Start(f) # Torn => OnDisk(g) = OnDisk(f)
  <2>1. Torn \in LogEntries \cup {Torn}
    OBVIOUS
  <2> QED BY Zenon, <1>1, <1>2, <2>1, OnDiskAppend
<1> QED BY Zenon, <1>2, <1>4, <1>5 DEF Numbered

\* Upsert and Delete, when their entry is in the log.
LEMMA AppendEntryInv ==
    ASSUME MemInv, AppendEntry
    PROVE  MemInv'
<1> DEFINE entry == Head(agenda).entry
           log == Append(memFiles.log, entry)
           n == IF memPending + 1 >= FsyncBatch THEN Len(log) ELSE memFiles.synced
           files == [memFiles EXCEPT !.log = log, !.synced = n]
<1>1. /\ agenda # <<>> /\ Head(agenda).do = "append" /\ At("append") /\ Waits(agenda, "append")
      /\ Continue(Tail(agenda))
      /\ memRecords' = memRecords /\ memSeq' = memSeq /\ unlogged' = unlogged
  BY Zenon DEF AppendEntry, At, Waits
<1>2. memFiles' = files
  <2>1. Logged(Head(agenda).entry)
    BY Zenon DEF AppendEntry
  <2> QED BY Zenon, <2>1 DEF Logged
<1>3. entry \in LogEntries
  <2>1. Head(agenda) \in AgendaItems
    BY Zenon, <1>1, StepFacts, ChainedTail
  <2> QED BY <1>1, <2>1 DEF AgendaItems, StepNames
<1>4. /\ entry.seq = memSeq /\ touched = entry.ids
      /\ \A i \in entry.ids : memRecords[i] = entry.record /\ acked[i] = Unsure
      /\ Numbered(memFiles, memSeq - 1) /\ Running /\ memSeq \in Nat /\ memFiles \in Files
      /\ touched \subseteq MemIds
  BY Zenon, <1>1, StepFacts DEF MemInv, MemTypeOK, StagesInv, NumbersInv
<1>5. Tail(agenda) # <<>> /\ ~Waits(Tail(agenda), "append")
  BY Zenon, <1>1, StepNext
<1>6. /\ agenda' = Tail(agenda) /\ memPhase' = memPhase /\ memClock' = memClock
      /\ acked' = acked /\ touched' = touched
  BY Zenon, <1>1, <1>5 DEF Continue
<1>7. Fields(files, memFiles.snapshot, memFiles.next, memFiles.bak, memFiles.index, log)
  <2>1. memFiles.log \in Seq(LogEntries \cup {Torn}) /\ memFiles.synced \in Nat
    BY Zenon, <1>4, FileFields
  <2> HIDE DEF entry
  <2>2. log \in Seq(LogEntries \cup {Torn}) /\ Len(log) \in Nat
    BY <1>3, <2>1
  <2> HIDE DEF log
  <2>3. n \in Nat
    BY Zenon, <2>1, <2>2
  <2> HIDE DEF n
  <2> QED BY Zenon, <1>4, <2>2, <2>3, LogWritten
<1> HIDE DEF files, entry
<1>8. memSeq - 1 \in Int /\ entry.seq > memSeq - 1
  BY <1>4
<1>9. /\ Start(files) = Start(memFiles) /\ Numbered(files, memSeq)
      /\ Start(memFiles) # Torn =>
            /\ OnDisk(files) = Replay(OnDisk(memFiles), entry)
            /\ \A i \in MemIds : OnDisk(files).records[i] =
                  IF i \in entry.ids THEN entry.record ELSE OnDisk(memFiles).records[i]
  <2>1. Numbered(files, entry.seq)
    BY ZenonT(60), <1>3, <1>4, <1>7, <1>8, EntryLogged
  <2>2. /\ Start(files) = Start(memFiles)
        /\ Start(memFiles) # Torn =>
              /\ OnDisk(files) = Replay(OnDisk(memFiles), entry)
              /\ \A i \in MemIds : OnDisk(files).records[i] =
                    IF i \in entry.ids THEN entry.record ELSE OnDisk(memFiles).records[i]
    <3>1. LoggedOn(memFiles, files, entry)
      BY Zenon, <1>3, <1>4, <1>7, <1>8, EntryIsLogged
    <3> QED BY Zenon, <3>1 DEF LoggedOn
  <2> QED BY Zenon, <1>4, <2>1, <2>2
<1>10. ~At("append")' /\ Content' = Content /\ (Running' <=> Running)
  BY Zenon, <1>1, <1>5, <1>6 DEF At, Waits, Content, Running
<1>11. MemTypeOK'
  BY Zenon, <1>1, <1>2, <1>6, <1>7, StepFacts DEF MemInv, MemTypeOK, Fields
<1>12. StagesInv'
  <2>1. \A step \in {"rotate", "promote", "drop_bak", "truncate_log", "maybe_compact"} :
           ~Waits(Tail(agenda), step)
    BY Zenon, <1>1, StepFacts, StepAfter
  <2>2. memFiles.snapshot = NoFile /\ memFiles.next = NoFile => memFiles.bak = NoFile
    BY Zenon, <1>1, StepFacts DEF Ready
  <2>3. Ready(files, Tail(agenda), Content)
    BY Zenon, <1>7, <2>1, <2>2 DEF Ready, Fields
  <2> QED BY Zenon, <1>2, <1>4, <1>5, <1>6, <1>10, <2>3 DEF StagesInv
<1>13. NumbersInv'
  BY Zenon, <1>1, <1>2, <1>9, <1>10 DEF NumbersInv
<1>14. \A a, b : Same(a, b)' <=> Same(a, b)
  BY Zenon, <1>6 DEF Same
<1>15. AckedInv'
  <2>1. Remembers(memRecords) /\ (Start(memFiles) # Torn => Remembers(OnDisk(memFiles).records))
    BY Zenon, <1>1, StepFacts
  <2>2. ASSUME Start(memFiles) # Torn, NEW i \in MemIds, acked[i] # Unsure
        PROVE  Same(OnDisk(files).records[i], acked[i])
    <3>1. OnDisk(files).records[i] = OnDisk(memFiles).records[i]
      BY Zenon, <1>4, <1>9, <2>2
    <3> QED BY Zenon, <2>1, <2>2, <3>1 DEF Remembers
  <2>3. ASSUME Start(memFiles) # Torn, NEW i \in touched
        PROVE  Same(OnDisk(files).records[i], memRecords[i])
    <3>1. OnDisk(files).records[i] = memRecords[i]
      BY <1>4, <1>9, <2>3
    <3> QED BY ZenonT(60), <3>1 DEF Same
  <2> QED BY ZenonT(60), <1>1, <1>2, <1>6, <1>9, <1>14, <2>1, <2>2, <2>3 DEF AckedInv, Remembers
<1>16. ExactInv'
  <2>1. ~unlogged /\ Start(memFiles) # Torn => Content = Replay(OnDisk(memFiles), entry)
    BY Zenon, <1>1, <1>4 DEF MemInv, ExactInv, entry
  <2>2. memPhase # "down"
    BY Zenon, <1>4 DEF Running
  <2> QED BY ZenonT(60), <1>1, <1>2, <1>5, <1>6, <1>9, <1>10, <2>1, <2>2 DEF ExactInv
<1> QED BY Zenon, <1>11, <1>12, <1>13, <1>15, <1>16 DEF MemInv

LEMMA TrimmedFacts ==
    ASSUME NEW recs \in [MemIds -> Recs], memSeq \in Nat
    PROVE  /\ Trimmed(recs) \subseteq MemIds
           /\ DeleteEntry(memSeq + 1, Trimmed(recs)) \in LogEntries
           /\ Removed(recs, Trimmed(recs)) \in [MemIds -> Recs]
           /\ \A i \in MemIds : Removed(recs, Trimmed(recs))[i] =
                 IF i \in Trimmed(recs) THEN NoRecord ELSE recs[i]
<1>1. Trimmed(recs) \subseteq MemIds
  BY Zenon DEF Trimmed, Held
<1> DEFINE ids == Trimmed(recs)
<1>2. ids \subseteq MemIds
  BY Zenon, <1>1
<1> HIDE DEF ids
<1>3. DeleteEntry(memSeq + 1, ids) \in LogEntries
  BY <1>2 DEF DeleteEntry, LogEntries
<1>4. Removed(recs, ids) \in [MemIds -> Recs]
  BY DEF Removed, Recs
<1>5. \A i \in MemIds : Removed(recs, ids)[i] = IF i \in ids THEN NoRecord ELSE recs[i]
  BY DEF Removed
<1> QED BY Zenon, <1>1, <1>3, <1>4, <1>5 DEF ids

\* applyRetentionLocked, when its entry is in the log.
LEMMA TrimRecordsInv ==
    ASSUME MemInv, TrimRecords
    PROVE  MemInv'
<1> DEFINE ids == Trimmed(memRecords)
           entry == DeleteEntry(memSeq + 1, ids)
           log == Append(memFiles.log, entry)
           n == IF memPending + 1 >= FsyncBatch THEN Len(log) ELSE memFiles.synced
           files == [memFiles EXCEPT !.log = log, !.synced = n]
<1>1. /\ agenda # <<>> /\ Head(agenda).do = "trim" /\ At("trim")
      /\ memSeq' = memSeq + 1 /\ memRecords' = Removed(memRecords, ids)
      /\ agenda' = Tail(agenda) /\ touched' = touched \cup ids
      /\ acked' = [i \in MemIds |-> IF i \in ids THEN Unsure ELSE acked[i]]
      /\ memPhase' = memPhase /\ memClock' = memClock /\ unlogged' = unlogged
  BY Zenon DEF TrimRecords, At
<1>2. memFiles' = files
  <2>1. Logged(DeleteEntry(memSeq + 1, Trimmed(memRecords)))
    BY Zenon DEF TrimRecords
  <2> QED BY Zenon, <2>1 DEF Logged
<1>3. /\ ids \subseteq MemIds /\ entry \in LogEntries /\ memRecords' \in [MemIds -> Recs]
      /\ \A i \in MemIds : memRecords'[i] = IF i \in ids THEN NoRecord ELSE memRecords[i]
  BY Zenon, <1>1, StepFacts, TrimmedFacts
<1>4. entry.seq = memSeq + 1 /\ entry.ids = ids /\ entry.record = NoRecord
  BY DEF DeleteEntry
<1>5. /\ Numbered(memFiles, memSeq) /\ Running /\ memSeq \in Nat /\ memFiles \in Files
      /\ touched \subseteq MemIds /\ acked \in [MemIds -> Recs \cup {Unsure}]
  BY Zenon, <1>1, StepFacts DEF MemInv, MemTypeOK
<1>6. Tail(agenda) # <<>> /\ ~Waits(Tail(agenda), "append") /\ ~Waits(agenda, "append")
  <2>1. ~Waits(agenda, "append")
    BY <1>1 DEF Waits
  <2> QED BY Zenon, <1>1, <2>1, StepFacts, StepAfter
<1>7. Fields(files, memFiles.snapshot, memFiles.next, memFiles.bak, memFiles.index, log)
  <2>1. memFiles.log \in Seq(LogEntries \cup {Torn}) /\ memFiles.synced \in Nat
    BY Zenon, <1>5, FileFields
  <2> HIDE DEF entry
  <2>2. log \in Seq(LogEntries \cup {Torn}) /\ Len(log) \in Nat
    BY <1>3, <2>1
  <2> HIDE DEF log
  <2>3. n \in Nat
    BY <2>1, <2>2
  <2> HIDE DEF n
  <2> QED BY Zenon, <1>5, <2>2, <2>3, LogWritten
<1> HIDE DEF files, entry, ids
<1>8. memSeq \in Int /\ entry.seq > memSeq
  BY <1>4, <1>5
<1>9. /\ Start(files) = Start(memFiles) /\ Numbered(files, memSeq + 1)
      /\ Start(memFiles) # Torn =>
            /\ OnDisk(files) = Replay(OnDisk(memFiles), entry)
            /\ OnDisk(memFiles).seq < entry.seq
            /\ \A i \in MemIds : OnDisk(files).records[i] =
                  IF i \in ids THEN NoRecord ELSE OnDisk(memFiles).records[i]
  <2>1. Numbered(files, entry.seq)
    BY Zenon, <1>3, <1>5, <1>7, <1>8, EntryLogged
  <2>2. /\ Start(files) = Start(memFiles)
        /\ Start(memFiles) # Torn =>
              /\ OnDisk(files) = Replay(OnDisk(memFiles), entry)
              /\ OnDisk(memFiles).seq < entry.seq
              /\ \A i \in MemIds : OnDisk(files).records[i] =
                    IF i \in entry.ids THEN entry.record ELSE OnDisk(memFiles).records[i]
    BY ZenonT(60), <1>3, <1>5, <1>7, <1>8, EntryLogged
  <2> QED BY Zenon, <1>4, <2>1, <2>2
<1>10. ~At("append")' /\ ~At("append") /\ (Running' <=> Running)
  BY Zenon, <1>1, <1>6 DEF At, Waits, Running
<1>11. MemTypeOK'
  <2>1. /\ memSeq' \in Nat /\ touched' \subseteq MemIds
        /\ acked' \in [MemIds -> Recs \cup {Unsure}]
    BY <1>1, <1>3, <1>5
  <2> QED BY ZenonT(60), <1>1, <1>2, <1>3, <1>7, <2>1, StepFacts DEF MemInv, MemTypeOK, Fields
<1>12. StagesInv'
  <2>1. \A step \in {"rotate", "promote", "drop_bak", "truncate_log", "maybe_compact"} :
           ~Waits(Tail(agenda), step)
    BY Zenon, <1>1, StepFacts, StepAfter
  <2>2. memFiles.snapshot = NoFile /\ memFiles.next = NoFile => memFiles.bak = NoFile
    BY Zenon, <1>1, StepFacts DEF Ready
  <2>3. Ready(files, Tail(agenda), Content')
    BY Zenon, <1>7, <2>1, <2>2 DEF Ready, Fields
  <2> QED BY Zenon, <1>1, <1>2, <1>5, <1>6, <1>10, <2>3 DEF StagesInv
<1>13. NumbersInv'
  BY Zenon, <1>1, <1>2, <1>9, <1>10 DEF NumbersInv
<1>14. \A a, b : Same(a, b)' <=> Same(a, b)
  BY Zenon, <1>1 DEF Same
<1>15. AckedInv'
  <2>1. /\ Remembers(memRecords)
        /\ Start(memFiles) # Torn =>
              /\ Remembers(OnDisk(memFiles).records)
              /\ \A i \in touched : Same(OnDisk(memFiles).records[i], memRecords[i])
    BY Zenon, <1>5, <1>10 DEF MemInv, AckedInv
  <2>2. ASSUME NEW i \in MemIds, acked'[i] # Unsure
        PROVE  i \notin ids /\ acked'[i] = acked[i] /\ memRecords'[i] = memRecords[i]
    BY Zenon, <1>1, <1>3, <2>2
  <2>3. ASSUME Start(memFiles) # Torn, NEW i \in MemIds, acked'[i] # Unsure
        PROVE  Same(OnDisk(files).records[i], acked'[i])
    <3>1. OnDisk(files).records[i] = OnDisk(memFiles).records[i]
      BY Zenon, <1>9, <2>2, <2>3
    <3> QED BY Zenon, <2>1, <2>2, <2>3, <3>1 DEF Remembers
  <2>4. ASSUME NEW i \in MemIds, acked'[i] # Unsure
        PROVE  Same(memRecords'[i], acked'[i])
    BY Zenon, <2>1, <2>2, <2>4 DEF Remembers
  <2>5. ASSUME Start(memFiles) # Torn, NEW i \in touched'
        PROVE  Same(OnDisk(files).records[i], memRecords'[i])
    <3>1. CASE i \in ids
      <4>1. OnDisk(files).records[i] = memRecords'[i]
        BY Zenon, <1>3, <1>9, <2>5, <3>1
      <4> QED BY Zenon, <4>1 DEF Same
    <3>2. CASE i \notin ids
      <4>1. /\ OnDisk(files).records[i] = OnDisk(memFiles).records[i]
            /\ memRecords'[i] = memRecords[i] /\ i \in touched
        BY ZenonT(60), <1>1, <1>3, <1>5, <1>9, <2>5, <3>2
      <4> QED BY Zenon, <2>1, <2>5, <4>1
    <3> QED BY <3>1, <3>2
  <2> QED BY ZenonT(60), <1>2, <1>9, <1>14, <2>3, <2>4, <2>5 DEF AckedInv, Remembers
<1>16. ExactInv'
  <2>1. ~unlogged /\ Start(memFiles) # Torn => Content = OnDisk(memFiles)
    BY Zenon, <1>5, <1>10 DEF MemInv, ExactInv
  <2>2. memPhase # "down"
    BY Zenon, <1>5 DEF Running
  <2>3. Replay(Content, entry) = Content'
    BY <1>1, <1>4, <1>5 DEF Replay, Content, Removed
  <2> QED BY ZenonT(60), <1>1, <1>2, <1>6, <1>9, <1>10, <2>1, <2>2, <2>3 DEF ExactInv
<1> QED BY Zenon, <1>11, <1>12, <1>13, <1>15, <1>16 DEF MemInv

-----------------------------------------------------------------------------
(* Steps that fail *)

Unset(files) == files.snapshot = NoFile /\ files.next = NoFile => files.bak = NoFile

\* With nothing left to do only the backup is constrained.
LEMMA ReadyWhenIdle ==
    ASSUME NEW files, NEW content
    PROVE  Ready(files, <<>>, content) <=> Unset(files)
BY Zenon DEF Ready, Waits, Unset

\* A failed step that leaves memory as it is.
LEMMA FailedQuietly ==
    ASSUME MemInv, agenda # <<>>, GiveUp, memRecords' = memRecords, memSeq' = memSeq,
           acked' = acked, memFiles' \in Files, Unset(memFiles'), Numbered(memFiles', memSeq),
           Start(memFiles') # Torn =>
              \/ OnDisk(memFiles') = Content
              \/ /\ Start(memFiles) # Torn
                 /\ \A i \in MemIds : acked[i] # Unsure =>
                       OnDisk(memFiles').records[i] = OnDisk(memFiles).records[i]
    PROVE  MemInv'
<1>1. /\ memRecords' \in [MemIds -> Recs] /\ memSeq' \in Nat
      /\ acked' \in [MemIds -> Recs \cup {Unsure}] /\ Remembers(memRecords)
      /\ Start(memFiles) # Torn => Remembers(OnDisk(memFiles).records)
  BY Zenon, StepFacts
<1>2. Ready(memFiles', <<>>, Content')
  BY Zenon, ReadyWhenIdle
<1>3. \A a, b : Same(a, b)' <=> Same(a, b)
  BY Zenon DEF Same, GiveUp
<1>4. Content.records = memRecords
  BY Zenon DEF Content
<1>5. ASSUME Start(memFiles') # Torn, NEW i \in MemIds, acked[i] # Unsure
      PROVE  Same(OnDisk(memFiles').records[i], acked[i])
  <2>1. CASE OnDisk(memFiles') = Content
    BY Zenon, <1>1, <1>4, <1>5, <2>1 DEF Remembers
  <2>2. CASE /\ Start(memFiles) # Torn
             /\ OnDisk(memFiles').records[i] = OnDisk(memFiles).records[i]
    BY Zenon, <1>1, <1>5, <2>2 DEF Remembers
  <2> QED BY Zenon, <1>5, <2>1, <2>2
<1>6. Remembers(memRecords)' /\ (Start(memFiles') # Torn => Remembers(OnDisk(memFiles).records)')
  BY Zenon, <1>1, <1>3, <1>5 DEF Remembers
<1>7. Numbered(memFiles', memSeq')
  BY Zenon
<1> QED BY Zenon, <1>1, <1>2, <1>6, <1>7, FailedStep

\* The files as they are, before a step of an operation.
LEMMA FilesLeft ==
    ASSUME MemInv, agenda # <<>>
    PROVE  /\ memFiles \in Files /\ Unset(memFiles) /\ Numbered(memFiles, memSeq)
BY Zenon, StepFacts DEF Ready, Unset

LEMMA AppendToClosedLogInv ==
    ASSUME MemInv, AppendToClosedLog
    PROVE  MemInv'
<1>1. /\ agenda # <<>> /\ GiveUp /\ memRecords' = memRecords /\ memSeq' = memSeq
      /\ acked' = acked /\ memFiles' = memFiles
  BY Zenon DEF AppendToClosedLog, At
<1> QED BY Zenon, <1>1, FilesLeft, FailedQuietly

LEMMA AppendFailsInv ==
    ASSUME MemInv, AppendFails, GiveUp
    PROVE  MemInv'
<1> DEFINE entry == Head(agenda).entry
           torn == [memFiles EXCEPT !.log = Append(@, Torn)]
           whole == [memFiles EXCEPT !.log = Append(@, entry)]
<1>1. /\ agenda # <<>> /\ Head(agenda).do = "append" /\ At("append")
      /\ memRecords' = memRecords /\ memSeq' = memSeq /\ acked' = acked
      /\ LoggedInVain(entry)
  BY Zenon DEF AppendFails, At
<1>2. memFiles' = memFiles \/ memFiles' = torn \/ memFiles' = whole
  <2>1. \A e : LoggedInVain(e) =>
           \/ memFiles' \in {memFiles, [memFiles EXCEPT !.log = Append(@, Torn)]}
           \/ memFiles' = [memFiles EXCEPT !.log = Append(@, e)]
    BY Zenon DEF LoggedInVain
  <2> QED BY Zenon, <1>1, <2>1
<1>3. entry \in LogEntries
  <2>1. Head(agenda) \in AgendaItems
    BY Zenon, <1>1, StepFacts, ChainedTail
  <2> QED BY Zenon, <1>1, <2>1 DEF AgendaItems, StepNames
<1>4. /\ entry.seq = memSeq
      /\ \A i \in entry.ids : acked[i] = Unsure
      /\ Numbered(memFiles, memSeq - 1) /\ memSeq \in Nat
  BY Zenon, <1>1, StepFacts DEF MemInv, StagesInv, NumbersInv
<1>5. memFiles \in Files /\ Unset(memFiles) /\ Numbered(memFiles, memSeq)
  BY Zenon, <1>1, FilesLeft
<1>6. memFiles.log \in Seq(LogEntries \cup {Torn})
  BY Zenon, <1>5, FileFields
<1>7. ASSUME NEW e \in LogEntries \cup {Torn}
      PROVE  Fields([memFiles EXCEPT !.log = Append(@, e)], memFiles.snapshot, memFiles.next,
                    memFiles.bak, memFiles.index, Append(memFiles.log, e))
  <2> DEFINE log == Append(memFiles.log, e)
  <2>1. log \in Seq(LogEntries \cup {Torn}) /\ 0 \in Nat
    BY <1>6
  <2> HIDE DEF log
  <2>2. Fields([memFiles EXCEPT !.log = log], memFiles.snapshot, memFiles.next,
               memFiles.bak, memFiles.index, log)
    BY Zenon, <1>5, <2>1, LogWritten
  <2> QED BY Zenon, <2>2 DEF log
<1>8. /\ Fields(torn, memFiles.snapshot, memFiles.next, memFiles.bak, memFiles.index,
                Append(memFiles.log, Torn))
      /\ Fields(whole, memFiles.snapshot, memFiles.next, memFiles.bak, memFiles.index,
                Append(memFiles.log, entry))
  BY Zenon, <1>3, <1>7
<1> HIDE DEF entry, torn, whole
<1>9. torn \in Files /\ Unset(torn) /\ whole \in Files /\ Unset(whole)
  BY Zenon, <1>5, <1>8 DEF Fields, Unset
<1>10. CASE memFiles' = memFiles
  BY Zenon, <1>1, <1>5, <1>10, FailedQuietly
<1>11. CASE memFiles' = torn
  <2>1. /\ Start(torn) = Start(memFiles) /\ Numbered(torn, memSeq)
        /\ Start(memFiles) # Torn => OnDisk(torn) = OnDisk(memFiles)
    BY Zenon, <1>5, <1>8, TornLogged
  <2> QED BY Zenon, <1>1, <1>9, <1>11, <2>1, FailedQuietly
<1>12. CASE memFiles' = whole
  <2>1. memSeq - 1 \in Int /\ entry.seq > memSeq - 1
    BY <1>4
  <2>2. /\ Start(whole) = Start(memFiles) /\ Numbered(whole, entry.seq)
        /\ Start(memFiles) # Torn => \A i \in MemIds : OnDisk(whole).records[i] =
              IF i \in entry.ids THEN entry.record ELSE OnDisk(memFiles).records[i]
    <3>1. LoggedOn(memFiles, whole, entry)
      BY Zenon, <1>3, <1>4, <1>5, <1>8, <2>1, EntryIsLogged
    <3> QED BY Zenon, <3>1 DEF LoggedOn
  <2>3. Numbered(whole, memSeq)
    BY Zenon, <1>4, <2>2
  <2>4. Start(memFiles) # Torn => \A i \in MemIds : acked[i] # Unsure =>
           OnDisk(whole).records[i] = OnDisk(memFiles).records[i]
    BY Zenon, <1>4, <2>2
  <2> QED BY ZenonT(60), <1>1, <1>9, <1>12, <2>2, <2>3, <2>4, FailedQuietly
<1> QED BY Zenon, <1>2, <1>10, <1>11, <1>12

LEMMA TruncateLogFailsInv ==
    ASSUME MemInv, TruncateLogFails, GiveUp
    PROVE  MemInv'
<1> DEFINE files == [memFiles EXCEPT !.log = <<>>, !.synced = 0]
<1>1. /\ agenda # <<>> /\ Head(agenda).do = "truncate_log"
      /\ memRecords' = memRecords /\ memSeq' = memSeq /\ acked' = acked
      /\ memFiles' = memFiles \/ memFiles' = files
  BY Zenon DEF TruncateLogFails, At
<1>2. memFiles \in Files /\ Unset(memFiles) /\ Numbered(memFiles, memSeq)
  BY Zenon, <1>1, FilesLeft
<1>3. /\ Fields(files, memFiles.snapshot, memFiles.next, memFiles.bak, memFiles.index, <<>>)
      /\ OnDisk(files) = Content /\ Numbered(files, memSeq)
  BY Zenon, <1>1, LogEmptied
<1> HIDE DEF files
<1>4. files \in Files /\ Unset(files)
  BY Zenon, <1>2, <1>3 DEF Fields, Unset
<1>5. CASE memFiles' = memFiles
  BY Zenon, <1>1, <1>2, <1>5, FailedQuietly
<1>6. CASE memFiles' = files
  BY Zenon, <1>1, <1>3, <1>4, <1>6, FailedQuietly
<1> QED BY Zenon, <1>1, <1>5, <1>6

LEMMA FileStepFailsInv ==
    ASSUME MemInv, FileStepFails, GiveUp
    PROVE  MemInv'
<1> DEFINE indexed == [memFiles EXCEPT !.index = Content]
           next == [memFiles EXCEPT !.next = Content]
<1>1. /\ agenda # <<>> /\ memRecords' = memRecords /\ memSeq' = memSeq /\ acked' = acked
      /\ memFiles' = memFiles \/ memFiles' = indexed \/ memFiles' = next
  BY Zenon DEF FileStepFails, At
<1>2. memFiles \in Files /\ Unset(memFiles) /\ Numbered(memFiles, memSeq) /\ MemTypeOK
  BY Zenon, <1>1, FilesLeft, StepFacts
<1>3. /\ Fields(indexed, memFiles.snapshot, memFiles.next, memFiles.bak, Content, memFiles.log)
      /\ Fields(next, memFiles.snapshot, Content, memFiles.bak, memFiles.index, memFiles.log)
      /\ Content # NoFile
  BY Zenon, <1>2, ContentFacts, OneFileWritten
<1> HIDE DEF indexed, next
<1>4. indexed \in Files /\ Unset(indexed) /\ next \in Files /\ Unset(next)
  BY Zenon, <1>2, <1>3 DEF Fields, Unset
<1>5. CASE memFiles' = memFiles
  BY Zenon, <1>1, <1>2, <1>5, FailedQuietly
<1>6. CASE memFiles' = indexed
  <2>1. Start(indexed) = Start(memFiles) /\ indexed.log = memFiles.log
    BY Zenon, <1>2, <1>3, StartIs DEF Fields
  <2>2. Numbered(indexed, memSeq) /\ OnDisk(indexed) = OnDisk(memFiles)
    BY Zenon, <1>2, <2>1, NumberedSame, OnDiskSame
  <2> QED BY Zenon, <1>1, <1>4, <1>6, <2>1, <2>2, FailedQuietly
<1>7. CASE memFiles' = next
  <2>1. next.log = memFiles.log /\ (Start(next) = Content \/ Start(next) = Start(memFiles))
    BY Zenon, <1>2, <1>3, StartIs DEF Fields
  <2>2. CASE Start(next) = Content
    <3>1. OnDisk(next) = Content /\ Numbered(next, memSeq)
      BY Zenon, <1>2, <1>4, <2>1, <2>2, CoveredByContent
    <3> QED BY Zenon, <1>1, <1>4, <1>7, <3>1, FailedQuietly
  <2>3. CASE Start(next) = Start(memFiles)
    <3>1. Numbered(next, memSeq) /\ OnDisk(next) = OnDisk(memFiles)
      BY Zenon, <1>2, <2>1, <2>3, NumberedSame, OnDiskSame
    <3> QED BY Zenon, <1>1, <1>4, <1>7, <2>3, <3>1, FailedQuietly
  <2> QED BY Zenon, <2>1, <2>2, <2>3
<1> QED BY Zenon, <1>1, <1>5, <1>6, <1>7

LEMMA TrimFailsInv ==
    ASSUME MemInv, TrimFails, GiveUp
    PROVE  MemInv'
<1> DEFINE ids == Trimmed(memRecords)
           entry == DeleteEntry(memSeq + 1, ids)
           torn == [memFiles EXCEPT !.log = Append(@, Torn)]
           whole == [memFiles EXCEPT !.log = Append(@, entry)]
<1>1. /\ agenda # <<>> /\ memSeq' = memSeq + 1 /\ memRecords' = Removed(memRecords, ids)
      /\ acked' = [i \in MemIds |-> IF i \in ids THEN Unsure ELSE acked[i]]
      /\ LoggedInVain(entry)
  BY Zenon DEF TrimFails, At
<1>2. memFiles' = memFiles \/ memFiles' = torn \/ memFiles' = whole
  <2>1. \A e : LoggedInVain(e) =>
           \/ memFiles' \in {memFiles, [memFiles EXCEPT !.log = Append(@, Torn)]}
           \/ memFiles' = [memFiles EXCEPT !.log = Append(@, e)]
    BY Zenon DEF LoggedInVain
  <2> QED BY Zenon, <1>1, <2>1
<1>3. /\ ids \subseteq MemIds /\ entry \in LogEntries /\ memRecords' \in [MemIds -> Recs]
      /\ \A i \in MemIds : memRecords'[i] = IF i \in ids THEN NoRecord ELSE memRecords[i]
  BY Zenon, <1>1, StepFacts, TrimmedFacts
<1>4. entry.seq = memSeq + 1 /\ entry.ids = ids /\ entry.record = NoRecord
  BY Zenon DEF DeleteEntry
<1>5. /\ memFiles \in Files /\ Unset(memFiles) /\ Numbered(memFiles, memSeq) /\ memSeq \in Nat
      /\ Remembers(memRecords) /\ (Start(memFiles) # Torn => Remembers(OnDisk(memFiles).records))
      /\ acked \in [MemIds -> Recs \cup {Unsure}]
  BY Zenon, <1>1, FilesLeft, StepFacts
<1>6. memFiles.log \in Seq(LogEntries \cup {Torn})
  BY Zenon, <1>5, FileFields
<1>7. ASSUME NEW e \in LogEntries \cup {Torn}
      PROVE  Fields([memFiles EXCEPT !.log = Append(@, e)], memFiles.snapshot, memFiles.next,
                    memFiles.bak, memFiles.index, Append(memFiles.log, e))
  <2> DEFINE log == Append(memFiles.log, e)
  <2>1. log \in Seq(LogEntries \cup {Torn}) /\ 0 \in Nat
    BY <1>6
  <2> HIDE DEF log
  <2>2. Fields([memFiles EXCEPT !.log = log], memFiles.snapshot, memFiles.next,
               memFiles.bak, memFiles.index, log)
    BY Zenon, <1>5, <2>1, LogWritten
  <2> QED BY Zenon, <2>2 DEF log
<1>8. /\ Fields(torn, memFiles.snapshot, memFiles.next, memFiles.bak, memFiles.index,
                Append(memFiles.log, Torn))
      /\ Fields(whole, memFiles.snapshot, memFiles.next, memFiles.bak, memFiles.index,
                Append(memFiles.log, entry))
  BY Zenon, <1>3, <1>7
<1> HIDE DEF ids, entry, torn, whole
<1>9. torn \in Files /\ Unset(torn) /\ whole \in Files /\ Unset(whole)
  BY Zenon, <1>5, <1>8 DEF Fields, Unset
<1>10. memSeq' \in Nat /\ acked' \in [MemIds -> Recs \cup {Unsure}]
  BY <1>1, <1>5
<1>11. \A a, b : Same(a, b)' <=> Same(a, b)
  BY Zenon DEF Same, GiveUp
<1>12. ASSUME NEW i \in MemIds, acked'[i] # Unsure
       PROVE  i \notin ids /\ acked'[i] = acked[i] /\ memRecords'[i] = memRecords[i]
  BY Zenon, <1>1, <1>3, <1>12
<1>13. Remembers(memRecords)'
  BY Zenon, <1>5, <1>11, <1>12 DEF Remembers
<1>14. ASSUME NEW f \in Files, NEW seq, Numbered(f, seq), seq = memSeq \/ seq = memSeq + 1
       PROVE  Numbered(f, memSeq')
  <2>1. seq \in Nat /\ seq <= memSeq'
    BY <1>1, <1>5, <1>14
  <2> QED BY Zenon, <1>10, <1>14, <2>1, NumberedUpTo
<1>15. /\ memFiles' \in Files /\ Unset(memFiles') /\ Numbered(memFiles', memSeq')
       /\ Start(memFiles') = Start(memFiles)
       /\ Start(memFiles) # Torn => \A i \in MemIds : i \notin ids =>
             OnDisk(memFiles').records[i] = OnDisk(memFiles).records[i]
  <2>1. CASE memFiles' = memFiles
    BY Zenon, <1>5, <1>14, <2>1
  <2>2. CASE memFiles' = torn
    <3>1. /\ Start(torn) = Start(memFiles) /\ Numbered(torn, memSeq)
          /\ Start(memFiles) # Torn => OnDisk(torn) = OnDisk(memFiles)
      BY Zenon, <1>5, <1>8, TornLogged
    <3> QED BY Zenon, <1>9, <1>14, <2>2, <3>1
  <2>3. CASE memFiles' = whole
    <3>1. memSeq \in Int /\ entry.seq > memSeq
      BY <1>4, <1>5
    <3>2. /\ Start(whole) = Start(memFiles) /\ Numbered(whole, entry.seq)
          /\ Start(memFiles) # Torn => \A i \in MemIds : OnDisk(whole).records[i] =
                IF i \in entry.ids THEN entry.record ELSE OnDisk(memFiles).records[i]
      BY ZenonT(60), <1>3, <1>5, <1>8, <3>1, EntryLogged
    <3>3. Start(memFiles) # Torn => \A i \in MemIds : i \notin ids =>
             OnDisk(whole).records[i] = OnDisk(memFiles).records[i]
      BY <1>4, <3>2
    <3> QED BY Zenon, <1>4, <1>9, <1>14, <2>3, <3>2, <3>3
  <2> QED BY Zenon, <1>2, <2>1, <2>2, <2>3
<1>16. Start(memFiles') # Torn => Remembers(OnDisk(memFiles).records)'
  BY Zenon, <1>5, <1>11, <1>12, <1>15 DEF Remembers
<1>17. Ready(memFiles', <<>>, Content')
  BY Zenon, <1>15, ReadyWhenIdle
<1> QED BY Zenon, <1>1, <1>3, <1>10, <1>13, <1>15, <1>16, <1>17, FailedStep

LEMMA StepFailsInv ==
    ASSUME MemInv, StepFails
    PROVE  MemInv'
BY Zenon, AppendFailsInv, TrimFailsInv, FileStepFailsInv, TruncateLogFailsInv DEF StepFails

-----------------------------------------------------------------------------
(* Operations begin *)

\* What the invariant says between two operations.
LEMMA IdleFacts ==
    ASSUME MemInv, MemIdle
    PROVE  /\ MemTypeOK /\ memFiles \in Files /\ Unset(memFiles) /\ touched = {} /\ Running
           /\ ~At("append") /\ Numbered(memFiles, memSeq) /\ Remembers(memRecords)
           /\ Start(memFiles) # Torn => Remembers(OnDisk(memFiles).records)
           /\ ~unlogged => /\ Start(memFiles) # Torn => OnDisk(memFiles) = Content
                           /\ memFiles.index = Content
<1>1. Running /\ ~At("append")
  BY DEF MemIdle, Running, At
<1> QED BY Zenon, <1>1
        DEF MemInv, MemIdle, MemTypeOK, StagesInv, NumbersInv, AckedInv, ExactInv, Ready, Unset

\* Upsert and Delete change the records, and have their entry to append.
LEMMA WriteBegins ==
    ASSUME MemInv, MemIdle, NEW entry \in LogEntries, entry.seq = memSeq + 1,
           NEW base, base = Purged(memRecords), memSeq' = memSeq + 1,
           memRecords' = [i \in MemIds |-> IF i \in entry.ids THEN entry.record ELSE base[i]],
           Chained(agenda'), Waits(agenda', "append"), Head(agenda').entry = entry,
           Doubt(entry.ids), unlogged' = (unlogged \/ base # memRecords),
           memFiles' = memFiles, memPhase' = memPhase, memClock' = memClock
    PROVE  MemInv'
<1>1. /\ memRecords \in [MemIds -> Recs] /\ memSeq \in Nat /\ memClock \in Nat /\ memFiles \in Files
      /\ acked \in [MemIds -> Recs \cup {Unsure}] /\ unlogged \in BOOLEAN
      /\ memPhase \in {"down", "up", "opening", "refused"}
  BY Zenon DEF MemInv, MemTypeOK
<1>2. /\ entry.ids \subseteq MemIds /\ entry.record \in Recs
  BY Zenon DEF LogEntries, Recs
<1>3. /\ base \in [MemIds -> Recs] /\ \A i \in MemIds : Same(base[i], memRecords[i])
  BY Zenon, <1>1, PurgedIsSeen
<1>4. /\ touched' = entry.ids
      /\ acked' = [i \in MemIds |-> IF i \in entry.ids THEN Unsure ELSE acked[i]]
  BY Zenon DEF Doubt
<1>5. /\ memPhase = "up" /\ Running /\ Running' /\ At("append")' /\ agenda' # <<>>
      /\ memPhase' # "down" /\ memPhase' # "opening"
  BY Zenon DEF MemIdle, Running, At, Waits
<1>6. MemTypeOK'
  <2>1. memRecords' \in [MemIds -> Recs]
    BY Zenon, <1>2, <1>3
  <2>2. acked' \in [MemIds -> Recs \cup {Unsure}] /\ unlogged' \in BOOLEAN
    BY Zenon, <1>1, <1>4
  <2>3. memSeq' \in Nat
    BY <1>1
  <2> QED BY Zenon, <1>1, <1>2, <1>4, <2>1, <2>2, <2>3 DEF MemTypeOK
<1>7. StagesInv'
  <2>1. \A i \in entry.ids : memRecords'[i] = entry.record /\ acked'[i] = Unsure
    BY Zenon, <1>2, <1>4
  <2>2. \A step \in {"rotate", "promote", "drop_bak", "truncate_log", "maybe_compact"} :
           ~Waits(agenda', step)
    BY Zenon DEF Waits
  <2>3. Ready(memFiles', agenda', Content')
    BY Zenon, <2>2, IdleFacts DEF Ready, Unset
  <2> QED BY Zenon, <1>4, <1>5, <2>1, <2>3 DEF StagesInv
<1>8. NumbersInv'
  <2>1. memSeq + 1 \in Nat /\ memSeq <= memSeq + 1 /\ memSeq' - 1 = memSeq
    BY <1>1
  <2>2. Numbered(memFiles, memSeq) /\ Numbered(memFiles, memSeq + 1)
    BY Zenon, <1>1, <2>1, IdleFacts, NumberedUpTo
  <2> QED BY Zenon, <2>1, <2>2 DEF NumbersInv
<1>9. AckedInv'
  <2>1. ASSUME NEW i \in MemIds, acked'[i] # Unsure
        PROVE  acked'[i] = acked[i] /\ memRecords'[i] = base[i]
    BY Zenon, <1>4, <2>1
  <2>2. \A a, b : Same(a, b)' <=> Same(a, b)
    BY Zenon DEF Same
  <2>3. \A i \in MemIds : acked[i] # Unsure => Same(base[i], acked[i])
    BY Zenon, <1>3, IdleFacts DEF Remembers, Same
  <2>4. Remembers(memRecords)'
    BY Zenon, <2>1, <2>2, <2>3 DEF Remembers
  <2>5. Start(memFiles') # Torn => Remembers(OnDisk(memFiles).records)'
    BY Zenon, <2>1, <2>2, IdleFacts DEF Remembers
  <2> QED BY Zenon, <1>5, <2>4, <2>5 DEF AckedInv
<1>10. ExactInv'
  <2>1. ASSUME ~unlogged', Start(memFiles) # Torn
        PROVE  Content' = Replay(OnDisk(memFiles), entry)
    <3>1. base = memRecords /\ ~unlogged
      BY Zenon, <2>1
    <3>2. OnDisk(memFiles) = Content
      BY ZenonT(60), <2>1, <3>1, IdleFacts
    <3>3. Content.seq = memSeq /\ Content.records = memRecords /\ ~(entry.seq <= Content.seq)
      BY <1>1 DEF Content
    <3>4. Replay(Content, entry) =
            [seq |-> entry.seq,
             records |-> [i \in MemIds |-> IF i \in entry.ids THEN entry.record ELSE memRecords[i]]]
      BY Zenon, <3>3 DEF Replay
    <3>5. Content' = [seq |-> memSeq', records |-> memRecords']
      BY Zenon DEF Content
    <3> QED BY Zenon, <3>1, <3>2, <3>4, <3>5
  <2> QED BY Zenon, <1>5, <2>1 DEF ExactInv
<1> QED BY Zenon, <1>6, <1>7, <1>8, <1>9, <1>10 DEF MemInv

LEMMA UpsertInv ==
    ASSUME MemInv, NEW list \in MemUpserts, Upsert(list)
    PROVE  MemInv'
<1> DEFINE ids == Range(list)
           entry == UpsertEntry(memSeq + 1, ids)
           base == Purged(memRecords)
<1>1. /\ MemIdle /\ BlankId \notin ids /\ memSeq' = memSeq + 1
      /\ memRecords' = [i \in MemIds |-> IF i \in ids THEN Record(memSeq + 1) ELSE base[i]]
      /\ agenda' = <<LogEntry(entry), Do("trim")>> \o Finish
      /\ Doubt(ids) /\ unlogged' = (unlogged \/ base # memRecords)
      /\ memFiles' = memFiles /\ memPhase' = memPhase /\ memClock' = memClock
  BY Zenon DEF Upsert
<1>2. ids \subseteq MemIds
  <2>1. list \in Seq(MemIds \cup {BlankId})
    BY Zenon, MemoryAssumption
  <2>2. ids \subseteq MemIds \cup {BlankId}
    BY <2>1 DEF Range
  <2> QED BY Zenon, <1>1, <2>2
<1>3. memSeq \in Nat /\ memClock \in Nat
  BY Zenon DEF MemInv, MemTypeOK
<1> HIDE DEF ids, base
<1>4. /\ entry \in LogEntries /\ entry.seq = memSeq + 1 /\ entry.ids = ids
      /\ entry.record = Record(memSeq + 1)
  BY <1>2, <1>3 DEF UpsertEntry, LogEntries, Record, MemRecord
<1> HIDE DEF entry
<1>5. Chained(agenda') /\ Waits(agenda', "append") /\ Head(agenda').entry = entry
  BY Zenon, <1>1, <1>4, WritingAgendas
<1>6. base = Purged(memRecords)
  BY DEF base
<1>7. memRecords' = [i \in MemIds |-> IF i \in entry.ids THEN entry.record ELSE base[i]]
  BY Zenon, <1>1, <1>4
<1>8. Doubt(entry.ids)
  BY Zenon, <1>1, <1>4
<1>9. /\ MemIdle /\ memSeq' = memSeq + 1 /\ unlogged' = (unlogged \/ base # memRecords)
      /\ memFiles' = memFiles /\ memPhase' = memPhase /\ memClock' = memClock
      /\ entry \in LogEntries /\ entry.seq = memSeq + 1
  BY Zenon, <1>1, <1>4
<1> QED BY Zenon, <1>5, <1>6, <1>7, <1>8, <1>9, WriteBegins

LEMMA DeleteInv ==
    ASSUME MemInv, NEW ids \in MemDeletes, Delete(ids)
    PROVE  MemInv'
<1> DEFINE entry == DeleteEntry(memSeq + 1, ids)
           base == Purged(memRecords)
<1>1. /\ MemIdle /\ memSeq' = memSeq + 1 /\ memRecords' = Removed(base, ids)
      /\ agenda' = <<LogEntry(entry)>> \o Finish
      /\ Doubt(ids) /\ unlogged' = (unlogged \/ base # memRecords)
      /\ memFiles' = memFiles /\ memPhase' = memPhase /\ memClock' = memClock
  BY Zenon DEF Delete
<1>2. ids \subseteq MemIds /\ memSeq \in Nat
  BY Zenon, MemoryAssumption DEF MemInv, MemTypeOK
<1> HIDE DEF base
<1>3. entry \in LogEntries /\ entry.seq = memSeq + 1 /\ entry.ids = ids /\ entry.record = NoRecord
  BY <1>2 DEF DeleteEntry, LogEntries
<1> HIDE DEF entry
<1>4. Chained(agenda') /\ Waits(agenda', "append") /\ Head(agenda').entry = entry
  BY Zenon, <1>1, <1>3, WritingAgendas
<1>5. base = Purged(memRecords)
  BY DEF base
<1>6. memRecords' = [i \in MemIds |-> IF i \in entry.ids THEN entry.record ELSE base[i]]
  BY Zenon, <1>1, <1>3 DEF Removed
<1>7. Doubt(entry.ids)
  BY Zenon, <1>1, <1>3
<1>8. /\ MemIdle /\ memSeq' = memSeq + 1 /\ unlogged' = (unlogged \/ base # memRecords)
      /\ memFiles' = memFiles /\ memPhase' = memPhase /\ memClock' = memClock
      /\ entry \in LogEntries /\ entry.seq = memSeq + 1
  BY Zenon, <1>1, <1>3
<1> QED BY Zenon, <1>4, <1>5, <1>6, <1>7, <1>8, WriteBegins

\* An Upsert that is refused half way: no entry, and what it changed is in doubt.
LEMMA UpsertRefusedInv ==
    ASSUME MemInv, NEW list \in MemUpserts, UpsertRefused(list)
    PROVE  MemInv'
<1> DEFINE blank == CHOOSE k \in DOMAIN list : list[k] = BlankId
           ids == Range(SubSeq(list, 1, blank - 1))
           base == Purged(memRecords)
<1>1. /\ MemIdle
      /\ memRecords' = [i \in MemIds |-> IF i \in ids THEN Record(memSeq + 1) ELSE base[i]]
      /\ acked' = [i \in MemIds |-> IF i \in ids THEN Unsure ELSE acked[i]]
      /\ unlogged' = (unlogged \/ memRecords' # memRecords)
      /\ memSeq' = memSeq /\ memFiles' = memFiles /\ memPhase' = memPhase /\ agenda' = agenda
      /\ memClock' = memClock /\ touched' = touched
  BY Zenon DEF UpsertRefused
<1> HIDE DEF ids
<1>2. /\ memRecords \in [MemIds -> Recs] /\ memSeq \in Nat /\ memClock \in Nat
      /\ acked \in [MemIds -> Recs \cup {Unsure}] /\ unlogged \in BOOLEAN
  BY Zenon DEF MemInv, MemTypeOK
<1>3. base \in [MemIds -> Recs] /\ \A i \in MemIds : Same(base[i], memRecords[i])
  BY Zenon, <1>2, PurgedIsSeen
<1> HIDE DEF base
<1>4. Record(memSeq + 1) \in Recs
  BY <1>2 DEF Record, Recs, MemRecord
<1>5. MemTypeOK'
  <2>1. memRecords' \in [MemIds -> Recs] /\ acked' \in [MemIds -> Recs \cup {Unsure}]
    BY Zenon, <1>1, <1>2, <1>3, <1>4
  <2>2. unlogged' \in BOOLEAN
    BY Zenon, <1>1, <1>2
  <2> QED BY Zenon, <1>1, <2>1, <2>2 DEF MemInv, MemTypeOK
<1>6. agenda' = <<>> /\ ~At("append")' /\ memPhase' = "up" /\ Running' /\ touched' = {}
  <2>1. memPhase = "up" /\ agenda = <<>> /\ touched = {}
    BY Zenon, <1>1, IdleFacts DEF MemIdle
  <2> QED BY Zenon, <1>1, <2>1 DEF Running, At
<1>7. StagesInv'
  <2>1. Unset(memFiles) /\ memPhase' # "opening"
    BY Zenon, <1>1, <1>6, IdleFacts
  <2>2. Ready(memFiles', <<>>, Content')
    BY Zenon, <1>1, <2>1, ReadyWhenIdle
  <2> QED BY Zenon, <1>6, <2>1, <2>2 DEF StagesInv
<1>8. NumbersInv'
  BY Zenon, <1>1, <1>6, IdleFacts DEF NumbersInv
<1>9. AckedInv'
  <2>1. ASSUME NEW i \in MemIds, acked'[i] # Unsure
        PROVE  acked'[i] = acked[i] /\ memRecords'[i] = base[i]
    <3>1. /\ acked'[i] = (IF i \in ids THEN Unsure ELSE acked[i])
          /\ memRecords'[i] = (IF i \in ids THEN Record(memSeq + 1) ELSE base[i])
      BY Zenon, <1>1
    <3> QED BY Zenon, <2>1, <3>1
  <2>2. \A a, b : Same(a, b)' <=> Same(a, b)
    BY Zenon, <1>1 DEF Same
  <2>3. \A i \in MemIds : acked[i] # Unsure => Same(base[i], acked[i])
    BY Zenon, <1>1, <1>3, IdleFacts DEF Remembers, Same
  <2>4. Remembers(memRecords)'
    BY Zenon, <2>1, <2>2, <2>3 DEF Remembers
  <2>5. Start(memFiles') # Torn => Remembers(OnDisk(memFiles).records)'
    BY Zenon, <1>1, <2>1, <2>2, IdleFacts DEF Remembers
  <2>6. \A i \in touched' : FALSE
    BY <1>6
  <2> QED BY Zenon, <2>4, <2>5, <2>6 DEF AckedInv
<1>10. ExactInv'
  <2>1. memPhase' # "down"
    BY <1>6
  <2>2. ~unlogged' => ~unlogged /\ Content' = Content
    BY Zenon, <1>1 DEF Content
  <2> QED BY Zenon, <1>1, <1>6, <2>1, <2>2, IdleFacts DEF ExactInv
<1> QED BY Zenon, <1>5, <1>7, <1>8, <1>9, <1>10 DEF MemInv

LEMMA CompactInv ==
    ASSUME MemInv, Compact
    PROVE  MemInv'
<1>1. /\ MemIdle /\ agenda' = Compaction /\ touched' = {} /\ memRecords' = memRecords
      /\ memSeq' = memSeq /\ memFiles' = memFiles /\ memPhase' = memPhase
      /\ memClock' = memClock /\ acked' = acked /\ unlogged' = unlogged
  BY Zenon DEF Compact, memVolatile
<1>2. Content' = Content /\ \A a, b : Same(a, b)' <=> Same(a, b)
  BY Zenon, <1>1 DEF Content, Same
<1>3. Chained(agenda') /\ Waits(agenda', "create_next")
  BY Zenon, <1>1, Agendas
<1>4. agenda' # <<>> /\ ~At("append")' /\ memPhase' # "down" /\ Running'
  BY <1>1, <1>3 DEF Waits, At, MemIdle, Running
<1>5. MemTypeOK'
  <2>1. touched' \subseteq MemIds
    BY <1>1
  <2> QED BY Zenon, <1>1, <1>3, <2>1 DEF MemInv, MemTypeOK
<1>6. StagesInv'
  <2>1. \A step \in {"rotate", "promote", "drop_bak", "truncate_log", "maybe_compact"} :
           ~Waits(agenda', step)
    BY <1>3 DEF Waits
  <2>2. Ready(memFiles', agenda', Content')
    BY Zenon, <1>1, <2>1, IdleFacts DEF Ready, Unset
  <2> QED BY Zenon, <1>4, <2>2 DEF StagesInv
<1>7. NumbersInv'
  BY Zenon, <1>1, <1>4, IdleFacts DEF NumbersInv
<1>8. AckedInv'
  <2>1. \A i \in touched' : FALSE
    BY <1>1
  <2>2. Remembers(memRecords)' /\ (Start(memFiles') # Torn => Remembers(OnDisk(memFiles).records)')
    BY Zenon, <1>1, <1>2, IdleFacts DEF Remembers
  <2> QED BY Zenon, <2>1, <2>2 DEF AckedInv
<1>9. ExactInv'
  BY ZenonT(60), <1>1, <1>2, <1>4, IdleFacts DEF ExactInv
<1> QED BY Zenon, <1>5, <1>6, <1>7, <1>8, <1>9 DEF MemInv

LEMMA CloseEngineInv ==
    ASSUME MemInv, CloseEngine
    PROVE  MemInv'
<1>1. /\ MemIdle /\ memRecords' = memRecords /\ memSeq' = memSeq /\ memPhase' = memPhase
      /\ agenda' = agenda /\ memClock' = memClock
      /\ touched' = touched /\ acked' = acked /\ unlogged' = unlogged
      /\ memFiles' = memFiles \/ memFiles' = [memFiles EXCEPT !.synced = Len(memFiles.log)]
  BY Zenon DEF CloseEngine, memGhosts
<1>2. MemTypeOK /\ memFiles \in Files
  BY Zenon, <1>1, IdleFacts
<1>3. Fields(memFiles', memFiles.snapshot, memFiles.next, memFiles.bak, memFiles.index, memFiles.log)
  <2>1. Len(memFiles.log) \in Nat /\ memFiles.log \in Seq(LogEntries \cup {Torn})
    BY Zenon, <1>2, FileFields
  <2>2. Fields(memFiles, memFiles.snapshot, memFiles.next, memFiles.bak, memFiles.index, memFiles.log)
    BY Zenon, <1>2 DEF Fields
  <2> QED BY Zenon, <1>1, <1>2, <2>1, <2>2, LogWritten
<1>4. Start(memFiles') = Start(memFiles) /\ memFiles'.log = memFiles.log /\ Unset(memFiles')
  BY <1>1, <1>2, <1>3, StartIs, IdleFacts DEF Fields, Unset
<1>5. OnDisk(memFiles') = OnDisk(memFiles) /\ Numbered(memFiles', memSeq)
  BY Zenon, <1>1, <1>4, IdleFacts, OnDiskSame, NumberedSame
<1>6. Content' = Content /\ \A a, b : Same(a, b)' <=> Same(a, b)
  BY Zenon, <1>1 DEF Content, Same
<1>7. agenda' = <<>> /\ ~At("append")' /\ memPhase' = "up" /\ Running' /\ touched' = {}
  BY <1>1, IdleFacts DEF MemIdle, Running, At
<1>8. MemTypeOK'
  BY Zenon, <1>1, <1>2, <1>3 DEF MemTypeOK, Fields
<1>9. StagesInv'
  <2>1. Ready(memFiles', <<>>, Content') /\ memPhase' # "opening"
    BY <1>4, <1>7, ReadyWhenIdle
  <2> QED BY Zenon, <1>7, <2>1 DEF StagesInv
<1>10. NumbersInv'
  BY ZenonT(60), <1>1, <1>5, <1>7 DEF NumbersInv
<1>11. AckedInv'
  <2>1. \A i \in touched' : FALSE
    BY <1>7
  <2>2. Remembers(memRecords)' /\ (Start(memFiles') # Torn => Remembers(OnDisk(memFiles).records)')
    BY Zenon, <1>1, <1>4, <1>5, <1>6, IdleFacts DEF Remembers
  <2> QED BY Zenon, <2>1, <2>2 DEF AckedInv
<1>12. ExactInv'
  <2>1. memPhase' # "down" /\ memFiles'.index = memFiles.index
    BY <1>3, <1>7 DEF Fields
  <2> QED BY ZenonT(60), <1>1, <1>4, <1>5, <1>6, <1>7, <2>1, IdleFacts DEF ExactInv
<1> QED BY Zenon, <1>8, <1>9, <1>10, <1>11, <1>12 DEF MemInv

-----------------------------------------------------------------------------
(* Crashes, recovery and time *)

\* A process that is gone: only the files and the promises are left.
LEMMA StoppedInv ==
    ASSUME MemInv, Stopped, memFiles' \in Files, Unset(memFiles'),
           acked' \in [MemIds -> Recs \cup {Unsure}], unlogged' \in BOOLEAN,
           Start(memFiles') # Torn => Remembers(OnDisk(memFiles).records)',
           ~unlogged' /\ Start(memFiles') # Torn => memFiles'.index = OnDisk(memFiles')
    PROVE  MemInv'
<1>1. /\ memPhase' = "down" /\ agenda' = <<>> /\ memRecords' = NoRecords /\ memSeq' = 0
      /\ touched' = {} /\ memClock' = memClock
  BY Zenon DEF Stopped
<1>2. ~Running' /\ memPhase' # "opening" /\ memPhase' # "up"
  BY <1>1 DEF Running
<1>3. MemTypeOK'
  <2>1. memRecords' \in [MemIds -> Recs] /\ memSeq' \in Nat /\ touched' \subseteq MemIds
    BY Zenon, <1>1 DEF NoRecords, Recs
  <2>2. memPhase' \in {"down", "up", "opening", "refused"} /\ Chained(agenda') /\ memClock \in Nat
    BY Zenon, <1>1, Agendas DEF MemInv, MemTypeOK
  <2> QED BY Zenon, <1>1, <2>1, <2>2 DEF MemTypeOK
<1>4. StagesInv'
  BY Zenon, <1>1, <1>2, ReadyWhenIdle DEF StagesInv, At
<1>5. NumbersInv' /\ AckedInv' /\ ExactInv'
  BY Zenon, <1>2 DEF NumbersInv, AckedInv, ExactInv
<1> QED BY Zenon, <1>3, <1>4, <1>5 DEF MemInv

LEMMA CrashInv ==
    ASSUME MemInv, Crash
    PROVE  MemInv'
<1>1. /\ Running /\ Stopped /\ unlogged' = (unlogged \/ agenda # <<>>)
      /\ memFiles' = memFiles /\ acked' = acked /\ memClock' = memClock
  BY Zenon DEF Crash, Running, Stopped
<1>2. /\ memFiles \in Files /\ Unset(memFiles) /\ acked \in [MemIds -> Recs \cup {Unsure}]
      /\ unlogged \in BOOLEAN
  BY Zenon DEF MemInv, MemTypeOK, StagesInv, Ready, Unset
<1>3. Start(memFiles') # Torn => Remembers(OnDisk(memFiles).records)'
  BY Zenon, <1>1 DEF MemInv, AckedInv, Remembers, Same
<1>4. ASSUME ~unlogged', Start(memFiles) # Torn PROVE memFiles.index = OnDisk(memFiles)
  <2>1. ~unlogged /\ agenda = <<>>
    BY Zenon, <1>1, <1>4
  <2>2. MemIdle
    BY Zenon, <1>1, <2>1 DEF MemIdle, Running, MemInv, StagesInv
  <2> QED BY Zenon, <1>4, <2>1, <2>2, IdleFacts
<1>5. unlogged' \in BOOLEAN
  BY Zenon, <1>1, <1>2
<1> QED BY Zenon, <1>1, <1>2, <1>3, <1>4, <1>5, StoppedInv

LEMMA PowerLossInv ==
    ASSUME MemInv, PowerLoss
    PROVE  MemInv'
<1>1. Stopped /\ unlogged' = TRUE /\ memClock' = memClock
  BY Zenon DEF PowerLoss, Stopped
<1>2. PICK n \in memFiles.synced..(Len(memFiles.log) - 1), torn \in BOOLEAN :
        LET kept == SubSeq(memFiles.log, 1, n)
            lost == SubSeq(memFiles.log, n + 1, Len(memFiles.log))
        IN  /\ memFiles' = [memFiles EXCEPT !.log = IF torn THEN Append(kept, Torn) ELSE kept]
            /\ acked' = [i \in MemIds |->
                            IF \E k \in DOMAIN lost : lost[k] # Torn /\ i \in lost[k].ids
                            THEN Unsure ELSE acked[i]]
  BY Zenon DEF PowerLoss
<1> DEFINE kept == SubSeq(memFiles.log, 1, n)
           lost == SubSeq(memFiles.log, n + 1, Len(memFiles.log))
           log == IF torn THEN Append(kept, Torn) ELSE kept
<1>3. /\ memFiles' = [memFiles EXCEPT !.log = log]
      /\ acked' = [i \in MemIds |-> IF \E k \in DOMAIN lost : lost[k] # Torn /\ i \in lost[k].ids
                                    THEN Unsure ELSE acked[i]]
  BY Zenon, <1>2
<1>4. /\ memFiles \in Files /\ Unset(memFiles) /\ acked \in [MemIds -> Recs \cup {Unsure}]
  BY Zenon DEF MemInv, MemTypeOK, StagesInv, Ready, Unset
<1>5. memFiles.log \in Seq(LogEntries \cup {Torn}) /\ memFiles.synced \in Nat
  BY Zenon, <1>4, FileFields
<1>6. n \in 0..Len(memFiles.log) /\ n \in Nat
  BY <1>5
<1>7. kept \in Seq(LogEntries \cup {Torn}) /\ Append(kept, Torn) \in Seq(LogEntries \cup {Torn})
  BY <1>5, <1>6
<1>8. \A k \in (n + 1)..Len(memFiles.log) : k - n \in DOMAIN lost /\ lost[k - n] = memFiles.log[k]
  BY <1>5, <1>6
<1>9. log \in {kept, Append(kept, Torn)} /\ log \in Seq(LogEntries \cup {Torn})
  BY Zenon, <1>7
<1> HIDE DEF lost, log
<1>10. Fields(memFiles', memFiles.snapshot, memFiles.next, memFiles.bak, memFiles.index, log)
  <2>1. 0 \in Nat
    OBVIOUS
  <2> QED BY Zenon, <1>3, <1>4, <1>9, <2>1, LogWritten
<1>11. Start(memFiles') = Start(memFiles) /\ memFiles' \in Files /\ Unset(memFiles')
  BY Zenon, <1>4, <1>10, StartIs DEF Fields, Unset
<1>12. ASSUME NEW i \in MemIds, acked'[i] # Unsure
       PROVE  /\ acked'[i] = acked[i]
              /\ \A k \in (n + 1)..Len(memFiles.log) :
                    memFiles.log[k] # Torn => i \notin memFiles.log[k].ids
  <2>1. ~\E k \in DOMAIN lost : lost[k] # Torn /\ i \in lost[k].ids
    BY <1>3, <1>12
  <2>2. acked'[i] = acked[i]
    BY <1>3, <2>1
  <2> QED BY Zenon, <1>8, <2>1, <2>2
<1>13. ASSUME Start(memFiles') # Torn, NEW i \in MemIds, acked'[i] # Unsure
       PROVE  Same(OnDisk(memFiles').records[i], acked'[i])
  <2>1. memFiles'.log \in {SubSeq(memFiles.log, 1, n), Append(SubSeq(memFiles.log, 1, n), Torn)}
    BY Zenon, <1>9, <1>10 DEF Fields
  <2>2. OnDisk(memFiles').records[i] = OnDisk(memFiles).records[i]
    <3>1. /\ Start(memFiles) # Torn
          /\ \A k \in (n + 1)..Len(memFiles.log) :
                memFiles.log[k] # Torn => i \notin memFiles.log[k].ids
      BY Zenon, <1>11, <1>12, <1>13
    <3>2. Start(memFiles') = Start(memFiles) /\ memFiles \in Files
      BY Zenon, <1>4, <1>11
    <3>3. CutAfter(memFiles, memFiles', n) /\ LostNothingOf(memFiles, n, i)
      BY Zenon, <1>6, <2>1, <3>1, <3>2 DEF CutAfter, LostNothingOf
    <3> QED BY Zenon, <3>3, CutKeeps
  <2>3. Same(OnDisk(memFiles).records[i], acked[i])
    BY Zenon, <1>11, <1>12, <1>13 DEF MemInv, AckedInv, Remembers
  <2> QED BY Zenon, <1>12, <1>13, <2>2, <2>3
<1>14. Start(memFiles') # Torn => Remembers(OnDisk(memFiles).records)'
  <2>1. \A a, b : Same(a, b)' <=> Same(a, b)
    BY Zenon, <1>1 DEF Same
  <2> QED BY Zenon, <1>13, <2>1 DEF Remembers
<1>15. acked' \in [MemIds -> Recs \cup {Unsure}] /\ unlogged' \in BOOLEAN
  BY <1>1, <1>3, <1>4
<1> QED BY Zenon, <1>1, <1>11, <1>14, <1>15, StoppedInv

\* What prepareSnapshotFiles leaves.
LEMMA PreparedFacts ==
    ASSUME MemTypeOK
    PROVE  /\ Prepared(memFiles) \in Files /\ Unset(Prepared(memFiles))
           /\ Start(Prepared(memFiles)) = Start(memFiles)
           /\ Prepared(memFiles).log = memFiles.log /\ Prepared(memFiles).index = memFiles.index
           /\ OnDisk(Prepared(memFiles)) = OnDisk(memFiles)
<1>1. memFiles \in Files
  BY Zenon DEF MemTypeOK
<1>2. Unset(Prepared(memFiles))
  BY Zenon, <1>1, PreparedFields DEF Unset
<1> QED BY Zenon, <1>1, <1>2, PreparedFields, PreparedStart, OnDiskSame

LEMMA OpenRefusedInv ==
    ASSUME MemInv, OpenRefused
    PROVE  MemInv'
<1>1. /\ memPhase = "down" /\ memPhase' = "refused" /\ memFiles' = Prepared(memFiles)
      /\ memRecords' = memRecords /\ memSeq' = memSeq /\ agenda' = agenda /\ memClock' = memClock
      /\ touched' = touched /\ acked' = acked /\ unlogged' = unlogged
  BY Zenon DEF OpenRefused, memVolatile, memGhosts
<1>2. ~Running /\ ~Running' /\ memPhase' # "opening" /\ memPhase' # "up" /\ memPhase' # "down"
  BY <1>1 DEF Running
<1>3. MemTypeOK /\ agenda' = <<>> /\ touched' = {}
  BY Zenon, <1>1, <1>2 DEF MemInv, StagesInv
<1>4. MemTypeOK'
  <2>1. memPhase' \in {"down", "up", "opening", "refused"}
    BY <1>1
  <2> QED BY Zenon, <1>1, <1>3, <2>1, PreparedFacts DEF MemTypeOK
<1>5. StagesInv'
  BY Zenon, <1>1, <1>2, <1>3, PreparedFacts, ReadyWhenIdle DEF StagesInv, At
<1>6. \A a, b : Same(a, b)' <=> Same(a, b)
  BY Zenon, <1>1 DEF Same
<1>7. Start(memFiles') # Torn => Remembers(OnDisk(memFiles).records)'
  BY Zenon, <1>1, <1>3, <1>6, PreparedFacts DEF MemInv, AckedInv, Remembers
<1>8. NumbersInv' /\ AckedInv' /\ ExactInv'
  BY Zenon, <1>2, <1>7 DEF NumbersInv, AckedInv, ExactInv
<1> QED BY Zenon, <1>4, <1>5, <1>8 DEF MemInv

\* Recovery reads what is on disk.
LEMMA OpenInv ==
    ASSUME MemInv, Open
    PROVE  MemInv'
<1> DEFINE files == Prepared(memFiles)
           content == OnDisk(memFiles)
           index == <<Do("open_index"), Do("write_index")>>
<1>1. memPhase = "down" /\ ~Undecodable(files)
  BY Zenon DEF Open
<1>2. MemTypeOK /\ memFiles \in Files
  BY Zenon DEF MemInv, MemTypeOK
<1>3. Recovered(files) = content /\ Start(memFiles) # Torn
  BY Zenon, <1>1, <1>2, RecoveredIsOnDisk
<1>4. /\ memFiles' = files /\ memRecords' = content.records /\ memSeq' = content.seq
      /\ agenda' = IF files.index # content THEN index ELSE <<>>
      /\ memPhase' = IF files.index # content THEN "opening" ELSE "up"
      /\ unlogged' = FALSE /\ memClock' = memClock /\ touched' = touched /\ acked' = acked
  BY Zenon, <1>3 DEF Open
<1>5. /\ content \in Contents /\ content.seq \in Nat /\ content.records \in [MemIds -> Recs]
  BY Zenon, <1>2, <1>3, OnDiskType
<1>6. /\ files \in Files /\ Unset(files) /\ Start(files) = Start(memFiles)
      /\ files.log = memFiles.log /\ OnDisk(files) = content
  BY Zenon, <1>2, PreparedFacts
<1>7. Numbered(files, content.seq)
  BY Zenon, <1>2, <1>3, <1>6, OnDiskNumber DEF Numbered
<1>8. ~Running /\ agenda = <<>> /\ touched = {}
  BY Zenon, <1>1 DEF Running, MemInv, StagesInv
<1> HIDE DEF files, content, index
<1>9. Content' = content
  <2>1. \A c \in Contents : c = [seq |-> c.seq, records |-> c.records]
    BY DEF Contents
  <2> QED BY Zenon, <1>4, <1>5, <2>1 DEF Content
<1>10. /\ Chained(index) /\ index # <<>> /\ Waits(index, "open_index")
  BY Zenon, Agendas DEF index, Waits
<1>11. /\ Chained(agenda') /\ ~At("append")' /\ Running' /\ memPhase' # "down"
       /\ memPhase' \in {"down", "up", "opening", "refused"}
       /\ agenda' = <<>> => memPhase' = "up" /\ files.index = content
  <2>1. CASE files.index # content
    BY <1>4, <1>10, <2>1 DEF At, Waits, Running
  <2>2. CASE files.index = content
    BY Zenon, <1>4, <2>2, Agendas DEF At, Running
  <2> QED BY Zenon, <2>1, <2>2
<1>12. MemTypeOK'
  <2>1. unlogged' \in BOOLEAN
    BY Zenon, <1>4
  <2> QED BY Zenon, <1>2, <1>4, <1>5, <1>6, <1>11, <2>1 DEF MemTypeOK
<1>13. StagesInv'
  <2>1. \A step \in {"rotate", "promote", "drop_bak", "truncate_log", "maybe_compact"} :
           ~Waits(agenda', step)
    BY <1>4, <1>10 DEF Waits
  <2>2. Ready(memFiles', agenda', Content')
    BY Zenon, <1>4, <1>6, <2>1 DEF Ready, Unset
  <2>3. agenda' = <<>> => memPhase' # "opening"
    BY <1>11
  <2> QED BY Zenon, <1>4, <1>8, <1>11, <2>2, <2>3 DEF StagesInv
<1>14. NumbersInv'
  BY Zenon, <1>4, <1>7, <1>11 DEF NumbersInv
<1>15. AckedInv'
  <2>1. \A a, b : Same(a, b)' <=> Same(a, b)
    BY Zenon, <1>4 DEF Same
  <2>2. Remembers(content.records)
    BY Zenon, <1>3 DEF MemInv, AckedInv, content
  <2>3. Remembers(memRecords)' /\ Remembers(OnDisk(memFiles).records)'
    BY Zenon, <1>4, <1>6, <2>1, <2>2 DEF Remembers
  <2>4. \A i \in touched' : FALSE
    BY <1>4, <1>8
  <2> QED BY Zenon, <2>3, <2>4 DEF AckedInv
<1>16. ExactInv'
  BY Zenon, <1>4, <1>6, <1>9, <1>11 DEF ExactInv
<1> QED BY Zenon, <1>12, <1>13, <1>14, <1>15, <1>16 DEF MemInv

\* Time: what is seen alike stays so.
LEMMA MemTickInv ==
    ASSUME MemInv, MemTick
    PROVE  MemInv'
<1>1. /\ memRecords' = memRecords /\ memSeq' = memSeq /\ memFiles' = memFiles
      /\ memPhase' = memPhase /\ agenda' = agenda /\ touched' = touched /\ acked' = acked
      /\ unlogged' = unlogged /\ memClock' = memClock + 1 /\ agenda = <<>>
  BY Zenon DEF MemTick, memVolatile, memGhosts
<1>2. /\ MemTypeOK /\ memClock \in Nat /\ memFiles \in Files /\ memRecords \in [MemIds -> Recs]
      /\ acked \in [MemIds -> Recs \cup {Unsure}] /\ touched = {}
  BY Zenon, <1>1 DEF MemInv, MemTypeOK, StagesInv
<1>3. memClock' \in Nat
  BY <1>1, <1>2
<1>4. Content' = Content /\ ~At("append") /\ ~At("append")' /\ (Running' <=> Running)
  BY Zenon, <1>1 DEF Content, At, Running
<1>5. \A a, b \in Recs : Same(a, b) => Same(a, b)'
  <2> SUFFICES ASSUME NEW a \in Recs, NEW b \in Recs, Seen(a, memClock) = Seen(b, memClock)
               PROVE  Seen(a, memClock + 1) = Seen(b, memClock + 1)
    BY Zenon, <1>1 DEF Same
  <2> QED BY <1>2, SeenTwice
<1>6. ASSUME NEW recs \in [MemIds -> Recs], Remembers(recs), NEW i \in MemIds, acked[i] # Unsure
      PROVE  Same(recs[i], acked[i])'
  <2>1. recs[i] \in Recs /\ acked[i] \in Recs
    BY Zenon, <1>2, <1>6
  <2>2. Same(recs[i], acked[i])
    BY Zenon, <1>6 DEF Remembers
  <2> QED BY Zenon, <1>1, <1>5, <2>1, <2>2
<1>7. MemTypeOK'
  BY Zenon, <1>1, <1>2, <1>3 DEF MemTypeOK
<1>8. StagesInv' /\ NumbersInv' /\ ExactInv'
  BY Zenon, <1>1, <1>4 DEF MemInv, StagesInv, NumbersInv, ExactInv
<1>9. AckedInv'
  <2>1. Running => Remembers(memRecords)'
    BY Zenon, <1>1, <1>2, <1>6 DEF MemInv, AckedInv, Remembers
  <2>2. Start(memFiles') # Torn => Remembers(OnDisk(memFiles).records)'
    BY Zenon, <1>1, <1>2, <1>6, OnDiskType DEF MemInv, AckedInv, Remembers
  <2>3. \A i \in touched' : FALSE
    BY Zenon, <1>1, <1>2
  <2> QED BY Zenon, <1>4, <2>1, <2>2, <2>3 DEF AckedInv
<1> QED BY Zenon, <1>7, <1>8, <1>9 DEF MemInv

-----------------------------------------------------------------------------
(* The theorems *)

LEMMA MemInitInv == MemInit => MemInv
<1> SUFFICES ASSUME MemInit PROVE MemInv
  OBVIOUS
<1>1. /\ memRecords = NoRecords /\ memSeq = 0 /\ memPhase = "down" /\ agenda = <<>>
      /\ memClock = 0 /\ touched = {} /\ acked = NoRecords /\ unlogged = FALSE
      /\ memFiles = [snapshot |-> NoFile, next |-> NoFile, bak |-> NoFile, index |-> NoFile,
                     log |-> <<>>, synced |-> 0]
  BY Zenon DEF MemInit
<1>2. /\ memFiles \in Files /\ memFiles.snapshot = NoFile /\ memFiles.next = NoFile
      /\ memFiles.bak = NoFile /\ memFiles.index = NoFile /\ memFiles.log = <<>>
  BY <1>1 DEF Files, FileContents
<1>3. NoRecords \in [MemIds -> Recs] /\ NoRecords \in [MemIds -> Recs \cup {Unsure}]
  BY Zenon DEF NoRecords, Recs
<1>4. MemTypeOK
  <2>1. memSeq \in Nat /\ memClock \in Nat /\ touched \subseteq MemIds
    BY <1>1
  <2>2. memPhase \in {"down", "up", "opening", "refused"} /\ unlogged \in BOOLEAN
    BY Zenon, <1>1
  <2> QED BY ZenonT(60), <1>1, <1>2, <1>3, <2>1, <2>2, Agendas DEF MemTypeOK
<1>5. ~Running /\ memPhase # "opening" /\ memPhase # "up" /\ ~At("append")
  BY Zenon, <1>1 DEF Running, At
<1>6. StagesInv
  BY Zenon, <1>1, <1>2, <1>5, ReadyWhenIdle DEF StagesInv, Unset
<1>7. Start(memFiles) = Empty
  BY Zenon, <1>2, StartIs
<1>8. ASSUME Start(memFiles) # Torn PROVE OnDisk(memFiles) = Empty
  <2>1. \A k \in 1..Len(memFiles.log) : FALSE
    BY <1>2
  <2> QED BY Zenon, <1>2, <1>7, <1>8, <2>1, OnDiskCovered
<1>9. Empty.records = NoRecords
  BY DEF Empty
<1>10. AckedInv
  BY Zenon, <1>1, <1>5, <1>8, <1>9 DEF AckedInv, Remembers, Same
<1>11. NumbersInv /\ ExactInv
  BY Zenon, <1>2, <1>5 DEF NumbersInv, ExactInv
<1> QED BY Zenon, <1>4, <1>6, <1>10, <1>11 DEF MemInv

LEMMA MemStutter ==
    ASSUME MemInv, UNCHANGED memVars
    PROVE  MemInv'
<1>1. /\ memRecords' = memRecords /\ memSeq' = memSeq /\ memFiles' = memFiles
      /\ memPhase' = memPhase /\ agenda' = agenda /\ touched' = touched /\ acked' = acked
      /\ unlogged' = unlogged /\ memClock' = memClock
  BY Zenon DEF memVars, memVolatile, memGhosts
<1>2. /\ Content' = Content /\ (Running' <=> Running) /\ (At("append")' <=> At("append"))
      /\ \A a, b : Same(a, b)' <=> Same(a, b)
  BY Zenon, <1>1 DEF Content, Running, At, Same
<1>3. MemTypeOK' /\ StagesInv' /\ NumbersInv' /\ ExactInv'
  BY Zenon, <1>1, <1>2 DEF MemInv, MemTypeOK, StagesInv, NumbersInv, ExactInv
<1>4. AckedInv'
  BY Zenon, <1>1, <1>2 DEF MemInv, AckedInv, Remembers
<1> QED BY Zenon, <1>3, <1>4 DEF MemInv

LEMMA FileStepsInv ==
    ASSUME MemInv, FileSteps
    PROVE  MemInv'
BY ZenonT(60), AppendEntryInv, TrimRecordsInv, NothingToTrimInv, MaybeCompactInv, OpenIndexInv,
   WriteIndexInv, CreateNextInv, WriteNextInv, RotateInv, PromoteInv, DropBackupInv,
   TruncateLogInv
   DEF FileSteps

LEMMA MemNextInv ==
    ASSUME MemInv, [MemNext]_memVars
    PROVE  MemInv'
<1>1. CASE MemNext
  BY ZenonT(60), <1>1, UpsertInv, UpsertRefusedInv, DeleteInv, CompactInv, CloseEngineInv,
     FileStepsInv, AppendToClosedLogInv, StepFailsInv, CrashInv, PowerLossInv, OpenInv,
     OpenRefusedInv, MemTickInv
     DEF MemNext
<1>2. CASE UNCHANGED memVars
  BY Zenon, <1>2, MemStutter
<1> QED BY Zenon, <1>1, <1>2

\* The invariant of the engine.
LEMMA MemInvariant == MemSpec => []MemInv
<1>1. MemInit => MemInv
  BY MemInitInv
<1>2. MemInv /\ [MemNext]_memVars => MemInv'
  BY MemNextInv
<1> QED BY <1>1, <1>2, PTL DEF MemSpec

\* What an operation acknowledged is what Query shows, whatever crashes, power
\* losses and failed writes came between: for any ids, any batch size of the
\* fsyncs, any thresholds of the compaction and any retention and TTL.
THEOREM AcknowledgedIsKept == MemSpec => []AcknowledgedRecordsSurvive
<1>1. MemInv => AcknowledgedRecordsSurvive
  <2> SUFFICES ASSUME MemInv, memPhase = "up", NEW i \in MemIds, acked[i] # Unsure
               PROVE  Visible(memRecords)[i] = Visible(acked)[i]
    BY Zenon DEF AcknowledgedRecordsSurvive
  <2>1. Running
    BY DEF Running
  <2>2. Same(memRecords[i], acked[i])
    BY Zenon, <2>1 DEF MemInv, AckedInv, Remembers
  <2>3. \A recs : Visible(recs)[i] = Seen(recs[i], memClock)
    BY Zenon DEF Visible, Purged, Expired, Seen
  <2> QED BY Zenon, <2>2, <2>3 DEF Same
<1> QED BY <1>1, MemInvariant, PTL

\* recoverIndex finds the index different from what it recovered only after an
\* operation that was cut short, or a change that the log was not told of.
THEOREM DriftHasACause == MemSpec => DriftIsExplained
<1>1. MemInv /\ [MemNext]_memVars => [Open /\ memDrift' => unlogged]_memVars
  <2> SUFFICES ASSUME MemInv, Open, memDrift', ~unlogged PROVE FALSE
    BY Zenon
  <2>1. memFiles \in Files /\ memPhase = "down" /\ ~Undecodable(Prepared(memFiles))
    BY Zenon DEF MemInv, MemTypeOK, Open
  <2>2. /\ Start(memFiles) # Torn /\ Recovered(Prepared(memFiles)) = OnDisk(memFiles)
        /\ memFiles.index # Torn /\ Prepared(memFiles).index = memFiles.index
    BY Zenon, <2>1, RecoveredIsOnDisk, PreparedFields
  <2>3. memFiles.index # NoFile /\ memFiles.index # OnDisk(memFiles)
    BY Zenon, <2>2 DEF Open
  <2> QED BY Zenon, <2>1, <2>2, <2>3 DEF MemInv, ExactInv
<1> QED BY <1>1, MemInvariant, PTL DEF MemSpec, DriftIsExplained
=============================================================================
