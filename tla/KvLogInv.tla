------------------------------- MODULE KvLogInv ------------------------------
(***************************************************************************)
(* The inductive invariant behind the properties of KvLog.  GenBounds is   *)
(* what type correctness needs and holds under every kind of I/O error;    *)
(* IndexIInv adds what the correctness of the index needs and holds unless *)
(* creating a file fails; BufferIInv adds what is in the buffers and holds *)
(* unless a flush fails as well; IInv adds crash safety and holds as long  *)
(* as only serialising a command may fail.  Balanced is the accounting of  *)
(* bytes behind UncompactedExact.                                          *)
(***************************************************************************)
EXTENDS KvLog

Compacting == pc \in {"newcomp", "copy", "safepoint", "unlink"}

\* The generation numbers in use, and that a file never holds more commands
\* than were written to it.
GenBounds ==
    /\ mode # "up" => pc = "idle"
    /\ mode = "up" => /\ currentGen \in Gens
                      /\ wgen \in gens
                      /\ wgen <= currentGen
    /\ pc \in {"flush", "index", "newlog"} => currentGen + 2 <= MaxGen
    /\ Compacting => currentGen >= 3 /\ wgen = currentGen
    /\ pc = "unlink" => \A g \in stale : g < wgen
    /\ mode = "down" => cursor = NoPos
    /\ mode = "load" => /\ \A g \in gens : g < MaxGen
                        /\ cursor.gen \in gens \cup {0}
    /\ \A g \in Gens : vis[g] <= Len(log[g])

TypeInv == TypeOK /\ GenBounds

\* A closed store: nothing is buffered and nothing is left in memory.
ClosedInv ==
    mode # "up" =>
        /\ safePoint = 0
        /\ \A g \in Gens : vis[g] = Len(log[g]) /\ (g \notin gens => log[g] = <<>>)
        /\ mode = "down" => index = [k \in Keys |-> NoPos]

\* load stands at a command of a log file or just after its last one.
CursorInv ==
    mode = "load" =>
        IF cursor.gen = 0 THEN cursor = NoPos
        ELSE cursor.pos \in 1..(Len(log[cursor.gen]) + 1)

\* An open store: the writer appends to the newest generation, and the files
\* that compaction will create are still empty.
OpenInv ==
    mode = "up" =>
        /\ wgen = currentGen
        /\ \A g \in gens : g <= currentGen
        /\ safePoint <= currentGen
        /\ \A g \in Gens : g > currentGen => log[g] = <<>>
        /\ Compacting => /\ log[currentGen] = <<>>
                         /\ safePoint <= CompactionGen
        /\ pc = "newcomp" => CompactionGen \notin gens /\ log[CompactionGen] = <<>>
        /\ pc \in {"copy", "safepoint", "unlink"} => CompactionGen \in gens

\* The command being written is at the end of the writer's file.
WrittenInv ==
    pc \in {"flush", "index"} => Len(log[wgen]) > 0 /\ Cmd \in Command

\* How far the loops of compact() have come.
ProgressInv ==
    /\ pc = "copy" =>
          \A k \in Keys : index[k] # NoPos => k \in todo \/ index[k].gen = CompactionGen
    /\ pc \in {"safepoint", "unlink"} =>
          \A k \in Keys : index[k] # NoPos => index[k].gen = CompactionGen
    /\ pc = "unlink" => /\ safePoint = CompactionGen
                        /\ \A g \in stale : g < CompactionGen

\* The inductive invariant behind IndexInLog and NoIndexBelowSafePoint.
IndexIInv ==
    /\ TypeInv
    /\ ClosedInv
    /\ CursorInv
    /\ OpenInv
    /\ WrittenInv
    /\ ProgressInv
    /\ IndexInLog
    /\ NoIndexBelowSafePoint

\* What may still be in a buffer: a torn command, the command being written,
\* or the copies of a running compaction.
BufferInv ==
    /\ \A g \in Gens : \A i \in (vis[g] + 1)..Len(log[g]) :
          \/ log[g][i].op = "torn"
          \/ pc = "flush" /\ g = wgen /\ i = Len(log[g])
          \/ pc = "copy" /\ g = CompactionGen
    /\ pc = "index" => vis[wgen] = Len(log[wgen])

\* Every index entry names a command that has reached its file, or a copy of
\* the running compaction.
VisibleInv ==
    mode # "down" =>
        \A k \in Keys : index[k] # NoPos =>
            \/ index[k].pos <= vis[index[k].gen]
            \/ pc = "copy" /\ index[k].gen = CompactionGen

\* The compaction file holds exactly the commands the index points to there.
CopyInv ==
    /\ pc = "copy" =>
          \A k \in todo : index[k] # NoPos /\ index[k].gen < CompactionGen
    /\ pc \in {"copy", "safepoint"} =>
          \A i \in 1..Len(log[CompactionGen]) :
              LET k == log[CompactionGen][i].key
              IN  k \in Keys /\ index[k] = [gen |-> CompactionGen, pos |-> i]

\* The inductive invariant behind SafePointSuffices and Durable, but for what
\* they say themselves and for StaleInv.
BufferIInv ==
    /\ IndexIInv
    /\ BufferInv
    /\ VisibleInv
    /\ CopyInv

\* The files still to be deleted are all the older ones.
StaleInv ==
    pc = "unlink" => \A g \in gens : g < CompactionGen => g \in stale

\* The inductive invariant behind crash safety.
IInv ==
    /\ BufferIInv
    /\ StaleInv
    /\ Durable
-----------------------------------------------------------------------------
(* Counting bytes.                                                         *)

\* f[1] + ... + f[n].
SumTo(f, n) ==
    LET s[i \in 0..n] == IF i = 0 THEN 0 ELSE s[i - 1] + f[i] IN s[n]

\* The size of the first n commands of s.
BytesOf(s, n) == SumTo([i \in 1..n |-> CmdLen(s[i])], n)

FileBytes(g) == BytesOf(log[g], Len(log[g]))

DiskBytes == SumTo([g \in Gens |-> IF g \in gens THEN FileBytes(g) ELSE 0], MaxGen)

LiveKeys == {k \in Keys : index[k] # NoPos}

LiveBytes == SetLen * Cardinality(LiveKeys)

\* "uncompacted: the number of bytes representing "stale" commands that could
\* be deleted during a compaction": between two calls it is exactly the size of
\* the files minus the size of the live commands, across overwrites, removes,
\* compactions and restarts.
UncompactedExact ==
    mode = "up" /\ pc = "idle" => uncompacted = DiskBytes - LiveBytes

\* What load has read of file g.
LoadedBytes(g) ==
    IF g \notin gens \/ g > cursor.gen THEN 0
    ELSE IF g = cursor.gen THEN BytesOf(log[g], cursor.pos - 1) ELSE FileBytes(g)

\* The bytes that are accounted for at every point of open, of a call and of a
\* compaction, whose file holds one command for each key copied so far.
Balanced ==
    /\ IsFiniteSet(LiveKeys)
    /\ mode = "down" => uncompacted = 0
    /\ mode = "load" =>
          uncompacted + LiveBytes = SumTo([g \in Gens |-> LoadedBytes(g)], MaxGen)
    /\ mode = "up" /\ pc = "idle" => uncompacted + LiveBytes = DiskBytes
    /\ pc \in {"flush", "index"} => uncompacted + LiveBytes + CmdLen(Cmd) = DiskBytes
    /\ pc = "copy" => FileBytes(CompactionGen) = SetLen * Cardinality(LiveKeys \ todo)
    /\ pc \in {"safepoint", "unlink"} => FileBytes(CompactionGen) = LiveBytes
=============================================================================
