------------------------------- MODULE Tailer -------------------------------
(***************************************************************************)
(* tailer.py on the log directory of one decoy: it polls every file whose  *)
(* name matches *.json*, publishes the complete lines past the cursor it   *)
(* keeps for that path, and checkpoints the cursor after the XADD.         *)
(*                                                                         *)
(* The decoy appends to path 0.  Rotation renames that file to the next    *)
(* path and then opens a new one; both are separate steps, and the tailer  *)
(* may look in between.  A byte offset counts half lines: what is written  *)
(* of a line before its newline, and the newline.                          *)
(***************************************************************************)
EXTENDS Integers, FiniteSets, Sequences

CONSTANTS
    Junk,            \* lines that no normaliser makes an event of
    MaxLines,        \* bound: lines the decoy writes
    MaxRotations,    \* bound: times the log is rotated
    MaxTruncations,  \* bound: times it is truncated in place
    MaxCrashes       \* bound: times the tailer dies or fails to publish

ASSUME TailerAssumption ==
    /\ MaxLines \in Nat
    /\ MaxRotations \in Nat
    /\ MaxTruncations \in Nat
    /\ MaxCrashes \in Nat
    /\ Junk \subseteq 1 .. MaxLines

(* In the order of sorted(directory.glob(...)): the live log, then the       *)
(* rotated ones by date.                                                     *)
Paths == 0 .. MaxRotations
Lines == 1 .. MaxLines

VARIABLES
    disk,        \* the file at each path
    written,     \* lines the decoy has completed, numbered in order
    truncations, \* truncations so far
    saved,       \* the checkpoint of each path
    cursors,     \* the cursors in memory
    pc,          \* where the tailer is
    queue,       \* paths of this poll still to look at
    pending,     \* lines read and not yet published
    published,   \* the lines whose events were added to the stream, in order
    crashes      \* crashes so far

files == <<disk, written, truncations>>
vars == <<disk, written, truncations, saved, cursors, pc, queue, pending,
          published, crashes>>

Absent == [inode |-> 0, lines |-> <<>>, half |-> FALSE]
NoCursor == [offset |-> 0, inode |-> 0]

Exists(p) == disk[p] # Absent
Rotations == Cardinality({p \in Paths \ {0} : Exists(p)})

(* st_size, and the end of the last complete line. *)
Size(f) == 2 * Len(f.lines) + (IF f.half THEN 1 ELSE 0)

(* Mutant of LastNewline: the half-written record is consumed too. *)
EndOfFile(f) == Size(f)

LastNewline(f) == 2 * Len(f.lines)

File == [inode : 0 .. MaxRotations + 1, lines : Seq(Lines), half : BOOLEAN]
Cursor == [offset : 0 .. 2 * MaxLines, inode : 0 .. MaxRotations + 1]

TypeOK ==
    /\ disk \in [Paths -> File]
    /\ written \in 0 .. MaxLines
    /\ truncations \in 0 .. MaxTruncations
    /\ saved \in [Paths -> Cursor]
    /\ cursors \in [Paths -> Cursor]
    /\ pc \in {"down", "scan", "read", "xadd", "save"}
    /\ queue \subseteq Paths
    /\ pending \in Seq(Lines)
    /\ published \in Seq(Lines)
    /\ crashes \in 0 .. MaxCrashes

Init ==
    /\ disk = [p \in Paths |-> IF p = 0 THEN [Absent EXCEPT !.inode = 1] ELSE Absent]
    /\ written = 0
    /\ truncations = 0
    /\ saved = [p \in Paths |-> NoCursor]
    /\ cursors = [p \in Paths |-> NoCursor]
    /\ pc = "down"
    /\ queue = {}
    /\ pending = <<>>
    /\ published = <<>>
    /\ crashes = 0

-----------------------------------------------------------------------------
(* The decoy and its log file. *)
tailer == <<saved, cursors, pc, queue, pending, published, crashes>>

BeginLine ==
    /\ Exists(0) /\ ~disk[0].half
    /\ written < MaxLines
    /\ disk' = [disk EXCEPT ![0].half = TRUE]
    /\ UNCHANGED <<written, truncations, tailer>>

EndLine ==
    /\ disk[0].half
    /\ written' = written + 1
    /\ disk' = [disk EXCEPT ![0].lines = Append(@, written + 1), ![0].half = FALSE]
    /\ UNCHANGED <<truncations, tailer>>

Rename ==
    /\ Exists(0) /\ ~disk[0].half
    /\ Rotations < MaxRotations
    /\ disk' = [disk EXCEPT ![Rotations + 1] = disk[0], ![0] = Absent]
    /\ UNCHANGED <<written, truncations, tailer>>

Reopen ==
    /\ ~Exists(0)
    /\ disk' = [disk EXCEPT ![0] = [Absent EXCEPT !.inode = Rotations + 1]]
    /\ UNCHANGED <<written, truncations, tailer>>

Truncate ==
    /\ Exists(0) /\ ~disk[0].half
    /\ truncations < MaxTruncations
    /\ truncations' = truncations + 1
    /\ disk' = [disk EXCEPT ![0].lines = <<>>]
    /\ UNCHANGED <<written, tailer>>

-----------------------------------------------------------------------------
(* A new process has the checkpoints for cursors (Cursor._load). *)
Start ==
    /\ pc = "down"
    /\ cursors' = saved
    /\ queue' = {}
    /\ pending' = <<>>
    /\ pc' = "scan"
    /\ UNCHANGED <<files, saved, published, crashes>>

(* discover, at the head of each poll. *)
Poll ==
    /\ pc = "scan" /\ queue = {}
    /\ queue' = {p \in Paths : Exists(p)}
    /\ UNCHANGED <<files, saved, cursors, pc, pending, published, crashes>>

Path == CHOOSE p \in queue : \A q \in queue : p <= q

NextPath ==
    /\ queue' = queue \ {Path}
    /\ pending' = <<>>
    /\ pc' = "scan"

(* Mutant of Checked: a file at its offset counts as shrunk. *)
CheckedOffByOne(c, f) ==
    [offset |-> IF (c.inode # 0 /\ f.inode # c.inode) \/ Size(f) <= c.offset
                THEN 0 ELSE c.offset,
     inode |-> f.inode]

(* What path.stat() says of a cursor: the file is another one, or it shrank  *)
(* beneath the offset.                                                       *)
Checked(c, f) ==
    [offset |-> IF (c.inode # 0 /\ f.inode # c.inode) \/ Size(f) < c.offset
                THEN 0 ELSE c.offset,
     inode |-> f.inode]

(* The first half of read_new_lines. *)
StatMissing ==
    /\ pc = "scan" /\ queue # {}
    /\ ~Exists(Path)
    /\ NextPath
    /\ UNCHANGED <<files, saved, cursors, published, crashes>>

Stat ==
    /\ pc = "scan" /\ queue # {}
    /\ Exists(Path)
    /\ cursors' = [cursors EXCEPT ![Path] = Checked(@, disk[Path])]
    /\ \/ /\ Size(disk[Path]) = cursors'[Path].offset
          /\ NextPath
       \/ /\ Size(disk[Path]) # cursors'[Path].offset
          /\ pc' = "read"
          /\ UNCHANGED <<queue, pending>>
    /\ UNCHANGED <<files, saved, published, crashes>>

(* What the loop over lines[first + 1], lines[first + 2] ... publishes.      *)
EventsAfter(lines, first) ==
    LET Batched[n \in 0 .. Len(lines)] ==
            IF n <= first THEN <<>>
            ELSE IF lines[n] \in Junk THEN Batched[n - 1]
            ELSE Append(Batched[n - 1], lines[n])
    IN  Batched[Len(lines)]

(* Mutant of LinesFrom: the newest line first. *)
LinesReversed(f, offset) ==
    LET new == EventsAfter(f.lines, (offset + 1) \div 2)
    IN  [n \in 1 .. Len(new) |-> new[Len(new) + 1 - n]]

(* The events in the complete lines from an offset on; a line that the       *)
(* offset cuts in two is not JSON any more.                                  *)
LinesFrom(f, offset) == EventsAfter(f.lines, (offset + 1) \div 2)

(* Mutant of Advanced: the whole file's length is added each time. *)
AdvancedTwice(c, f) ==
    IF LastNewline(f) > c.offset THEN [c EXCEPT !.offset = @ + LastNewline(f)] ELSE c

Advanced(c, f) ==
    IF LastNewline(f) > c.offset THEN [c EXCEPT !.offset = LastNewline(f)] ELSE c

(* Mutant of Read: the checkpoint is saved as soon as the lines are read. *)
ReadAndSave ==
    /\ pc = "read"
    /\ Exists(Path)
    /\ LET lines == LinesFrom(disk[Path], cursors[Path].offset)
       IN  /\ cursors' = [cursors EXCEPT ![Path] = Advanced(@, disk[Path])]
           /\ saved' = [saved EXCEPT ![Path] = cursors'[Path]]
           /\ \/ /\ lines = <<>>
                 /\ NextPath
              \/ /\ lines # <<>>
                 /\ pending' = lines
                 /\ pc' = "xadd"
                 /\ UNCHANGED queue
    /\ UNCHANGED <<files, published, crashes>>

(* The second half opens the path again, whatever is there by now.  Lines    *)
(* that are not events advance the cursor in memory only.                    *)
Read ==
    /\ pc = "read"
    /\ Exists(Path)
    /\ LET lines == LinesFrom(disk[Path], cursors[Path].offset)
       IN  /\ cursors' = [cursors EXCEPT ![Path] = Advanced(@, disk[Path])]
           /\ \/ /\ lines = <<>>
                 /\ NextPath
              \/ /\ lines # <<>>
                 /\ pending' = lines
                 /\ pc' = "xadd"
                 /\ UNCHANGED queue
    /\ UNCHANGED <<files, saved, published, crashes>>

(* FileNotFoundError out of path.open is not caught: the process ends. *)
OpenFails ==
    /\ pc = "read"
    /\ ~Exists(Path)
    /\ pc' = "down"
    /\ UNCHANGED <<files, saved, cursors, queue, pending, published, crashes>>

Add(lines) == published' = published \o lines

(* pipe.execute() of the pipeline of XADDs. *)
XAdd ==
    /\ pc = "xadd"
    /\ Add(pending)
    /\ pc' = "save"
    /\ UNCHANGED <<files, saved, cursors, queue, pending, crashes>>

(* The pipeline is no transaction: Redis may have served a part of it when   *)
(* the call raises, and nothing catches that.                                *)
XAddFails ==
    /\ pc = "xadd"
    /\ crashes < MaxCrashes
    /\ crashes' = crashes + 1
    /\ \E n \in 0 .. Len(pending) : Add(SubSeq(pending, 1, n))
    /\ pc' = "down"
    /\ UNCHANGED <<files, saved, cursors, queue, pending>>

(* Cursor.save replaces the checkpoint in one rename. *)
Save ==
    /\ pc = "save"
    /\ saved' = [saved EXCEPT ![Path] = cursors[Path]]
    /\ NextPath
    /\ UNCHANGED <<files, cursors, published, crashes>>

Kill ==
    /\ pc # "down"
    /\ crashes < MaxCrashes
    /\ crashes' = crashes + 1
    /\ pc' = "down"
    /\ UNCHANGED <<files, saved, cursors, queue, pending, published>>

-----------------------------------------------------------------------------
Process ==
    \/ Start \/ Poll \/ StatMissing \/ Stat \/ Read \/ OpenFails \/ XAdd \/ Save

Decoy == BeginLine \/ EndLine \/ Rename \/ Reopen \/ Truncate

Next == Process \/ Decoy \/ XAddFails \/ Kill

(* The tailer polls for ever and Docker restarts it. *)
Spec == Init /\ [][Next]_vars /\ WF_vars(Process)

-----------------------------------------------------------------------------
Positions == 1 .. Len(published)

IsPublished(l) == \E n \in Positions : published[n] = l

Repetitions(l) == Cardinality({n \in Positions : published[n] = l})

(* The checkpoint never runs ahead of the stream: if the tailer died now,    *)
(* every event below the offset its successor would resume from is in the    *)
(* stream, for every file and however it was renamed ("a crash re-reads      *)
(* rather than loses", tailer.py:165-167).  Nothing is said of a log that    *)
(* was truncated: it may grow past the offset again between two polls.       *)
RestartLosesNothing ==
    truncations = 0 =>
        \A p \in Paths : Exists(p) =>
            \A n \in 1 .. Checked(saved[p], disk[p]).offset \div 2 :
                disk[p].lines[n] \in Junk \/ IsPublished(disk[p].lines[n])

(* A line is published once, and once more for every crash and for every     *)
(* rotation at most: its file is read again under the new name, and, if it   *)
(* took another's place between path.stat() and path.open(), again as the    *)
(* new file it is (tailer.py:72-98).                                         *)
RepetitionIsBounded == \A l \in Lines : Repetitions(l) <= 1 + crashes + Rotations

(* "resumes where it stopped instead of replaying the file"                  *)
(* (tailer.py:6-7): a line is published twice only if the tailer crashed.    *)
NoReplay == \A l \in Lines : Repetitions(l) <= 1 + crashes

(* While the log keeps its name, the stream gets new lines in the order in   *)
(* which the decoy wrote them: an older line after a newer one is a          *)
(* repetition (tailer.py:93-99, 142-163).  A log that was truncated may have *)
(* grown past the offset of one process and not that of its successor, which *)
(* then reads the lines between them.                                        *)
NewLinesInOrder ==
    (Rotations = 0 /\ (truncations = 0 \/ crashes = 0)) =>
        \A m, n \in Positions :
            (m < n /\ published[n] < published[m]) =>
                \E k \in 1 .. m : published[k] = published[n]

(* Every event the decoy logs reaches the stream, through crashes of the     *)
(* tailer and rotations of the log, unless the log is truncated.             *)
EveryLinePublished ==
    \A l \in Lines \ Junk :
        (l <= written) ~> (IsPublished(l) \/ truncations > 0)
=============================================================================
