---------------------------- MODULE TailerProofs ----------------------------
(***************************************************************************)
(* Theorems about Tailer, for every value of its constants: the state is   *)
(* well typed, the checkpoint never runs ahead of the stream, a line is    *)
(* repeated no more often than the log was rotated or the tailer crashed,  *)
(* and new lines come in order.                                            *)
(*                                                                         *)
(* Base says how files, cursors and lines fit together.  On it rest        *)
(* KeptInv, of what a cursor has passed; DebtPaid, which counts with the   *)
(* repetitions of a line those still to come; and InSequence and           *)
(* NoneSkipped, of the order of the stream.                                *)
(***************************************************************************)
EXTENDS Tailer, TLAPS, FiniteSetTheorems, SequenceTheorems, WellFoundedInduction

-----------------------------------------------------------------------------
(* A set of numbers has a least one. *)
LEMMA LeastExists ==
    ASSUME NEW S \in SUBSET Nat, S # {}
    PROVE  \E i \in S : \A j \in S : i <= j
  <1>1. PICK x \in S : \A y \in S : ~ (<<y, x>> \in OpToRel(<, Nat))
    BY NatLessThanWellFounded, WFMin, Zenon
  <1>2. \A y \in S : ~ (y < x)
    BY <1>1 DEF OpToRel
  <1> QED BY <1>2

(* The loop over the lines of a file, as far as line n, given what it has    *)
(* batched before.                                                           *)
BatchedAt(lines, first, g, n) ==
    IF n <= first THEN <<>>
    ELSE IF lines[n] \in Junk THEN g[n - 1]
    ELSE Append(g[n - 1], lines[n])

Batches(lines, first, k, g) == g = [n \in 0 .. k |-> BatchedAt(lines, first, g, n)]

LEMMA BatchesExist ==
    ASSUME NEW lines \in Seq(Lines), NEW first \in Nat
    PROVE  \E g : Batches(lines, first, Len(lines), g)
  <1>1. Len(lines) \in Nat
    BY LenProperties
  <1> DEFINE Bad == {k \in 0 .. Len(lines) : ~ \E g : Batches(lines, first, k, g)}
  <1>2. SUFFICES ASSUME Bad # {} PROVE FALSE
    BY <1>1
  <1>3. PICK k \in Bad : \A j \in Bad : k <= j
    <2>1. Bad \in SUBSET Nat /\ Bad # {}
      BY <1>1, <1>2
    <2> HIDE DEF Bad
    <2> QED BY <2>1, LeastExists
  <1>4. CASE k = 0
    <2>1. Batches(lines, first, 0, [n \in 0 .. 0 |-> <<>>])
      BY DEF Batches, BatchedAt
    <2> QED BY <1>4, <2>1, <1>3
  <1>5. CASE k # 0
    <2>1. k \in 1 .. Len(lines) /\ k - 1 \in 0 .. Len(lines) /\ k - 1 \notin Bad
      BY <1>1, <1>3, <1>5
    <2>2. PICK g : Batches(lines, first, k - 1, g)
      BY <2>1
    <2> DEFINE h == [n \in 0 .. k |-> IF n < k THEN g[n] ELSE BatchedAt(lines, first, g, k)]
    <2>3. ASSUME NEW n \in 0 .. k PROVE h[n] = BatchedAt(lines, first, h, n)
      <3>1. CASE n < k
        <4>1. h[n] = g[n] /\ n \in 0 .. k - 1
          BY <2>1, <3>1
        <4>3. g[n] = BatchedAt(lines, first, g, n)
          <5> HIDE DEF h
          <5> QED BY <2>2, <4>1 DEF Batches
        <4>2. n > first => h[n - 1] = g[n - 1]
          BY <2>1, <3>1
        <4> QED BY <2>1, <4>1, <4>2, <4>3 DEF BatchedAt
      <3>2. CASE n = k
        <4>1. h[n] = BatchedAt(lines, first, g, k)
          BY <2>1, <3>2
        <4>2. h[k - 1] = g[k - 1]
          BY <2>1
        <4> QED BY <3>2, <4>1, <4>2 DEF BatchedAt
      <3> QED BY <2>1, <3>1, <3>2
    <2>4. DOMAIN h = 0 .. k /\ h = [n \in 0 .. k |-> h[n]]
      OBVIOUS
    <2> HIDE DEF h
    <2>5. Batches(lines, first, k, h)
      BY <2>3, <2>4 DEF Batches
    <2> QED BY <1>3, <2>5
  <1> QED BY <1>4, <1>5

LEMMA EventsAreBatched ==
    ASSUME NEW lines \in Seq(Lines), NEW first \in Nat
    PROVE  \E g : /\ Batches(lines, first, Len(lines), g)
                  /\ EventsAfter(lines, first) = g[Len(lines)]
  <1> DEFINE F == CHOOSE g : Batches(lines, first, Len(lines), g)
  <1>1. Batches(lines, first, Len(lines), F)
    BY BatchesExist
  <1>2. EventsAfter(lines, first) = F[Len(lines)]
    BY DEF EventsAfter, Batches, BatchedAt
  <1> QED BY <1>1, <1>2

(* Up to line n, the events past the first lines, each of them and in order. *)
Batch(lines, first, n, batch) ==
    /\ batch \in Seq(Lines)
    /\ \A j \in 1 .. Len(batch) :
          \E m \in 1 .. n : first < m /\ lines[m] \notin Junk /\ batch[j] = lines[m]
    /\ \A m \in 1 .. n : (first < m /\ lines[m] \notin Junk) =>
          \E j \in 1 .. Len(batch) : batch[j] = lines[m]
    /\ (\A i, j \in 1 .. n : i < j => lines[i] < lines[j]) =>
          \A i, j \in 1 .. Len(batch) : i < j => batch[i] < batch[j]

LEMMA BatchGrows ==
    ASSUME NEW lines \in Seq(Lines), NEW first \in Nat, NEW n \in 1 .. Len(lines),
           NEW batch, Batch(lines, first, n - 1, batch), n > first, lines[n] \notin Junk
    PROVE  Batch(lines, first, n, Append(batch, lines[n]))
  <1> DEFINE b == Append(batch, lines[n])
  <1>1. Len(lines) \in Nat /\ lines[n] \in Lines /\ \A i \in 1 .. n : lines[i] \in Int
    <2>1. Len(lines) \in Nat /\ \A i \in 1 .. Len(lines) : lines[i] \in Lines
      BY LenProperties, ElementOfSeq
    <2>2. \A l \in Lines : l \in Int
      BY DEF Lines
    <2>3. \A i \in 1 .. n : i \in 1 .. Len(lines)
      BY <2>1
    <2> QED BY <2>1, <2>2, <2>3
  <1>2. batch \in Seq(Lines) /\ Len(batch) \in Nat
    BY LenProperties DEF Batch
  <1>3. /\ b \in Seq(Lines) /\ Len(b) = Len(batch) + 1
        /\ b[Len(batch) + 1] = lines[n]
        /\ \A j \in 1 .. Len(batch) : b[j] = batch[j]
    BY <1>1, <1>2, AppendProperties
  <1> HIDE DEF b
  <1>4. \A j \in 1 .. Len(b) :
           \E m \in 1 .. n : first < m /\ lines[m] \notin Junk /\ b[j] = lines[m]
    <2> SUFFICES ASSUME NEW j \in 1 .. Len(b)
                 PROVE  \E m \in 1 .. n : first < m /\ lines[m] \notin Junk /\ b[j] = lines[m]
      OBVIOUS
    <2>1. CASE j = Len(batch) + 1
      BY <1>1, <1>3, <2>1
    <2>2. CASE j \in 1 .. Len(batch)
      <3>1. PICK m \in 1 .. n - 1 : first < m /\ lines[m] \notin Junk /\ batch[j] = lines[m]
        BY <2>2 DEF Batch
      <3> QED BY <1>3, <2>2, <3>1
    <2> QED BY <1>2, <1>3, <2>1, <2>2
  <1>5. ASSUME NEW m \in 1 .. n, first < m, lines[m] \notin Junk
        PROVE  \E j \in 1 .. Len(b) : b[j] = lines[m]
    <2>1. CASE m = n
      BY <1>2, <1>3, <2>1
    <2>2. CASE m # n
      <3>1. PICK j \in 1 .. Len(batch) : batch[j] = lines[m]
        BY <1>5, <2>2 DEF Batch
      <3> QED BY <1>2, <1>3, <3>1
    <2> QED BY <2>1, <2>2
  <1>6. ASSUME \A i, j \in 1 .. n : i < j => lines[i] < lines[j],
               NEW i \in 1 .. Len(b), NEW j \in 1 .. Len(b), i < j
        PROVE  b[i] < b[j]
    <2>1. i \in 1 .. Len(batch) /\ b[i] = batch[i]
      BY <1>2, <1>3, <1>6
    <2>2. CASE j \in 1 .. Len(batch)
      <3>1. \A x, y \in 1 .. Len(batch) : x < y => batch[x] < batch[y]
        <4>1. \A x, y \in 1 .. n - 1 : x < y => lines[x] < lines[y]
          BY <1>6
        <4> QED BY <4>1 DEF Batch
      <3> QED BY <1>3, <1>6, <2>1, <2>2, <3>1
    <2>3. CASE j = Len(batch) + 1
      <3>1. PICK m \in 1 .. n - 1 : batch[i] = lines[m]
        BY <2>1 DEF Batch
      <3> QED BY <1>3, <1>6, <2>1, <2>3, <3>1
    <2> QED BY <1>2, <1>3, <2>2, <2>3
  <1>7. Batch(lines, first, n, b)
    BY <1>3, <1>4, <1>5, <1>6 DEF Batch
  <1> QED BY <1>7 DEF b

(* What LinesFrom publishes: the events past the offset, each of them, in    *)
(* the order of the file.                                                    *)
LEMMA EventsInOrder ==
    ASSUME NEW lines \in Seq(Lines), NEW first \in Nat
    PROVE  Batch(lines, first, Len(lines), EventsAfter(lines, first))
  <1>1. Len(lines) \in Nat
    BY LenProperties
  <1>2. PICK g : /\ Batches(lines, first, Len(lines), g)
                 /\ EventsAfter(lines, first) = g[Len(lines)]
    BY EventsAreBatched
  <1>3. \A n \in 0 .. Len(lines) : g[n] = BatchedAt(lines, first, g, n)
    BY <1>2 DEF Batches
  <1> DEFINE Bad == {n \in 0 .. Len(lines) : ~ Batch(lines, first, n, g[n])}
  <1>4. SUFFICES ASSUME Bad # {} PROVE FALSE
    BY <1>1, <1>2
  <1>5. PICK n \in Bad : \A j \in Bad : n <= j
    <2>1. Bad \in SUBSET Nat /\ Bad # {}
      BY <1>1, <1>4
    <2> HIDE DEF Bad
    <2> QED BY <2>1, LeastExists
  <1>6. n \in 0 .. Len(lines) /\ g[n] = BatchedAt(lines, first, g, n)
    BY <1>3, <1>5
  <1>7. CASE n <= first
    <2>1. g[n] = <<>>
      BY <1>6, <1>7 DEF BatchedAt
    <2>2. Batch(lines, first, n, <<>>)
      BY <1>1, <1>6, <1>7, EmptySeq DEF Batch
    <2> QED BY <1>5, <2>1, <2>2
  <1>8. CASE n > first
    <2>1. n \in 1 .. Len(lines) /\ n - 1 \in 0 .. Len(lines)
      BY <1>1, <1>6, <1>8
    <2>2. Batch(lines, first, n - 1, g[n - 1])
      BY <1>5, <2>1
    <2>3. CASE lines[n] \in Junk
      <3>1. g[n] = g[n - 1]
        BY <1>6, <1>8, <2>1, <2>3 DEF BatchedAt
      <3> DEFINE b == g[n - 1]
      <3>2. \A m \in 1 .. n : lines[m] \notin Junk => m \in 1 .. n - 1
        BY <2>1, <2>3
      <3>3. 1 .. n - 1 \subseteq 1 .. n
        BY <2>1
      <3>4. Batch(lines, first, n - 1, b)
        BY <2>2
      <3> HIDE DEF b
      <3>5. Batch(lines, first, n, b)
        BY <3>2, <3>3, <3>4 DEF Batch
      <3> QED BY <1>5, <3>1, <3>5 DEF b
    <2>4. CASE lines[n] \notin Junk
      <3>1. g[n] = Append(g[n - 1], lines[n])
        BY <1>6, <1>8, <2>1, <2>4 DEF BatchedAt
      <3> QED BY <1>5, <1>8, <2>1, <2>2, <2>4, <3>1, BatchGrows
    <2> QED BY <2>3, <2>4
  <1> QED BY <1>1, <1>6, <1>7, <1>8

-----------------------------------------------------------------------------
(* A file has its number for an inode: the log is renamed to the next path,  *)
(* and the log opened after that is the next file.                           *)
Inodes ==
    /\ \A p \in Paths : disk[p].inode = 0 => disk[p] = Absent
    /\ \A p \in Paths \ {0} : disk[p].inode = IF p <= Rotations THEN p ELSE 0
    /\ disk[0].inode \in {0, Rotations + 1}
    /\ Rotations = 0 => Exists(0)
    /\ \A p \in Paths : disk[p].half => p = 0 /\ written < MaxLines

Held(p) == 1 .. Len(disk[p].lines)

Line(p, n) == disk[p].lines[n]

(* A line is in one file, after those written before it. *)
LinesInPlace ==
    \A p \in Paths :
        /\ Len(disk[p].lines) <= written
        /\ \A n \in Held(p) : Line(p, n) <= written
        /\ \A m, n \in Held(p) : m < n => Line(p, m) < Line(p, n)
        /\ \A q \in Paths : \A m \in Held(p), n \in Held(q) :
              Line(p, m) = Line(q, n) => p = q

(* What was read was written, and is published in order. *)
LinesInHand ==
    /\ \A k \in Positions : published[k] <= written
    /\ \A k \in 1 .. Len(pending) : pending[k] <= written
    /\ \A j, k \in 1 .. Len(pending) : j < k => pending[j] < pending[k]

(* A cursor has seen no file but those its path has had. *)
Fits(c, p) ==
    /\ c.inode = 0 => c.offset = 0
    /\ \E n \in 0 .. MaxLines : c.offset = 2 * n
    /\ p # 0 => c.inode = 0 \/ (c.inode = p /\ p <= Rotations)
    /\ p = 0 => c.inode <= (IF disk[0].inode = 0 THEN Rotations ELSE Rotations + 1)

CursorsFit == \A p \in Paths : Fits(saved[p], p) /\ Fits(cursors[p], p)

(* The path in hand has been looked at. *)
PollInHand ==
    /\ \A p \in queue : p # 0 => p <= Rotations
    /\ pc \in {"read", "xadd", "save"} => queue # {} /\ cursors[Path].inode # 0

Base ==
    /\ TypeOK
    /\ Inodes
    /\ LinesInPlace
    /\ LinesInHand
    /\ CursorsFit
    /\ PollInHand

-----------------------------------------------------------------------------
LEMMA RotationsType == Rotations \in Nat /\ Rotations <= MaxRotations
  <1>1. /\ IsFiniteSet(1 .. MaxRotations)
        /\ Cardinality(1 .. MaxRotations) = MaxRotations
    BY TailerAssumption, FS_Interval DEF TailerAssumption
  <1>2. {p \in Paths \ {0} : Exists(p)} \subseteq 1 .. MaxRotations
    BY TailerAssumption DEF TailerAssumption, Paths
  <1> QED BY <1>1, <1>2, FS_Subset, FS_CardinalityType DEF Rotations

LEMMA RotationsStay ==
    ASSUME \A p \in Paths \ {0} : disk'[p] = disk[p]
    PROVE  Rotations' = Rotations
  <1>1. {p \in Paths \ {0} : disk'[p] # Absent} = {p \in Paths \ {0} : disk[p] # Absent}
    OBVIOUS
  <1> QED BY <1>1 DEF Rotations, Exists

LEMMA PathsAre == 0 \in Paths /\ \A p \in Paths : p \in Int /\ 0 <= p /\ p <= MaxRotations
  BY TailerAssumption DEF TailerAssumption, Paths

LEMMA FileAt ==
    ASSUME TypeOK, NEW p \in Paths
    PROVE  /\ disk[p] \in File /\ disk[p].lines \in Seq(Lines)
           /\ disk[p].inode \in Int /\ disk[p].half \in BOOLEAN
           /\ Len(disk[p].lines) \in Nat
           /\ \A n \in Held(p) : Line(p, n) \in Lines /\ Line(p, n) \in Int
           /\ written \in Int
  <1>1. disk[p] \in File /\ written \in Int
    BY TailerAssumption DEF TypeOK, TailerAssumption
  <1>2. /\ disk[p].lines \in Seq(Lines)
        /\ disk[p].inode \in Int /\ disk[p].half \in BOOLEAN
    BY <1>1, TailerAssumption DEF File, TailerAssumption
  <1>3. \A n \in Held(p) : Line(p, n) \in Lines
    BY <1>2, ElementOfSeq DEF Held, Line
  <1>4. \A l \in Lines : l \in Int
    BY DEF Lines
  <1> QED BY <1>1, <1>2, <1>3, <1>4, LenProperties

LEMMA ExistsIs ==
    ASSUME TypeOK, Inodes, NEW p \in Paths
    PROVE  Exists(p) <=> disk[p].inode # 0
  BY DEF Exists, Absent, Inodes

(* What each step of the decoy does to the files. *)
LEMMA BeginLineDoes ==
    ASSUME TypeOK, Inodes, BeginLine
    PROVE  /\ disk' = [disk EXCEPT ![0] = [disk[0] EXCEPT !.half = TRUE]]
           /\ [disk[0] EXCEPT !.half = TRUE] \in File
           /\ disk'[0].half = TRUE /\ disk'[0].inode = disk[0].inode
           /\ disk'[0].lines = disk[0].lines /\ disk[0].half = FALSE
           /\ \A p \in Paths \ {0} : disk'[p] = disk[p]
           /\ Rotations' = Rotations /\ disk[0].inode # 0 /\ written < MaxLines
           /\ UNCHANGED <<written, truncations, tailer>>
  <1>1. disk[0] \in File /\ 0 \in Paths /\ disk \in [Paths -> File]
    BY PathsAre DEF TypeOK
  <1>2. disk' = [disk EXCEPT ![0] = [disk[0] EXCEPT !.half = TRUE]]
    BY <1>1 DEF BeginLine
  <1>3. /\ [disk[0] EXCEPT !.half = TRUE] \in File
        /\ disk'[0] = [disk[0] EXCEPT !.half = TRUE]
        /\ \A p \in Paths \ {0} : disk'[p] = disk[p]
    BY <1>1, <1>2 DEF File
  <1>4. Rotations' = Rotations
    BY <1>3, RotationsStay
  <1>5. disk[0].inode # 0
    BY <1>1, ExistsIs DEF BeginLine
  <1> QED BY <1>1, <1>2, <1>3, <1>4, <1>5 DEF BeginLine, File

LEMMA EndLineDoes ==
    ASSUME TypeOK, Inodes, EndLine
    PROVE  /\ disk' \in [Paths -> File]
           /\ disk'[0].half = FALSE /\ disk'[0].inode = disk[0].inode
           /\ disk'[0].lines = Append(disk[0].lines, written + 1)
           /\ Len(disk'[0].lines) = Len(disk[0].lines) + 1
           /\ disk'[0].lines[Len(disk[0].lines) + 1] = written + 1
           /\ \A n \in Held(0) : disk'[0].lines[n] = disk[0].lines[n]
           /\ \A p \in Paths \ {0} : disk'[p] = disk[p]
           /\ Rotations' = Rotations
           /\ written' = written + 1 /\ written + 1 \in Lines /\ disk[0].half
           /\ disk[0].inode # 0
           /\ UNCHANGED <<truncations, tailer>>
  <1>1. disk[0] \in File /\ 0 \in Paths /\ disk \in [Paths -> File]
    BY PathsAre DEF TypeOK
  <1>2. written + 1 \in Lines
    BY <1>1, TailerAssumption DEF TypeOK, Inodes, EndLine, Lines, TailerAssumption
  <1> DEFINE lines == Append(disk[0].lines, written + 1)
  <1>3. disk[0].lines \in Seq(Lines)
    BY <1>1 DEF File
  <1>4. /\ lines \in Seq(Lines) /\ Len(lines) = Len(disk[0].lines) + 1
        /\ lines[Len(disk[0].lines) + 1] = written + 1
        /\ \A n \in Held(0) : lines[n] = disk[0].lines[n]
    BY <1>2, <1>3, AppendProperties DEF Held
  <1>5. disk' = [disk EXCEPT ![0] = [disk[0] EXCEPT !.lines = lines, !.half = FALSE]]
    BY <1>1 DEF EndLine
  <1> HIDE DEF lines
  <1>6. /\ [disk[0] EXCEPT !.lines = lines, !.half = FALSE] \in File
        /\ disk'[0] = [disk[0] EXCEPT !.lines = lines, !.half = FALSE]
        /\ \A p \in Paths \ {0} : disk'[p] = disk[p]
        /\ disk' \in [Paths -> File]
    BY <1>1, <1>4, <1>5 DEF File
  <1>7. disk'[0].lines = lines /\ disk'[0].half = FALSE /\ disk'[0].inode = disk[0].inode
    BY <1>1, <1>6 DEF File
  <1>8. Rotations' = Rotations
    BY <1>6, RotationsStay
  <1>9. disk[0].inode # 0
    BY <1>1 DEF EndLine, Inodes, Absent
  <1>10. disk'[0].lines = Append(disk[0].lines, written + 1)
    BY <1>7 DEF lines
  <1> QED BY <1>2, <1>4, <1>6, <1>7, <1>8, <1>9, <1>10 DEF EndLine

LEMMA RenameDoes ==
    ASSUME TypeOK, Inodes, Rename
    PROVE  /\ disk' \in [Paths -> File]
           /\ Rotations + 1 \in Paths /\ Rotations + 1 # 0 /\ Rotations' = Rotations + 1
           /\ disk'[Rotations + 1] = disk[0] /\ disk'[0] = Absent
           /\ disk[0].inode = Rotations + 1 /\ disk[0].half = FALSE
           /\ disk[Rotations + 1] = Absent
           /\ \A p \in Paths \ {0, Rotations + 1} : disk'[p] = disk[p]
           /\ UNCHANGED <<written, truncations, tailer>>
  <1> DEFINE r == Rotations
  <1>1. disk[0] \in File /\ 0 \in Paths /\ disk \in [Paths -> File]
    BY PathsAre DEF TypeOK
  <1>2. r + 1 \in Paths /\ r \in Nat /\ r + 1 # 0
    BY RotationsType, TailerAssumption DEF Rename, Paths, TailerAssumption
  <1>3. Absent \in File
    BY EmptySeq, TailerAssumption DEF Absent, File, TailerAssumption
  <1>4. disk' = [disk EXCEPT ![r + 1] = disk[0], ![0] = Absent]
    BY DEF Rename
  <1> HIDE DEF r
  <1>5. /\ disk' \in [Paths -> File]
        /\ disk'[r + 1] = disk[0] /\ disk'[0] = Absent
        /\ \A p \in Paths \ {0, r + 1} : disk'[p] = disk[p]
    BY <1>1, <1>2, <1>3, <1>4
  <1>6. disk[0].inode = r + 1 /\ disk[0] # Absent /\ disk[0].half = FALSE
    BY <1>1, ExistsIs DEF Rename, Inodes, Exists, r, File
  <1>7. disk[r + 1] = Absent
    BY <1>2 DEF Inodes, r
  <1>8. Rotations' = r + 1
    <2> DEFINE P == {p \in Paths \ {0} : Exists(p)}
    <2>1. {p \in Paths \ {0} : disk'[p] # Absent} = P \cup {r + 1}
      BY <1>2, <1>5, <1>6 DEF Exists
    <2>2. r + 1 \notin P
      BY <1>7 DEF Exists
    <2>3. IsFiniteSet(P)
      <3>1. IsFiniteSet(1 .. MaxRotations)
        BY TailerAssumption, FS_Interval DEF TailerAssumption
      <3>2. P \subseteq 1 .. MaxRotations
        BY TailerAssumption DEF TailerAssumption, Paths
      <3> QED BY <3>1, <3>2, FS_Subset
    <2>4. Cardinality(P \cup {r + 1}) = Cardinality(P) + 1
      BY <2>2, <2>3, FS_AddElement
    <2> QED BY <2>1, <2>4 DEF Rotations, Exists, r
  <1> QED BY <1>2, <1>5, <1>6, <1>7, <1>8 DEF Rename, r

LEMMA ReopenDoes ==
    ASSUME TypeOK, Inodes, Reopen
    PROVE  /\ disk' \in [Paths -> File]
           /\ disk'[0].inode = Rotations + 1 /\ disk'[0].lines = <<>>
           /\ disk'[0].half = FALSE /\ disk[0] = Absent /\ disk[0].inode = 0
           /\ disk[0].lines = <<>>
           /\ \A p \in Paths \ {0} : disk'[p] = disk[p]
           /\ Rotations' = Rotations
           /\ UNCHANGED <<written, truncations, tailer>>
  <1>1. disk[0] = Absent /\ 0 \in Paths /\ disk \in [Paths -> File]
    BY PathsAre DEF TypeOK, Reopen, Exists
  <1> DEFINE f == [Absent EXCEPT !.inode = Rotations + 1]
  <1>2. Absent \in File /\ Rotations + 1 \in 0 .. MaxRotations + 1
    BY EmptySeq, RotationsType, TailerAssumption DEF Absent, File, TailerAssumption
  <1>3. /\ f \in File /\ f.inode = Rotations + 1
        /\ f.lines = Absent.lines /\ f.half = Absent.half
    BY <1>2 DEF File
  <1>4. disk' = [disk EXCEPT ![0] = f]
    BY DEF Reopen
  <1> HIDE DEF f
  <1>5. disk' \in [Paths -> File] /\ disk'[0] = f /\ \A p \in Paths \ {0} : disk'[p] = disk[p]
    BY <1>1, <1>3, <1>4
  <1>6. Rotations' = Rotations
    BY <1>5, RotationsStay
  <1> QED BY <1>1, <1>3, <1>5, <1>6 DEF Reopen, Absent

LEMMA TruncateDoes ==
    ASSUME TypeOK, Inodes, Truncate
    PROVE  /\ disk' \in [Paths -> File]
           /\ disk'[0].inode = disk[0].inode /\ disk'[0].lines = <<>>
           /\ disk'[0].half = FALSE /\ disk[0].inode # 0
           /\ \A p \in Paths \ {0} : disk'[p] = disk[p]
           /\ Rotations' = Rotations /\ truncations' \in 0 .. MaxTruncations
           /\ truncations' = truncations + 1
           /\ UNCHANGED <<written, tailer>>
  <1>1. disk[0] \in File /\ 0 \in Paths /\ disk \in [Paths -> File]
    BY PathsAre DEF TypeOK
  <1> DEFINE f == [disk[0] EXCEPT !.lines = <<>>]
  <1>2. /\ f \in File /\ f.inode = disk[0].inode /\ f.lines = <<>> /\ f.half = FALSE
    BY <1>1, EmptySeq DEF File, Truncate
  <1>3. disk' = [disk EXCEPT ![0] = f]
    BY <1>1 DEF Truncate
  <1> HIDE DEF f
  <1>4. disk' \in [Paths -> File] /\ disk'[0] = f /\ \A p \in Paths \ {0} : disk'[p] = disk[p]
    BY <1>1, <1>2, <1>3
  <1>5. Rotations' = Rotations
    BY <1>4, RotationsStay
  <1>6. truncations' \in 0 .. MaxTruncations
    BY TailerAssumption DEF TypeOK, Truncate, TailerAssumption
  <1>7. disk[0].inode # 0
    BY <1>1, ExistsIs DEF Truncate
  <1> QED BY <1>2, <1>4, <1>5, <1>6, <1>7 DEF Truncate

-----------------------------------------------------------------------------
(* What is the tailer's stays as it is while the decoy writes and rotates.   *)
LEMMA TailerStays ==
    ASSUME Base, UNCHANGED tailer, disk' \in [Paths -> File],
           written' \in 0 .. MaxLines, written <= written',
           truncations' \in 0 .. MaxTruncations,
           Rotations' \in {Rotations, Rotations + 1},
           Rotations' = Rotations => (disk'[0].inode = 0 => disk[0].inode = 0)
    PROVE  TypeOK' /\ LinesInHand' /\ CursorsFit' /\ PollInHand'
  <1>1. TypeOK'
    BY DEF Base, TypeOK, tailer, Cursor, File
  <1>2. Path' = Path
    BY DEF Path, tailer
  <1>3. PollInHand'
    <2>1. \A p \in queue : p \in Int
      BY PathsAre DEF Base, TypeOK
    <2> QED BY <1>2, <2>1, RotationsType DEF Base, PollInHand, tailer
  <1>4. LinesInHand'
    <2>0. /\ \A k \in Positions : published[k] \in Lines
          /\ \A k \in 1 .. Len(pending) : pending[k] \in Lines
      BY ElementOfSeq DEF Base, TypeOK, Positions
    <2>1. /\ written \in Int /\ written' \in Int
          /\ \A k \in Positions : published[k] \in Int
          /\ \A k \in 1 .. Len(pending) : pending[k] \in Int
      BY <2>0 DEF Base, TypeOK, Lines
    <2> QED BY <2>1 DEF Base, LinesInHand, Positions, tailer
  <1>5. CursorsFit'
    <2> SUFFICES ASSUME NEW p \in Paths, NEW c \in Cursor, Fits(c, p)
                 PROVE  Fits(c, p)'
      BY DEF CursorsFit, Base, TypeOK, tailer
    <2>1. p \in Int /\ c.inode \in Int /\ Rotations \in Nat
      BY PathsAre, RotationsType DEF Cursor
    <2> QED BY <2>1 DEF Fits
  <1> QED BY <1>1, <1>3, <1>4, <1>5

LEMMA BeginLineBase == ASSUME Base, BeginLine PROVE Base'
  <1>1. TypeOK /\ Inodes /\ 0 \in Paths
    BY PathsAre DEF Base
  <1> DEFINE f == [disk[0] EXCEPT !.half = TRUE]
  <1>2. /\ disk' = [disk EXCEPT ![0] = f] /\ f \in File
        /\ disk'[0].half = TRUE /\ disk'[0].inode = disk[0].inode
        /\ disk'[0].lines = disk[0].lines
        /\ \A p \in Paths \ {0} : disk'[p] = disk[p]
        /\ Rotations' = Rotations /\ disk[0].inode # 0 /\ written < MaxLines
        /\ UNCHANGED <<written, truncations, tailer>>
    BY <1>1, BeginLineDoes
  <1> HIDE DEF f
  <1>3. disk' \in [Paths -> File]
    BY <1>1, <1>2 DEF TypeOK
  <1>4. TypeOK' /\ LinesInHand' /\ CursorsFit' /\ PollInHand'
    BY <1>2, <1>3, TailerStays DEF Base, TypeOK
  <1>5. Inodes'
    BY <1>1, <1>2, ExistsIs DEF Inodes, Exists, Absent
  <1>6. LinesInPlace'
    <2>1. \A p \in Paths : disk'[p].lines = disk[p].lines
      BY <1>2
    <2>2. \A p \in Paths : Held(p)' = Held(p) /\ \A n \in Held(p) : Line(p, n)' = Line(p, n)
      BY <2>1 DEF Held, Line
    <2> QED BY <1>2, <2>2 DEF Base, LinesInPlace
  <1> QED BY <1>4, <1>5, <1>6 DEF Base

LEMMA EndLineBase == ASSUME Base, EndLine PROVE Base'
  <1>1. TypeOK /\ Inodes /\ 0 \in Paths
    BY PathsAre DEF Base
  <1>2. /\ disk' \in [Paths -> File]
        /\ disk'[0].half = FALSE /\ disk'[0].inode = disk[0].inode
        /\ Len(disk'[0].lines) = Len(disk[0].lines) + 1
        /\ disk'[0].lines[Len(disk[0].lines) + 1] = written + 1
        /\ \A n \in Held(0) : disk'[0].lines[n] = disk[0].lines[n]
        /\ \A p \in Paths \ {0} : disk'[p] = disk[p]
        /\ Rotations' = Rotations
        /\ written' = written + 1 /\ written + 1 \in Lines
        /\ disk[0].inode # 0
        /\ UNCHANGED <<truncations, tailer>>
    BY <1>1, EndLineDoes
  <1>3. written \in Nat /\ written' \in 0 .. MaxLines
    BY <1>1, <1>2 DEF TypeOK, Lines
  <1>4. TypeOK' /\ LinesInHand' /\ CursorsFit' /\ PollInHand'
    BY <1>2, <1>3, TailerStays DEF Base, TypeOK
  <1>5. Inodes'
    <2>1. \A p \in Paths : disk'[p].half => FALSE
      BY <1>1, <1>2 DEF Inodes
    <2>2. \A p \in Paths : disk'[p].inode = disk[p].inode
      BY <1>2
    <2>3. \A p \in Paths : disk'[p].inode = 0 => disk'[p] = Absent
      BY <1>1, <1>2 DEF Inodes
    <2>4. disk'[0] # Absent
      BY <1>2 DEF Absent
    <2> QED BY <1>1, <1>2, <2>1, <2>2, <2>3, <2>4 DEF Inodes, Exists
  <1>6. LinesInPlace'
    <2> DEFINE m0 == Len(disk[0].lines) + 1
    <2>1. m0 \in Nat /\ \A p \in Paths : Len(disk[p].lines) \in Nat
      BY <1>1, FileAt
    <2>2. \A p \in Paths : \A n \in Held(p)' :
             \/ p = 0 /\ n = m0 /\ Line(p, n)' = written + 1
             \/ n \in Held(p) /\ Line(p, n)' = Line(p, n)
      BY <1>2, <2>1 DEF Held, Line
    <2>3. \A p \in Paths : \A n \in Held(p) : Line(p, n) \in Int /\ Line(p, n) <= written
      BY <1>1, FileAt DEF Base, LinesInPlace
    <2>4. \A p \in Paths : Len(disk'[p].lines) <= written'
      BY <1>2, <1>3, <2>1 DEF Base, LinesInPlace
    <2> HIDE DEF m0
    <2>5. \A p \in Paths : \A n \in Held(p)' : Line(p, n)' <= written'
      BY <1>2, <1>3, <2>2, <2>3
    <2>6. \A p \in Paths : \A m, n \in Held(p)' : m < n => Line(p, m)' < Line(p, n)'
      <3> SUFFICES ASSUME NEW p \in Paths, NEW m \in Held(p)', NEW n \in Held(p)', m < n
                   PROVE  Line(p, m)' < Line(p, n)'
        OBVIOUS
      <3>1. CASE p = 0 /\ n = m0 /\ Line(p, n)' = written + 1
        <4>1. m \in Held(p)
          BY <2>2, <3>1 DEF Held
        <4>2. Line(p, m)' = Line(p, m)
          BY <2>1, <2>2, <3>1
        <4> QED BY <1>3, <2>3, <3>1, <4>1, <4>2
      <3>2. CASE n \in Held(p) /\ Line(p, n)' = Line(p, n)
        <4>1. m \in Held(p) /\ Line(p, m)' = Line(p, m)
          BY <2>1, <2>2, <3>2 DEF Held, m0
        <4> QED BY <3>2, <4>1 DEF Base, LinesInPlace
      <3> QED BY <2>2, <3>1, <3>2
    <2>7. \A p, q \in Paths : \A m \in Held(p)', n \in Held(q)' :
              Line(p, m)' = Line(q, n)' => p = q
      BY <1>3, <2>2, <2>3 DEF Base, LinesInPlace
    <2> QED BY <2>4, <2>5, <2>6, <2>7 DEF LinesInPlace, Held, Line
  <1> QED BY <1>4, <1>5, <1>6 DEF Base

(* The lines at a path are those that were at that path or another before. *)
LEMMA LinesMoved ==
    ASSUME TypeOK, LinesInPlace, written' = written, NEW At,
           \A p \in Paths : /\ At[p] \in Paths
                            /\ \/ disk'[p].lines = disk[At[p]].lines
                               \/ disk'[p].lines = <<>>,
           \A p, q \in Paths : At[p] = At[q] =>
              p = q \/ disk'[p].lines = <<>> \/ disk'[q].lines = <<>>
    PROVE  LinesInPlace'
  <1>1. \A p \in Paths : \A n \in Held(p)' :
           n \in Held(At[p]) /\ Line(p, n)' = Line(At[p], n) /\ disk'[p].lines # <<>>
    BY DEF Held, Line
  <1>2. \A p \in Paths : Len(disk'[p].lines) <= written'
    <2>1. written \in Nat /\ Len(<<>>) = 0
      BY DEF TypeOK
    <2> QED BY <2>1 DEF LinesInPlace
  <1>3. \A p \in Paths : \A n \in Held(p)' : Line(p, n)' <= written'
    BY <1>1 DEF LinesInPlace
  <1>4. \A p \in Paths : \A m, n \in Held(p)' : m < n => Line(p, m)' < Line(p, n)'
    BY <1>1 DEF LinesInPlace
  <1>5. \A p, q \in Paths : \A m \in Held(p)', n \in Held(q)' :
            Line(p, m)' = Line(q, n)' => p = q
    BY <1>1 DEF LinesInPlace
  <1> QED BY <1>2, <1>3, <1>4, <1>5 DEF LinesInPlace, Held, Line

LEMMA RenameBase == ASSUME Base, Rename PROVE Base'
  <1>1. TypeOK /\ Inodes /\ 0 \in Paths /\ Rotations \in Nat
    BY PathsAre, RotationsType DEF Base
  <1> DEFINE r == Rotations + 1
  <1>2. /\ disk' \in [Paths -> File]
        /\ r \in Paths /\ r # 0 /\ Rotations' = r
        /\ disk'[r] = disk[0] /\ disk'[0] = Absent
        /\ disk[0].inode = r /\ disk[0].half = FALSE
        /\ disk[r] = Absent
        /\ \A p \in Paths \ {0, r} : disk'[p] = disk[p]
        /\ UNCHANGED <<written, truncations, tailer>>
    BY <1>1, RenameDoes
  <1>3. r \in Nat /\ \A p \in Paths : p \in Int
    BY <1>1, PathsAre
  <1>4. TypeOK' /\ LinesInHand' /\ CursorsFit' /\ PollInHand'
    <2>1. Rotations' # Rotations
      BY <1>1, <1>2
    <2> QED BY <1>2, <2>1, TailerStays DEF Base, TypeOK
  <1>5. Inodes'
    <2>1. disk'[0].inode = 0 /\ disk'[0].half = FALSE
      BY <1>2 DEF Absent
    <2>2. \A p \in Paths \ {0} : disk'[p].inode = IF p <= r THEN p ELSE 0
      <3> SUFFICES ASSUME NEW p \in Paths \ {0}
                   PROVE  disk'[p].inode = IF p <= r THEN p ELSE 0
        OBVIOUS
      <3>1. CASE p = r
        BY <1>2, <1>3, <3>1
      <3>2. CASE p # r
        BY <1>1, <1>2, <1>3, <3>2 DEF Inodes
      <3> QED BY <3>1, <3>2
    <2>3. \A p \in Paths : disk'[p].inode = 0 => disk'[p] = Absent
      BY <1>1, <1>2, <1>3 DEF Inodes
    <2>4. \A p \in Paths : ~ disk'[p].half
      BY <1>1, <1>2, <2>1 DEF Inodes
    <2> QED BY <1>2, <1>3, <2>1, <2>2, <2>3, <2>4 DEF Inodes
  <1>6. LinesInPlace'
    <2> DEFINE At == [p \in Paths |-> IF p = r THEN 0 ELSE p]
    <2>1. \A p \in Paths : At[p] = IF p = r THEN 0 ELSE p
      OBVIOUS
    <2> HIDE DEF At, r
    <2>2. disk'[0].lines = <<>>
      BY <1>2 DEF Absent
    <2>3. /\ \A p \in Paths : /\ At[p] \in Paths
                              /\ \/ disk'[p].lines = disk[At[p]].lines
                                 \/ disk'[p].lines = <<>>
          /\ \A p, q \in Paths : At[p] = At[q] =>
                p = q \/ disk'[p].lines = <<>> \/ disk'[q].lines = <<>>
      BY <1>1, <1>2, <2>1, <2>2
    <2> QED BY <1>1, <1>2, <2>3, LinesMoved DEF Base
  <1> QED BY <1>4, <1>5, <1>6 DEF Base

LEMMA EmptiedBase ==
    ASSUME Base, Reopen \/ Truncate
    PROVE  Base'
  <1>1. TypeOK /\ Inodes /\ 0 \in Paths /\ Rotations \in Nat
    BY PathsAre, RotationsType DEF Base
  <1>2. /\ disk' \in [Paths -> File]
        /\ disk'[0].inode = Rotations + 1 /\ disk'[0].lines = <<>>
        /\ disk'[0].half = FALSE
        /\ \A p \in Paths \ {0} : disk'[p] = disk[p]
        /\ Rotations' = Rotations /\ truncations' \in 0 .. MaxTruncations
        /\ UNCHANGED <<written, tailer>>
    BY <1>1, ReopenDoes, TruncateDoes DEF Inodes, TypeOK
  <1>3. TypeOK' /\ LinesInHand' /\ CursorsFit' /\ PollInHand'
    BY <1>1, <1>2, TailerStays DEF Base, TypeOK
  <1>4. Inodes'
    <2>1. disk'[0] # Absent /\ disk'[0].inode # 0
      BY <1>1, <1>2 DEF Absent
    <2> QED BY <1>1, <1>2, <2>1 DEF Inodes, Exists
  <1>5. LinesInPlace'
    <2> DEFINE At == [p \in Paths |-> p]
    <2>1. \A p \in Paths : At[p] = p
      OBVIOUS
    <2> HIDE DEF At
    <2> QED BY <1>1, <1>2, <2>1, LinesMoved DEF Base
  <1> QED BY <1>3, <1>4, <1>5 DEF Base

LEMMA DecoyBase == ASSUME Base, Decoy PROVE Base'
  BY BeginLineBase, EndLineBase, RenameBase, EmptiedBase DEF Decoy

-----------------------------------------------------------------------------
(* The path in hand is the first of those left in the poll. *)
LEMMA PathInHand ==
    ASSUME TypeOK, queue # {}
    PROVE  Path \in queue /\ Path \in Paths
  <1>1. queue \in SUBSET Nat
    BY DEF TypeOK, Paths
  <1> QED BY <1>1, LeastExists DEF Path, TypeOK

LEMMA Halves == \A n \in Nat : (2 * n + 1) \div 2 = n /\ (2 * n) \div 2 = n
  OBVIOUS

LEMMA CheckedFits ==
    ASSUME TypeOK, Inodes, NEW p \in Paths, disk[p].inode # 0,
           NEW c \in Cursor, Fits(c, p)
    PROVE  /\ Checked(c, disk[p]) \in Cursor
           /\ Fits(Checked(c, disk[p]), p)
           /\ Checked(c, disk[p]).inode = disk[p].inode
           /\ Checked(c, disk[p]).offset \in {0, c.offset}
  <1> DEFINE d == Checked(c, disk[p])
  <1>1. d.inode = disk[p].inode /\ d.offset \in {0, c.offset}
    BY DEF Checked
  <1>2. disk[p].inode \in 0 .. MaxRotations + 1 /\ c.offset \in 0 .. 2 * MaxLines
    BY FileAt DEF File, Cursor
  <1>3. d \in Cursor
    BY <1>1, <1>2, TailerAssumption DEF Checked, Cursor, TailerAssumption
  <1>4. p # 0 => disk[p].inode = p /\ p <= Rotations
    BY DEF Inodes
  <1>5. p = 0 => disk[p].inode = Rotations + 1
    BY DEF Inodes
  <1>6. \E n \in 0 .. MaxLines : d.offset = 2 * n
    BY <1>1, TailerAssumption DEF Fits, TailerAssumption
  <1> HIDE DEF d
  <1>7. Fits(d, p)
    BY <1>1, <1>4, <1>5, <1>6, RotationsType DEF Fits
  <1> QED BY <1>1, <1>3, <1>7 DEF d

LEMMA AdvancedFits ==
    ASSUME Base, NEW p \in Paths, NEW c \in Cursor, Fits(c, p), c.inode # 0
    PROVE  /\ Advanced(c, disk[p]) \in Cursor
           /\ Fits(Advanced(c, disk[p]), p)
           /\ Advanced(c, disk[p]).inode = c.inode
           /\ Advanced(c, disk[p]).offset =
                IF 2 * Len(disk[p].lines) > c.offset THEN 2 * Len(disk[p].lines)
                ELSE c.offset
  <1> DEFINE len == Len(disk[p].lines)
             d == Advanced(c, disk[p])
  <1>1. len \in 0 .. MaxLines /\ MaxLines \in Nat
    BY FileAt, TailerAssumption DEF Base, LinesInPlace, TypeOK, TailerAssumption
  <1>2. c.offset \in 0 .. 2 * MaxLines
    BY DEF Cursor
  <1>3. d = IF 2 * len > c.offset THEN [c EXCEPT !.offset = 2 * len] ELSE c
    BY DEF Advanced, LastNewline
  <1> HIDE DEF len, d
  <1>4. /\ d \in Cursor /\ d.inode = c.inode
        /\ d.offset = IF 2 * len > c.offset THEN 2 * len ELSE c.offset
    BY <1>1, <1>2, <1>3 DEF Cursor
  <1>5. Fits(d, p)
    BY <1>1, <1>4 DEF Fits
  <1> QED BY <1>4, <1>5 DEF d, len

(* A step of the tailer leaves the files alone. *)
LEMMA StepBase ==
    ASSUME Base, UNCHANGED files,
           saved' \in [Paths -> Cursor], cursors' \in [Paths -> Cursor],
           \A p \in Paths : Fits(saved'[p], p) /\ Fits(cursors'[p], p),
           pc' \in {"down", "scan", "read", "xadd", "save"},
           queue' \subseteq Paths, \A p \in queue' : p # 0 => p <= Rotations,
           pc' \in {"read", "xadd", "save"} =>
              queue' = queue /\ queue # {} /\ cursors'[Path].inode # 0,
           published' \in Seq(Lines), pending' \in Seq(Lines), LinesInHand',
           crashes' \in 0 .. MaxCrashes
    PROVE  Base'
  <1>1. Rotations' = Rotations
    BY DEF files, Rotations, Exists
  <1>2. TypeOK'
    BY DEF Base, TypeOK, files, File, Cursor
  <1>3. Inodes' /\ LinesInPlace'
    BY <1>1 DEF Base, Inodes, LinesInPlace, Held, Line, Exists, files
  <1>4. CursorsFit'
    BY <1>1 DEF CursorsFit, Fits, files
  <1>5. PollInHand'
    BY <1>1 DEF PollInHand, Path
  <1> QED BY <1>2, <1>3, <1>4, <1>5 DEF Base

LEMMA CursorsTyped ==
    ASSUME Base
    PROVE  /\ saved \in [Paths -> Cursor] /\ cursors \in [Paths -> Cursor]
           /\ \A p \in Paths : Fits(saved[p], p) /\ Fits(cursors[p], p)
           /\ published \in Seq(Lines) /\ pending \in Seq(Lines)
           /\ crashes \in 0 .. MaxCrashes /\ queue \subseteq Paths
  BY DEF Base, TypeOK, CursorsFit

(* Nothing new is read or published. *)
LEMMA HandStays ==
    ASSUME Base, UNCHANGED <<written, published>>, pending' = pending \/ pending' = <<>>
    PROVE  LinesInHand' /\ pending' \in Seq(Lines)
  <1>1. <<>> \in Seq(Lines) /\ Len(<<>>) = 0
    BY EmptySeq
  <1>2. CASE pending' = pending
    BY <1>2 DEF Base, LinesInHand, Positions, TypeOK
  <1>3. CASE pending' = <<>>
    BY <1>1, <1>3 DEF Base, LinesInHand, Positions
  <1> QED BY <1>2, <1>3

LEMMA StartBase == ASSUME Base, Start PROVE Base'
  <1>1. LinesInHand' /\ pending' \in Seq(Lines)
    BY HandStays DEF Start, files
  <1> QED BY <1>1, CursorsTyped, StepBase DEF Start

LEMMA PollBase == ASSUME Base, Poll PROVE Base'
  <1>1. LinesInHand' /\ pending' \in Seq(Lines)
    BY HandStays DEF Poll, files
  <1>2. queue' \subseteq Paths /\ \A p \in queue' : p # 0 => p <= Rotations
    BY ExistsIs DEF Poll, Base, Inodes
  <1> QED BY <1>1, <1>2, CursorsTyped, StepBase DEF Poll

(* The next path of the poll is gone on to. *)
LEMMA NextPathBase ==
    ASSUME Base, NextPath, UNCHANGED files, UNCHANGED <<published, crashes>>,
           saved' \in [Paths -> Cursor], cursors' \in [Paths -> Cursor],
           \A p \in Paths : Fits(saved'[p], p) /\ Fits(cursors'[p], p)
    PROVE  Base'
  <1>1. LinesInHand' /\ pending' \in Seq(Lines)
    BY HandStays DEF NextPath, files
  <1>2. /\ queue' \subseteq Paths
        /\ \A p \in queue' : p # 0 => p <= Rotations
        /\ pc' = "scan"
    BY CursorsTyped DEF NextPath, Base, PollInHand
  <1>3. crashes' \in 0 .. MaxCrashes /\ published' \in Seq(Lines)
    BY CursorsTyped
  <1> QED BY <1>1, <1>2, <1>3, StepBase

LEMMA StatDoes ==
    ASSUME Base, Stat
    PROVE  /\ Path \in Paths /\ disk[Path].inode # 0
           /\ cursors' = [cursors EXCEPT ![Path] = Checked(cursors[Path], disk[Path])]
           /\ cursors'[Path] = Checked(cursors[Path], disk[Path])
           /\ \A p \in Paths : p # Path => cursors'[p] = cursors[p]
           /\ cursors' \in [Paths -> Cursor]
           /\ \A p \in Paths : Fits(cursors'[p], p)
           /\ cursors'[Path].inode = disk[Path].inode
           /\ cursors'[Path].offset \in {0, cursors[Path].offset}
  <1> DEFINE q == Path
             d == Checked(cursors[q], disk[q])
  <1>1. q \in Paths /\ disk[q].inode # 0
    BY PathInHand, ExistsIs DEF Stat, Base
  <1>2. cursors[q] \in Cursor /\ Fits(cursors[q], q)
    BY <1>1, CursorsTyped
  <1>3. /\ d \in Cursor /\ Fits(d, q) /\ d.inode = disk[q].inode
        /\ d.offset \in {0, cursors[q].offset}
    BY <1>1, <1>2, CheckedFits DEF Base
  <1>4. cursors' = [cursors EXCEPT ![q] = d]
    BY DEF Stat
  <1> HIDE DEF d, q
  <1>5. /\ cursors' \in [Paths -> Cursor] /\ cursors'[q] = d
        /\ \A p \in Paths : p # q => cursors'[p] = cursors[p]
    BY <1>1, <1>3, <1>4, CursorsTyped
  <1>6. \A p \in Paths : Fits(cursors'[p], p)
    BY <1>1, <1>3, <1>5, CursorsTyped
  <1> QED BY <1>1, <1>3, <1>4, <1>5, <1>6 DEF d, q

LEMMA StatBase == ASSUME Base, Stat PROVE Base'
  <1>1. /\ Path \in Paths /\ disk[Path].inode # 0
        /\ cursors' \in [Paths -> Cursor]
        /\ \A p \in Paths : Fits(saved'[p], p) /\ Fits(cursors'[p], p)
        /\ cursors'[Path].inode = disk[Path].inode
        /\ UNCHANGED files /\ UNCHANGED <<saved, published, crashes>>
    BY StatDoes, CursorsTyped DEF Stat
  <1>2. CASE NextPath
    BY <1>1, <1>2, CursorsTyped, NextPathBase
  <1>3. CASE pc' = "read" /\ UNCHANGED <<queue, pending>>
    <2>1. LinesInHand' /\ pending' \in Seq(Lines)
      BY <1>1, <1>3, HandStays DEF files
    <2>2. /\ queue # {} /\ \A p \in queue : p # 0 => p <= Rotations
      BY DEF Stat, Base, PollInHand
    <2> QED BY <1>1, <1>3, <2>1, <2>2, CursorsTyped, StepBase
  <1> QED BY <1>2, <1>3 DEF Stat

(* What a read finds: the events past the offset, which is then at the end.  *)
LEMMA ReadDoes ==
    ASSUME Base, Read
    PROVE  LET f == disk[Path]
               new == LinesFrom(f, cursors[Path].offset)
           IN  /\ Path \in Paths /\ f.inode # 0 /\ cursors[Path].inode # 0
               /\ \E n \in 0 .. MaxLines :
                     /\ cursors[Path].offset = 2 * n
                     /\ Batch(f.lines, n, Len(f.lines), new)
               /\ cursors'[Path].inode = cursors[Path].inode
               /\ cursors'[Path].offset =
                     IF 2 * Len(f.lines) > cursors[Path].offset THEN 2 * Len(f.lines)
                     ELSE cursors[Path].offset
               /\ \A p \in Paths : p # Path => cursors'[p] = cursors[p]
               /\ cursors' \in [Paths -> Cursor]
               /\ \A p \in Paths : Fits(cursors'[p], p)
  <1> DEFINE q == Path
             c == cursors[q]
             d == Advanced(c, disk[q])
  <1>1. q \in Paths /\ disk[q].inode # 0 /\ c.inode # 0
    BY PathInHand, ExistsIs DEF Read, Base, PollInHand
  <1>2. c \in Cursor /\ Fits(c, q)
    BY <1>1, CursorsTyped
  <1>3. PICK n \in 0 .. MaxLines : c.offset = 2 * n
    BY <1>2 DEF Fits
  <1>4. Batch(disk[q].lines, n, Len(disk[q].lines), LinesFrom(disk[q], c.offset))
    <2>1. disk[q].lines \in Seq(Lines) /\ n \in Nat
      BY <1>1, FileAt DEF Base
    <2>2. (c.offset + 1) \div 2 = n
      BY <1>3, <2>1, Halves
    <2> QED BY <2>1, <2>2, EventsInOrder DEF LinesFrom
  <1>5. /\ d \in Cursor /\ Fits(d, q) /\ d.inode = c.inode
        /\ d.offset = IF 2 * Len(disk[q].lines) > c.offset THEN 2 * Len(disk[q].lines)
                      ELSE c.offset
    BY <1>1, <1>2, AdvancedFits
  <1>6. cursors' = [cursors EXCEPT ![q] = d]
    BY DEF Read
  <1> HIDE DEF d, q
  <1>7. /\ cursors' \in [Paths -> Cursor] /\ cursors'[q] = d
        /\ \A p \in Paths : p # q => cursors'[p] = cursors[p]
    BY <1>1, <1>5, <1>6, CursorsTyped
  <1>8. \A p \in Paths : Fits(cursors'[p], p)
    BY <1>1, <1>5, <1>7, CursorsTyped
  <1> QED BY <1>1, <1>3, <1>4, <1>5, <1>7, <1>8 DEF q

LEMMA ReadBase == ASSUME Base, Read PROVE Base'
  <1> DEFINE f == disk[Path]
             new == LinesFrom(f, cursors[Path].offset)
  <1>1. /\ Path \in Paths /\ cursors[Path].inode # 0
        /\ cursors' \in [Paths -> Cursor]
        /\ \A p \in Paths : Fits(saved'[p], p) /\ Fits(cursors'[p], p)
        /\ cursors'[Path].inode = cursors[Path].inode
        /\ UNCHANGED files /\ UNCHANGED <<saved, published, crashes>>
    BY ReadDoes, CursorsTyped DEF Read
  <1>2. PICK n \in 0 .. MaxLines : Batch(f.lines, n, Len(f.lines), new)
    BY ReadDoes
  <1>3. CASE NextPath
    BY <1>1, <1>3, CursorsTyped, NextPathBase
  <1>4. CASE pending' = new /\ pc' = "xadd" /\ UNCHANGED queue
    <2>1. /\ \A i, j \in 1 .. Len(f.lines) : i < j => f.lines[i] < f.lines[j]
          /\ \A i \in 1 .. Len(f.lines) : f.lines[i] <= written
      BY <1>1 DEF Base, LinesInPlace, Held, Line
    <2> HIDE DEF f, new
    <2>2. pending' \in Seq(Lines)
      BY <1>2, <1>4 DEF Batch
    <2>3. \A i, j \in 1 .. Len(pending') : i < j => pending'[i] < pending'[j]
      BY <1>2, <1>4, <2>1 DEF Batch
    <2>4. \A i \in 1 .. Len(pending') : pending'[i] <= written
      BY <1>2, <1>4, <2>1 DEF Batch
    <2>5. LinesInHand'
      BY <1>1, <2>3, <2>4 DEF Base, LinesInHand, Positions, files
    <2>6. /\ queue # {} /\ \A p \in queue : p # 0 => p <= Rotations
      BY DEF Read, Base, PollInHand
    <2> QED BY <1>1, <1>4, <2>2, <2>5, <2>6, CursorsTyped, StepBase
  <1> QED BY <1>3, <1>4 DEF Read

(* Lines in hand, all of them or the first, are added to the stream. *)
LEMMA AddDoes ==
    ASSUME Base, NEW n \in 0 .. Len(pending), Add(SubSeq(pending, 1, n))
    PROVE  /\ published' \in Seq(Lines) /\ Len(published') = Len(published) + n
           /\ Len(published) \in Nat /\ Len(pending) \in Nat
           /\ \A k \in 1 .. Len(published') :
                 published'[k] = IF k <= Len(published) THEN published[k]
                                 ELSE pending[k - Len(published)]
           /\ \A k \in 1 .. Len(published') : published'[k] <= written
  <1> DEFINE new == SubSeq(pending, 1, n)
  <1>1. /\ published \in Seq(Lines) /\ pending \in Seq(Lines)
        /\ Len(published) \in Nat /\ Len(pending) \in Nat
    BY CursorsTyped, LenProperties
  <1>2. \A i \in 1 .. n : pending[i] \in Lines
    BY <1>1, ElementOfSeq
  <1>3. /\ new \in Seq(Lines) /\ Len(new) = n
        /\ \A i \in 1 .. n : new[i] = pending[i]
    BY <1>1, <1>2, SubSeqProperties
  <1>4. published' = published \o new
    BY DEF Add
  <1> HIDE DEF new
  <1>5. /\ published' \in Seq(Lines) /\ Len(published') = Len(published) + n
        /\ \A k \in 1 .. Len(published) + n :
              published'[k] = IF k <= Len(published) THEN published[k]
                              ELSE new[k - Len(published)]
    <2>1. /\ published \o new \in Seq(Lines)
          /\ Len(published \o new) = Len(published) + Len(new)
          /\ \A k \in 1 .. Len(published) + Len(new) : (published \o new)[k] =
                IF k <= Len(published) THEN published[k] ELSE new[k - Len(published)]
      BY <1>1, <1>3, ConcatProperties
    <2> QED BY <1>3, <1>4, <2>1
  <1>6. \A k \in 1 .. Len(published') :
           published'[k] = IF k <= Len(published) THEN published[k]
                           ELSE pending[k - Len(published)]
    <2> SUFFICES ASSUME NEW k \in 1 .. Len(published')
                 PROVE  published'[k] = IF k <= Len(published) THEN published[k]
                                        ELSE pending[k - Len(published)]
      OBVIOUS
    <2>1. k \in 1 .. Len(published) + n
      BY <1>5
    <2>2. ~(k <= Len(published)) => k - Len(published) \in 1 .. n
      BY <1>1, <2>1
    <2> QED BY <1>3, <1>5, <2>1, <2>2
  <1>7. \A k \in 1 .. Len(published') : published'[k] <= written
    <2>1. /\ \A k \in 1 .. Len(published) : published[k] <= written
          /\ \A k \in 1 .. Len(pending) : pending[k] <= written
      BY DEF Base, LinesInHand, Positions
    <2> SUFFICES ASSUME NEW k \in 1 .. Len(published') PROVE published'[k] <= written
      OBVIOUS
    <2>2. CASE k <= Len(published)
      BY <1>1, <1>5, <1>6, <2>1, <2>2
    <2>3. CASE ~(k <= Len(published))
      <3>1. k - Len(published) \in 1 .. Len(pending)
        BY <1>1, <1>5, <2>3
      <3> QED BY <1>6, <2>1, <2>3, <3>1
    <2> QED BY <2>2, <2>3
  <1> QED BY <1>1, <1>5, <1>6, <1>7

LEMMA XAddIsAdd ==
    ASSUME Base, XAdd
    PROVE  Add(SubSeq(pending, 1, Len(pending))) /\ Len(pending) \in Nat
  <1>1. pending \in Seq(Lines)
    BY CursorsTyped
  <1> QED BY <1>1, SubSeqFull, LenProperties DEF XAdd

LEMMA XAddBase == ASSUME Base, XAdd PROVE Base'
  <1>1. /\ published' \in Seq(Lines)
        /\ \A k \in 1 .. Len(published') : published'[k] <= written
    BY XAddIsAdd, AddDoes
  <1>2. LinesInHand'
    BY <1>1 DEF XAdd, Base, LinesInHand, Positions, files
  <1>3. /\ queue # {} /\ \A p \in queue : p # 0 => p <= Rotations
        /\ cursors[Path].inode # 0
    BY DEF XAdd, Base, PollInHand
  <1> QED BY <1>1, <1>2, <1>3, CursorsTyped, StepBase DEF XAdd

LEMMA CrashCounts ==
    ASSUME Base, crashes < MaxCrashes, crashes' = crashes + 1
    PROVE  crashes' \in 0 .. MaxCrashes
  BY TailerAssumption DEF Base, TypeOK, TailerAssumption

LEMMA XAddFailsBase == ASSUME Base, XAddFails PROVE Base'
  <1>1. PICK n \in 0 .. Len(pending) : Add(SubSeq(pending, 1, n))
    BY DEF XAddFails
  <1>2. /\ published' \in Seq(Lines)
        /\ \A k \in 1 .. Len(published') : published'[k] <= written
    BY <1>1, AddDoes
  <1>3. LinesInHand'
    BY <1>2 DEF XAddFails, Base, LinesInHand, Positions, files
  <1>4. \A p \in queue : p # 0 => p <= Rotations
    BY DEF Base, PollInHand
  <1> QED BY <1>2, <1>3, <1>4, CursorsTyped, StepBase, CrashCounts DEF XAddFails

LEMMA SaveDoes ==
    ASSUME Base, Save
    PROVE  /\ Path \in Paths
           /\ saved'[Path] = cursors[Path]
           /\ \A p \in Paths : p # Path => saved'[p] = saved[p]
           /\ saved' \in [Paths -> Cursor]
           /\ \A p \in Paths : Fits(saved'[p], p)
  <1> DEFINE q == Path
  <1>1. q \in Paths
    BY PathInHand DEF Save, Base, PollInHand
  <1>2. saved' = [saved EXCEPT ![q] = cursors[q]]
    BY DEF Save
  <1> HIDE DEF q
  <1>3. /\ saved'[q] = cursors[q] /\ saved' \in [Paths -> Cursor]
        /\ \A p \in Paths : p # q => saved'[p] = saved[p]
    BY <1>1, <1>2, CursorsTyped
  <1>4. \A p \in Paths : Fits(saved'[p], p)
    BY <1>1, <1>3, CursorsTyped
  <1> QED BY <1>1, <1>3, <1>4 DEF q

LEMMA TailerBase ==
    ASSUME Base, Process \/ XAddFails \/ Kill \/ UNCHANGED vars
    PROVE  Base'
  <1>1. CASE StatMissing
    BY <1>1, CursorsTyped, NextPathBase DEF StatMissing
  <1>2. CASE Save
    BY <1>2, SaveDoes, CursorsTyped, NextPathBase DEF Save
  <1>3. CASE OpenFails \/ Kill
    <2>1. LinesInHand' /\ pending' \in Seq(Lines)
      BY <1>3, HandStays DEF OpenFails, Kill, files
    <2>2. \A p \in queue : p # 0 => p <= Rotations
      BY DEF Base, PollInHand
    <2>3. crashes' \in 0 .. MaxCrashes
      BY <1>3, CrashCounts, CursorsTyped DEF OpenFails, Kill
    <2> QED BY <1>3, <2>1, <2>2, <2>3, CursorsTyped, StepBase DEF OpenFails, Kill
  <1>4. CASE UNCHANGED vars
    <2>1. LinesInHand' /\ pending' \in Seq(Lines)
      BY <1>4, HandStays DEF vars
    <2>2. /\ \A p \in queue : p # 0 => p <= Rotations
          /\ pc \in {"down", "scan", "read", "xadd", "save"}
          /\ pc \in {"read", "xadd", "save"} => queue # {} /\ cursors[Path].inode # 0
      BY DEF Base, PollInHand, TypeOK
    <2> QED BY <1>4, <2>1, <2>2, CursorsTyped, StepBase DEF vars, files
  <1> QED
    BY <1>1, <1>2, <1>3, <1>4, StartBase, PollBase, StatBase, ReadBase, XAddBase,
       XAddFailsBase DEF Process

LEMMA InitBase == Init => Base
  <1> SUFFICES ASSUME Init PROVE Base
    OBVIOUS
  <1> USE TailerAssumption DEF TailerAssumption
  <1>1. \A p \in Paths : /\ disk[p] = IF p = 0 THEN [Absent EXCEPT !.inode = 1] ELSE Absent
                         /\ saved[p] = NoCursor /\ cursors[p] = NoCursor
    BY DEF Init
  <1>2. /\ Absent \in File /\ [Absent EXCEPT !.inode = 1] \in File
        /\ [Absent EXCEPT !.inode = 1].inode = 1
        /\ [Absent EXCEPT !.inode = 1].lines = <<>>
        /\ [Absent EXCEPT !.inode = 1].half = FALSE
        /\ Absent.lines = <<>> /\ Absent.inode = 0 /\ Absent.half = FALSE
        /\ <<>> \in Seq(Lines) /\ Len(<<>>) = 0
    <2>1. <<>> \in Seq(Lines) /\ Len(<<>>) = 0
      BY EmptySeq
    <2>2. /\ Absent \in File
          /\ Absent.lines = <<>> /\ Absent.inode = 0 /\ Absent.half = FALSE
      BY <2>1 DEF Absent, File
    <2>3. 1 \in 0 .. MaxRotations + 1
      OBVIOUS
    <2>4. /\ [Absent EXCEPT !.inode = 1] \in File
          /\ [Absent EXCEPT !.inode = 1].inode = 1
          /\ [Absent EXCEPT !.inode = 1].lines = Absent.lines
          /\ [Absent EXCEPT !.inode = 1].half = Absent.half
      BY <2>2, <2>3 DEF File
    <2> QED BY <2>1, <2>2, <2>4
  <1>3. NoCursor \in Cursor /\ NoCursor.offset = 0 /\ NoCursor.inode = 0
    BY DEF NoCursor, Cursor
  <1>4. TypeOK
    <2>1. disk \in [Paths -> File]
      BY <1>2 DEF Init
    <2> QED BY <1>2, <1>3, <2>1 DEF Init, TypeOK
  <1>5. Rotations = 0
    <2>1. {p \in Paths \ {0} : Exists(p)} = {}
      BY <1>1 DEF Exists
    <2> QED BY <2>1, FS_EmptySet DEF Rotations
  <1>6. Inodes
    <2>1. disk[0].inode = 1 /\ Absent.inode = 0
      BY <1>1, <1>2, PathsAre
    <2>2. Exists(0)
      BY <2>1 DEF Exists
    <2>3. \A p \in Paths \ {0} : disk[p] = Absent /\ disk[p].inode = 0 /\ ~(p <= 0)
      BY <1>1, <1>2, PathsAre
    <2>4. \A p \in Paths : disk[p].half = FALSE
      BY <1>1, <1>2
    <2> QED BY <1>5, <2>1, <2>2, <2>3, <2>4, PathsAre DEF Inodes
  <1>7. LinesInPlace
    <2>1. \A p \in Paths : disk[p].lines = <<>>
      BY <1>1, <1>2
    <2> QED BY <1>2, <2>1 DEF LinesInPlace, Held, Init
  <1>8. LinesInHand
    BY <1>2 DEF Init, LinesInHand, Positions
  <1>9. CursorsFit
    BY <1>1, <1>3, <1>5 DEF CursorsFit, Fits
  <1>10. PollInHand
    BY DEF Init, PollInHand
  <1> QED BY <1>4, <1>6, <1>7, <1>8, <1>9, <1>10 DEF Base

(* The state is well typed, files, cursors and lines in place.               *)
THEOREM BaseAlways == Spec => []Base
  <1>1. Base /\ [Next]_vars => Base'
    BY DecoyBase, TailerBase DEF Next
  <1> QED BY <1>1, InitBase, PTL DEF Spec

(* The tailer's state is well typed: offsets, inodes and lines stay within   *)
(* what the decoy has written (tailer.py:44-99).                             *)
THEOREM TypeCorrect == Spec => []TypeOK
  <1>1. Base => TypeOK
    BY DEF Base
  <1> QED BY <1>1, BaseAlways, PTL

-----------------------------------------------------------------------------
(* The lines that are in the stream, and those about to be. *)
Published == {published[k] : k \in Positions}

Batched == IF pc = "xadd" THEN {pending[k] : k \in 1 .. Len(pending)} ELSE {}

(* Below the offset of a cursor on a file, every event is one of those done. *)
Reached(f, c, done) ==
    (f.inode # 0 /\ c.inode = f.inode) =>
        /\ c.offset <= 2 * Len(f.lines)
        /\ \A n \in 1 .. Len(f.lines) : 2 * n <= c.offset => f.lines[n] \in Junk \cup done

KeptInv ==
    truncations = 0 =>
        /\ \A p \in Paths : Reached(disk[p], saved[p], Published)
        /\ pc # "down" =>
              \A p \in Paths : Reached(disk[p], cursors[p], Published \cup Batched)

LEMMA ReachedMore ==
    ASSUME NEW f, NEW c, NEW D1, NEW D2, Reached(f, c, D1), D1 \subseteq D2
    PROVE  Reached(f, c, D2)
  BY DEF Reached

(* Whatever the decoy does but truncate, a cursor has reached what it had. *)
LEMMA DecoyReached ==
    ASSUME Base, Decoy, truncations' = 0, truncations = 0,
           NEW p \in Paths, NEW c \in Cursor, Fits(c, p),
           NEW D, Reached(disk[p], c, D)
    PROVE  Reached(disk'[p], c, D)
  <1>1. TypeOK /\ Inodes /\ Rotations \in Nat /\ p \in Int
    BY RotationsType, PathsAre DEF Base
  <1>2. CASE BeginLine
    <2>1. disk'[p].lines = disk[p].lines /\ disk'[p].inode = disk[p].inode
      BY <1>1, <1>2, BeginLineDoes
    <2> QED BY <2>1 DEF Reached
  <1>3. CASE EndLine
    <2>1. /\ disk'[0].inode = disk[0].inode
          /\ Len(disk'[0].lines) = Len(disk[0].lines) + 1
          /\ \A n \in Held(0) : disk'[0].lines[n] = disk[0].lines[n]
          /\ \A q \in Paths \ {0} : disk'[q] = disk[q]
      BY <1>1, <1>3, EndLineDoes
    <2>2. CASE p = 0
      <3> DEFINE f == disk[0]
                 g == disk'[0]
      <3>1. Len(f.lines) \in Nat /\ c.offset \in Int
        BY <1>1, PathsAre, FileAt DEF Cursor
      <3>2. \A n \in 1 .. Len(f.lines) : g.lines[n] = f.lines[n]
        BY <2>1 DEF Held
      <3>3. Reached(f, c, D) /\ g.inode = f.inode /\ Len(g.lines) = Len(f.lines) + 1
        BY <2>1, <2>2
      <3> HIDE DEF f, g
      <3> SUFFICES ASSUME g.inode # 0, c.inode = g.inode PROVE Reached(g, c, D)
        BY <2>2 DEF Reached, g
      <3>4. /\ c.offset <= 2 * Len(f.lines)
            /\ \A n \in 1 .. Len(f.lines) : 2 * n <= c.offset => f.lines[n] \in Junk \cup D
        BY <3>3 DEF Reached
      <3>5. \A n \in 1 .. Len(g.lines) : 2 * n <= c.offset => n \in 1 .. Len(f.lines)
        BY <3>1, <3>3, <3>4
      <3>6. \A n \in 1 .. Len(g.lines) : 2 * n <= c.offset => g.lines[n] \in Junk \cup D
        BY <3>2, <3>4, <3>5
      <3>7. c.offset <= 2 * Len(g.lines)
        BY <3>1, <3>3, <3>4
      <3> QED BY <3>6, <3>7 DEF Reached
    <2> QED BY <2>1, <2>2
  <1>4. CASE Rename
    <2>1. /\ disk'[0] = Absent
          /\ disk'[Rotations + 1] = disk[0] /\ disk[0].inode = Rotations + 1
          /\ \A q \in Paths \ {0, Rotations + 1} : disk'[q] = disk[q]
      BY <1>1, <1>4, RenameDoes
    <2>2. CASE p = 0
      BY <2>1, <2>2 DEF Reached, Absent
    <2>3. CASE p = Rotations + 1
      <3>1. c.inode = 0
        BY <1>1, <2>3 DEF Fits
      <3> QED BY <1>1, <2>1, <2>3, <3>1 DEF Reached
    <2> QED BY <2>1, <2>2, <2>3
  <1>5. CASE Reopen
    <2>1. /\ disk'[0].inode = Rotations + 1 /\ disk[0].inode = 0
          /\ \A q \in Paths \ {0} : disk'[q] = disk[q]
      BY <1>1, <1>5, ReopenDoes
    <2>2. CASE p = 0
      <3>1. c.inode <= Rotations /\ c.inode \in Int
        BY <2>1, <2>2 DEF Fits, Cursor
      <3> QED BY <1>1, <2>1, <2>2, <3>1 DEF Reached
    <2> QED BY <2>1, <2>2
  <1>6. ~Truncate
    BY DEF Truncate
  <1> QED BY <1>2, <1>3, <1>4, <1>5, <1>6 DEF Decoy

LEMMA AddPublishes ==
    ASSUME Base, NEW n \in 0 .. Len(pending), Add(SubSeq(pending, 1, n))
    PROVE  /\ Published \subseteq Published'
           /\ n = Len(pending) => \A k \in 1 .. Len(pending) : pending[k] \in Published'
           /\ \A l \in Published' : l \in Published \/ \E k \in 1 .. n : l = pending[k]
  <1> DEFINE len == Len(published)
  <1>1. /\ len \in Nat /\ Len(pending) \in Nat /\ Len(published') = len + n
        /\ \A k \in 1 .. len + n :
              published'[k] = IF k <= len THEN published[k] ELSE pending[k - len]
    BY AddDoes
  <1>2. Published' = {published'[k] : k \in 1 .. len + n}
    BY <1>1 DEF Published, Positions
  <1>3. Published = {published[k] : k \in 1 .. len}
    BY DEF Published, Positions
  <1> HIDE DEF len
  <1>4. \A k \in 1 .. len : published[k] = published'[k] /\ k \in 1 .. len + n
    BY <1>1
  <1>5. \A k \in 1 .. n : pending[k] = published'[len + k] /\ len + k \in 1 .. len + n
    BY <1>1
  <1>6. \A k \in 1 .. len + n : k \in 1 .. len \/ k - len \in 1 .. n
    BY <1>1
  <1>7. Published \subseteq Published'
    BY <1>2, <1>3, <1>4
  <1>8. \A k \in 1 .. n : pending[k] \in Published'
    BY <1>2, <1>5
  <1>9. \A l \in Published' : l \in Published \/ \E k \in 1 .. n : l = pending[k]
    <2> SUFFICES ASSUME NEW k \in 1 .. len + n
                 PROVE  published'[k] \in Published \/ \E j \in 1 .. n : published'[k] = pending[j]
      BY <1>2
    <2>1. CASE k \in 1 .. len
      BY <1>3, <1>4, <2>1
    <2>2. CASE k \notin 1 .. len
      BY <1>1, <1>6, <2>2
    <2> QED BY <2>1, <2>2
  <1> QED BY <1>7, <1>8, <1>9

LEMMA DecoyKept == ASSUME Base, KeptInv, Decoy PROVE KeptInv'
  <1>1. UNCHANGED tailer /\ truncations' \in {truncations, truncations + 1}
    BY DEF Decoy, BeginLine, EndLine, Rename, Reopen, Truncate
  <1>2. Published' = Published /\ Batched' = Batched
    BY <1>1 DEF tailer, Published, Batched, Positions
  <1>3. truncations' = 0 => truncations = 0
    BY <1>1 DEF Base, TypeOK
  <1>4. ASSUME truncations' = 0, NEW p \in Paths
        PROVE  /\ Reached(disk'[p], saved[p], Published)
               /\ pc # "down" => Reached(disk'[p], cursors[p], Published \cup Batched)
    BY <1>3, <1>4, CursorsTyped, DecoyReached DEF KeptInv
  <1> QED BY <1>1, <1>2, <1>4 DEF KeptInv, tailer

LEMMA StatKept == ASSUME Base, KeptInv, Stat PROVE KeptInv'
  <1> DEFINE q == Path
             c == cursors[q]
             d == Checked(c, disk[q])
  <1>1. /\ q \in Paths /\ disk[q].inode # 0
        /\ cursors'[q] = d
        /\ \A p \in Paths : p # q => cursors'[p] = cursors[p]
        /\ UNCHANGED files /\ UNCHANGED <<saved, published>>
    BY StatDoes DEF Stat
  <1>2. Batched = {} /\ Batched' = {} /\ Published' = Published /\ pc # "down"
    BY <1>1 DEF Stat, NextPath, Batched, Published, Positions
  <1>3. Fits(c, q) /\ c \in Cursor /\ disk[q].lines \in Seq(Lines)
    BY <1>1, CursorsTyped, FileAt DEF Base
  <1>4. truncations = 0 => Reached(disk[q], d, Published)
    <2> SUFFICES ASSUME truncations = 0 PROVE Reached(disk[q], d, Published)
      OBVIOUS
    <2>1. Reached(disk[q], c, Published)
      BY <1>1, <1>2 DEF KeptInv
    <2>2. Len(disk[q].lines) \in Nat
      BY <1>3, LenProperties
    <2>3. CASE d.offset = 0
      BY <2>2, <2>3 DEF Reached
    <2>4. CASE d.offset = c.offset /\ c.inode = disk[q].inode
      BY <2>1, <2>4 DEF Reached
    <2>5. c.inode = 0 => c.offset = 0
      BY <1>3 DEF Fits
    <2> QED BY <2>3, <2>4, <2>5 DEF Checked
  <1> HIDE DEF d, q
  <1>5. truncations = 0 => \A p \in Paths : Reached(disk[p], cursors'[p], Published)
    BY <1>1, <1>2, <1>4 DEF KeptInv
  <1> QED BY <1>1, <1>2, <1>5 DEF KeptInv, files

LEMMA ReadKept == ASSUME Base, KeptInv, Read PROVE KeptInv'
  <1> DEFINE q == Path
             c == cursors[q]
             f == disk[q]
             new == LinesFrom(f, c.offset)
  <1>1. /\ q \in Paths
        /\ cursors'[q].inode = c.inode
        /\ cursors'[q].offset = IF 2 * Len(f.lines) > c.offset THEN 2 * Len(f.lines)
                                ELSE c.offset
        /\ \A p \in Paths : p # q => cursors'[p] = cursors[p]
        /\ UNCHANGED files /\ UNCHANGED <<saved, published>>
    BY ReadDoes DEF Read
  <1>2. PICK first \in 0 .. MaxLines :
           c.offset = 2 * first /\ Batch(f.lines, first, Len(f.lines), new)
    BY ReadDoes
  <1>3. Batched = {} /\ Published' = Published /\ pc # "down"
    BY <1>1 DEF Read, Batched, Published, Positions
  <1>4. new # <<>> => Batched' = {new[k] : k \in 1 .. Len(new)}
    BY DEF Read, Batched
  <1>5. Len(f.lines) \in Nat /\ Len(<<>>) = 0
    BY <1>1, FileAt DEF Base
  <1>6. truncations = 0 => Reached(f, cursors'[q], Published \cup Batched')
    <2> SUFFICES ASSUME truncations = 0, f.inode # 0, c.inode = f.inode
                 PROVE  Reached(f, cursors'[q], Published \cup Batched')
      BY <1>1 DEF Reached
    <2>1. Reached(f, c, Published)
      BY <1>1, <1>3 DEF KeptInv
    <2> HIDE DEF new, f, c, q
    <2>2. \A n \in 1 .. Len(f.lines) : first < n /\ f.lines[n] \notin Junk =>
             \E j \in 1 .. Len(new) : new[j] = f.lines[n]
      BY <1>2 DEF Batch
    <2>3. \A n \in 1 .. Len(f.lines) : f.lines[n] \in Junk \cup Published \cup Batched'
      <3> SUFFICES ASSUME NEW n \in 1 .. Len(f.lines), f.lines[n] \notin Junk
                   PROVE  f.lines[n] \in Published \cup Batched'
        OBVIOUS
      <3>1. CASE first < n
        BY <1>4, <1>5, <2>2, <3>1
      <3>2. CASE n <= first
        BY <1>2, <1>5, <2>1, <3>2 DEF Reached
      <3> QED BY <1>5, <3>1, <3>2
    <2>4. cursors'[q].offset <= 2 * Len(f.lines)
      BY <1>1, <1>2, <1>5, <2>1 DEF Reached
    <2> QED BY <2>3, <2>4 DEF Reached
  <1> HIDE DEF new, f, q, c
  <1>7. truncations = 0 =>
           \A p \in Paths : Reached(disk[p], cursors'[p], Published \cup Batched')
    <2> SUFFICES ASSUME truncations = 0, NEW p \in Paths
                 PROVE  Reached(disk[p], cursors'[p], Published \cup Batched')
      OBVIOUS
    <2>1. CASE p = q
      BY <1>6, <2>1 DEF f
    <2>2. CASE p # q
      <3>1. Reached(disk[p], cursors'[p], Published)
        BY <1>1, <1>3, <2>2 DEF KeptInv
      <3> QED BY <3>1, ReachedMore
    <2> QED BY <2>1, <2>2
  <1> QED BY <1>1, <1>3, <1>7 DEF KeptInv, files

LEMMA TailerKept ==
    ASSUME Base, KeptInv, Process \/ XAddFails \/ Kill \/ UNCHANGED vars
    PROVE  KeptInv'
  <1>1. ASSUME UNCHANGED files, saved' = saved, Published \subseteq Published',
               pc' = "down"
        PROVE  KeptInv'
    BY <1>1, ReachedMore DEF KeptInv, files
  <1>2. ASSUME UNCHANGED files, UNCHANGED <<saved, cursors>>, Published' = Published,
               Batched' = Batched, pc = "down" => pc' = "down"
        PROVE  KeptInv'
    BY <1>2 DEF KeptInv, files
  <1>3. CASE Start
    <2>1. /\ UNCHANGED files /\ saved' = saved /\ cursors' = saved
          /\ Published' = Published /\ Batched' = {}
      BY <1>3 DEF Start, Published, Positions, Batched
    <2> QED BY <2>1, ReachedMore DEF KeptInv, files
  <1>4. CASE Poll \/ StatMissing
    BY <1>2, <1>4 DEF Poll, StatMissing, NextPath, Published, Positions, Batched
  <1>5. CASE OpenFails \/ Kill
    BY <1>1, <1>5 DEF OpenFails, Kill, Published, Positions
  <1>6. CASE XAdd
    <2>1. Published \cup Batched \subseteq Published'
      BY <1>6, XAddIsAdd, AddPublishes DEF Batched
    <2>2. /\ UNCHANGED files /\ UNCHANGED <<saved, cursors>>
          /\ pc # "down"
      BY <1>6 DEF XAdd
    <2> QED BY <2>1, <2>2, ReachedMore DEF KeptInv, files
  <1>7. CASE XAddFails
    <2>1. Published \subseteq Published'
      BY <1>7, AddPublishes DEF XAddFails
    <2> QED BY <1>1, <1>7, <2>1 DEF XAddFails
  <1>8. CASE Save
    <2>1. /\ UNCHANGED files /\ cursors' = cursors
          /\ Published' = Published /\ Batched = {} /\ Batched' = {} /\ pc # "down"
      BY <1>8 DEF Save, NextPath, Published, Positions, Batched
    <2>2. \A p \in Paths : saved'[p] \in {saved[p], cursors[p]}
      BY <1>8, SaveDoes
    <2> QED BY <2>1, <2>2 DEF KeptInv, files
  <1>9. CASE UNCHANGED vars
    BY <1>2, <1>9 DEF vars, files, Published, Positions, Batched
  <1> QED
    BY <1>3, <1>4, <1>5, <1>6, <1>7, <1>8, <1>9, StatKept, ReadKept DEF Process

LEMMA KeptRestarts == ASSUME Base, KeptInv PROVE RestartLosesNothing
  <1> SUFFICES ASSUME truncations = 0, NEW p \in Paths, Exists(p),
                      NEW n \in 1 .. Checked(saved[p], disk[p]).offset \div 2
               PROVE  disk[p].lines[n] \in Junk \/ IsPublished(disk[p].lines[n])
    BY DEF RestartLosesNothing
  <1> DEFINE c == saved[p]
             d == Checked(c, disk[p])
  <1>1. disk[p].inode # 0 /\ Len(disk[p].lines) \in Nat
    BY ExistsIs, FileAt DEF Base
  <1>2. Fits(c, p) /\ Reached(disk[p], c, Published)
    BY CursorsTyped DEF KeptInv
  <1>3. PICK m \in 0 .. MaxLines : c.offset = 2 * m
    BY <1>2 DEF Fits
  <1>4. d.offset = 0 \/ (d.offset = c.offset /\ c.inode \in {0, disk[p].inode})
    BY DEF Checked
  <1> HIDE DEF d
  <1>5. d.offset # 0
    BY Halves DEF d
  <1>6. c.inode = disk[p].inode /\ d.offset = 2 * m
    BY <1>2, <1>3, <1>4, <1>5 DEF Fits
  <1>7. n \in 1 .. m
    BY <1>6, Halves DEF d
  <1>8. 2 * n <= c.offset /\ n \in 1 .. Len(disk[p].lines)
    BY <1>1, <1>2, <1>3, <1>6, <1>7 DEF Reached
  <1>9. disk[p].lines[n] \in Junk \cup Published
    BY <1>1, <1>2, <1>6, <1>8 DEF Reached
  <1> QED BY <1>9 DEF Published, IsPublished

(* The checkpoint never runs ahead of the stream: a crash re-reads rather    *)
(* than loses (tailer.py:165-167).                                           *)
THEOREM NothingLost == Spec => []RestartLosesNothing
  <1>1. Init => KeptInv
    <2> SUFFICES ASSUME Init PROVE KeptInv
      OBVIOUS
    <2>1. \A p \in Paths : saved[p] = NoCursor /\ pc = "down"
      BY DEF Init
    <2> QED BY <2>1 DEF KeptInv, Reached, NoCursor
  <1>2. Base /\ KeptInv /\ [Next]_vars => KeptInv'
    BY DecoyKept, TailerKept DEF Next
  <1>3. Base /\ KeptInv => RestartLosesNothing
    BY KeptRestarts
  <1> QED BY <1>1, <1>2, <1>3, BaseAlways, PTL DEF Spec

-----------------------------------------------------------------------------
(* The lines past a cursor, had the file been looked at now. *)
Unread(f, c) ==
    {f.lines[n] : n \in {m \in 1 .. Len(f.lines) : 2 * m > Checked(c, f).offset}}

LEMMA FileIs ==
    ASSUME NEW f \in File, NEW c \in Cursor
    PROVE  /\ Len(f.lines) \in Nat /\ Size(f) \in Int /\ Size(f) >= 2 * Len(f.lines)
           /\ f.half = FALSE => Size(f) = 2 * Len(f.lines)
           /\ c.offset \in Nat /\ Checked(c, f).offset \in Nat
           /\ Checked(c, f).inode = f.inode
  <1>1. f.lines \in Seq(Lines) /\ f.half \in BOOLEAN
    BY DEF File
  <1>2. Len(f.lines) \in Nat
    BY <1>1, LenProperties
  <1>3. c.offset \in Nat
    BY TailerAssumption DEF Cursor, TailerAssumption
  <1>4. Checked(c, f).offset \in Nat /\ Checked(c, f).inode = f.inode
    BY <1>3 DEF Checked
  <1> DEFINE len == Len(f.lines)
  <1>5. Size(f) = 2 * len + (IF f.half THEN 1 ELSE 0) /\ len \in Nat
    BY <1>2 DEF Size
  <1> HIDE DEF len
  <1>6. Size(f) \in Int /\ Size(f) >= 2 * len /\ (f.half = FALSE => Size(f) = 2 * len)
    BY <1>1, <1>5
  <1> QED BY <1>2, <1>3, <1>4, <1>6 DEF len

LEMMA UnreadIs ==
    ASSUME NEW f, NEW c, NEW l
    PROVE  l \in Unread(f, c) <=>
             \E n \in 1 .. Len(f.lines) : 2 * n > Checked(c, f).offset /\ l = f.lines[n]
  BY DEF Unread

LEMMA NothingUnread ==
    ASSUME NEW f, NEW c, f.lines = <<>>
    PROVE  Unread(f, c) = {}
  BY EmptySeq DEF Unread

(* To look at a file again leaves the same lines to read. *)
LEMMA CheckedTwice ==
    ASSUME NEW f \in File, NEW c \in Cursor, f.inode # 0
    PROVE  Unread(f, Checked(c, f)) = Unread(f, c)
  <1> DEFINE d == Checked(c, f)
  <1>1. Size(f) \in Int /\ Size(f) >= 0 /\ c.offset \in Nat
    <2>1. /\ Len(f.lines) \in Nat /\ Size(f) \in Int /\ Size(f) >= 2 * Len(f.lines)
          /\ c.offset \in Nat
      BY FileIs
    <2> QED BY <2>1
  <1>2. d.inode = f.inode /\ (d.offset = 0 \/ (d.offset = c.offset /\ ~(Size(f) < c.offset)))
    BY DEF Checked
  <1> HIDE DEF d
  <1>3. ~(Size(f) < d.offset)
    BY <1>1, <1>2
  <1>4. Checked(d, f).offset = d.offset
    BY <1>2, <1>3 DEF Checked
  <1> QED BY <1>4 DEF Unread, d

(* While a file grows, a cursor is past no fewer of its lines. *)
LEMMA UnreadGrows ==
    ASSUME NEW f \in File, NEW g \in File, NEW c \in Cursor, g.inode = f.inode,
           Size(g) >= Size(f),
           Len(g.lines) >= Len(f.lines),
           \A n \in 1 .. Len(f.lines) : g.lines[n] = f.lines[n]
    PROVE  \A l \in Unread(g, c) :
              l \in Unread(f, c) \/ \E n \in Len(f.lines) + 1 .. Len(g.lines) : l = g.lines[n]
  <1>1. /\ Size(f) \in Int /\ Size(g) \in Int /\ c.offset \in Nat
        /\ Len(f.lines) \in Nat /\ Len(g.lines) \in Nat
        /\ Checked(c, f).offset \in Nat /\ Checked(c, g).offset \in Nat
    BY FileIs
  <1>2. Checked(c, f).offset <= Checked(c, g).offset
    BY <1>1 DEF Checked
  <1> TAKE l \in Unread(g, c)
  <1>3. PICK n \in 1 .. Len(g.lines) : 2 * n > Checked(c, g).offset /\ l = g.lines[n]
    BY UnreadIs
  <1>4. CASE n \in 1 .. Len(f.lines)
    <2>1. 2 * n > Checked(c, f).offset
      BY <1>1, <1>2, <1>3
    <2> QED BY <1>3, <1>4, <2>1, UnreadIs
  <1>5. CASE n \notin 1 .. Len(f.lines)
    <2>1. n \in Len(f.lines) + 1 .. Len(g.lines)
      BY <1>1, <1>5
    <2> QED BY <1>3, <2>1
  <1> QED BY <1>4, <1>5

(* A read takes lines that were unread, and then none are; of a file that it *)
(* takes for another it takes what is past the old one's offset.             *)
LEMMA ReadUnread ==
    ASSUME NEW f \in File, NEW c \in Cursor, NEW d \in Cursor, NEW first \in Nat, NEW new,
           f.inode # 0, c.inode # 0, c.offset = 2 * first,
           Batch(f.lines, first, Len(f.lines), new),
           d.inode = c.inode,
           d.offset = IF 2 * Len(f.lines) > c.offset THEN 2 * Len(f.lines) ELSE c.offset
    PROVE  /\ Unread(f, d) \subseteq Unread(f, c)
           /\ c.inode = f.inode => \A k \in 1 .. Len(new) :
                 new[k] \in Unread(f, c) /\ Unread(f, d) = {}
           /\ \A k \in 1 .. Len(new) : \E n \in 1 .. Len(f.lines) : new[k] = f.lines[n]
  <1>1. /\ Size(f) \in Int /\ c.offset \in Nat /\ d.offset \in Nat /\ Len(f.lines) \in Nat
        /\ Size(f) >= 2 * Len(f.lines)
    BY FileIs
  <1>2. \A k \in 1 .. Len(new) :
           \E n \in 1 .. Len(f.lines) : first < n /\ new[k] = f.lines[n]
    BY DEF Batch
  <1>3. CASE c.inode # f.inode
    <2>1. Checked(d, f).offset = 0 /\ Checked(c, f).offset = 0
      BY <1>3 DEF Checked
    <2>2. Unread(f, d) = Unread(f, c)
      BY <2>1 DEF Unread
    <2> QED BY <1>2, <1>3, <2>2
  <1>4. CASE c.inode = f.inode /\ ~(2 * Len(f.lines) > c.offset)
    <2>1. \A k \in 1 .. Len(new) : FALSE
      BY <1>1, <1>2, <1>4
    <2>2. Checked(d, f).offset = Checked(c, f).offset
      BY <1>4 DEF Checked
    <2>3. Unread(f, d) = Unread(f, c)
      BY <2>2 DEF Unread
    <2> QED BY <2>1, <2>3
  <1>5. CASE c.inode = f.inode /\ 2 * Len(f.lines) > c.offset
    <2>1. Checked(c, f).offset = c.offset
      BY <1>1, <1>5 DEF Checked
    <2>2. Checked(d, f).offset = 2 * Len(f.lines)
      BY <1>1, <1>5 DEF Checked
    <2>3. Unread(f, d) = {}
      <3>1. \A n \in 1 .. Len(f.lines) : ~(2 * n > Checked(d, f).offset)
        BY <1>1, <2>2
      <3> QED BY <3>1 DEF Unread
    <2>4. \A k \in 1 .. Len(new) : new[k] \in Unread(f, c)
      <3>1. \A n \in 1 .. Len(f.lines) : first < n => 2 * n > Checked(c, f).offset
        BY <1>1, <2>1
      <3> QED BY <1>2, <3>1, UnreadIs
    <2> QED BY <1>2, <2>3, <2>4
  <1> QED BY <1>3, <1>4, <1>5

LEMMA DecoyUnread ==
    ASSUME Base, Decoy, NEW p \in Paths, NEW c \in Cursor
    PROVE  \A l \in Unread(disk'[p], c) :
              l \in Unread(disk[p], c) \/ (EndLine /\ l = written + 1) \/ Rename
  <1>1. TypeOK /\ Inodes /\ TypeOK'
    BY DecoyBase DEF Base
  <1>2. disk[p] \in File /\ disk'[p] \in File /\ disk[p].half \in BOOLEAN
    BY <1>1, FileAt DEF TypeOK, File
  <1>3. Len(disk[p].lines) \in Nat
    BY <1>2, FileIs
  <1>4. CASE BeginLine
    <2>1. CASE p = 0
      <3>1. /\ disk'[p].lines = disk[p].lines /\ disk'[p].inode = disk[p].inode
            /\ disk[p].half = FALSE /\ disk'[p].half = TRUE
        BY <1>1, <1>4, <2>1, BeginLineDoes
      <3>2. Size(disk'[p]) >= Size(disk[p])
        BY <1>3, <3>1 DEF Size
      <3> QED BY <1>2, <1>3, <3>1, <3>2, UnreadGrows
    <2>2. CASE p # 0
      <3>1. disk'[p] = disk[p]
        BY <1>1, <1>4, <2>2, BeginLineDoes
      <3> QED BY <3>1
    <2> QED BY <2>1, <2>2
  <1>5. CASE EndLine
    <2>1. CASE p = 0
      <3>1. /\ Len(disk'[p].lines) = Len(disk[p].lines) + 1
            /\ disk'[p].inode = disk[p].inode
            /\ disk[p].half /\ disk'[p].half = FALSE
            /\ disk'[p].lines[Len(disk[p].lines) + 1] = written + 1
            /\ \A n \in Held(p) : disk'[p].lines[n] = disk[p].lines[n]
        BY <1>1, <1>5, <2>1, EndLineDoes
      <3>2. Size(disk'[p]) >= Size(disk[p]) /\ Len(disk'[p].lines) >= Len(disk[p].lines)
        <4> DEFINE len == Len(disk[p].lines)
        <4>1. Size(disk[p]) = 2 * len + 1
          BY <3>1 DEF Size
        <4>2. Size(disk'[p]) = 2 * (len + 1) + 0 /\ Len(disk'[p].lines) = len + 1
          BY <3>1 DEF Size
        <4>3. len \in Nat
          BY <1>3
        <4> HIDE DEF len
        <4> QED BY <4>1, <4>2, <4>3 DEF len
      <3>3. \A l \in Unread(disk'[p], c) :
               \/ l \in Unread(disk[p], c)
               \/ \E n \in Len(disk[p].lines) + 1 .. Len(disk'[p].lines) : l = disk'[p].lines[n]
        <4> DEFINE f == disk[p]
                   g == disk'[p]
        <4>1. /\ f \in File /\ g \in File /\ g.inode = f.inode
              /\ Size(g) >= Size(f) /\ Len(g.lines) >= Len(f.lines)
              /\ \A n \in 1 .. Len(f.lines) : g.lines[n] = f.lines[n]
          BY <1>2, <3>1, <3>2 DEF Held
        <4> HIDE DEF f, g
        <4>2. \A l \in Unread(g, c) :
                 l \in Unread(f, c) \/ \E n \in Len(f.lines) + 1 .. Len(g.lines) : l = g.lines[n]
          BY <4>1, UnreadGrows
        <4> QED BY <4>2 DEF f, g
      <3>4. \A n \in Len(disk[p].lines) + 1 .. Len(disk'[p].lines) : n = Len(disk[p].lines) + 1
        BY <1>3, <3>1
      <3> QED BY <1>5, <3>1, <3>3, <3>4
    <2>2. CASE p # 0
      <3>1. disk'[p] = disk[p]
        BY <1>1, <1>5, <2>2, EndLineDoes
      <3> QED BY <3>1
    <2> QED BY <2>1, <2>2
  <1>6. CASE Reopen \/ Truncate
    <2>1. disk'[p].lines = <<>> \/ disk'[p] = disk[p]
      BY <1>1, <1>6, ReopenDoes, TruncateDoes
    <2> QED BY <2>1, NothingUnread
  <1> QED BY <1>4, <1>5, <1>6 DEF Decoy

LEMMA RepetitionsType ==
    ASSUME Base, Base', NEW l
    PROVE  Repetitions(l) \in Nat /\ Repetitions(l)' \in Nat
  <1>1. ASSUME NEW s \in Seq(Lines)
        PROVE  Cardinality({n \in 1 .. Len(s) : s[n] = l}) \in Nat
    <2>1. IsFiniteSet(1 .. Len(s))
      BY LenProperties, FS_Interval
    <2> QED BY <2>1, FS_Subset, FS_CardinalityType
  <1>2. published \in Seq(Lines) /\ published' \in Seq(Lines)
    BY DEF Base, TypeOK
  <1> QED BY <1>1, <1>2 DEF Repetitions, Positions

(* Lines in hand are all different: each is published once. *)
LEMMA AddRepeats ==
    ASSUME Base, NEW n \in 0 .. Len(pending), Add(SubSeq(pending, 1, n)), NEW l
    PROVE  Repetitions(l)' <= Repetitions(l)
                                  + (IF \E k \in 1 .. n : pending[k] = l THEN 1 ELSE 0)
  <1> DEFINE len == Len(published)
             Old == {k \in Positions : published[k] = l}
             New == {k \in 1 .. len + n : published'[k] = l}
  <1>1. /\ len \in Nat /\ Len(pending) \in Nat /\ Len(published') = len + n
        /\ \A k \in 1 .. len + n :
              published'[k] = IF k <= len THEN published[k] ELSE pending[k - len]
    BY AddDoes
  <1>2. IsFiniteSet(Old) /\ Cardinality(Old) \in Nat
    <2>1. IsFiniteSet(Positions)
      BY <1>1, FS_Interval DEF Positions
    <2> QED BY <2>1, FS_Subset, FS_CardinalityType
  <1>3. Repetitions(l) = Cardinality(Old) /\ Repetitions(l)' = Cardinality(New)
    BY <1>1 DEF Repetitions, Positions
  <1>4. Positions = 1 .. len
    BY DEF Positions
  <1>5. \A j, k \in 1 .. n : pending[j] = pending[k] => j = k
    <2>1. \A j \in 1 .. Len(pending) : pending[j] \in Int
      <3>1. \A j \in 1 .. Len(pending) : pending[j] \in Lines
        BY CursorsTyped, ElementOfSeq
      <3>2. \A x \in Lines : x \in Int
        BY DEF Lines
      <3> QED BY <3>1, <3>2
    <2>2. \A j, k \in 1 .. Len(pending) : j < k => pending[j] < pending[k]
      BY DEF Base, LinesInHand
    <2>3. \A j \in 1 .. n : j \in 1 .. Len(pending) /\ j \in Int
      BY <1>1
    <2> QED BY <2>1, <2>2, <2>3
  <1> HIDE DEF len
  <1>6. CASE \E k \in 1 .. n : pending[k] = l
    <2>1. PICK k \in 1 .. n : pending[k] = l
      BY <1>6
    <2>2. New = Old \cup {len + k} /\ len + k \notin Old
      <3>1. len + k \in New /\ len + k \notin Old
        BY <1>1, <1>4, <2>1
      <3>2. ASSUME NEW j \in New, j \notin Old PROVE j = len + k
        <4>1. ~(j <= len) /\ j - len \in 1 .. n
          BY <1>1, <1>4, <3>2
        <4>2. pending[j - len] = l
          BY <1>1, <3>2, <4>1
        <4>3. j - len = k
          BY <1>5, <2>1, <4>1, <4>2
        <4> QED BY <1>1, <3>2, <4>3
      <3>3. Old \subseteq New
        BY <1>1, <1>4
      <3> HIDE DEF Old, New
      <3> QED BY <3>1, <3>2, <3>3
    <2>3. Cardinality(New) = Cardinality(Old) + 1
      <3> HIDE DEF Old, New
      <3> QED BY <1>2, <2>2, FS_AddElement
    <2> QED BY <1>2, <1>3, <1>6, <2>3
  <1>7. CASE ~ \E k \in 1 .. n : pending[k] = l
    <2>1. New = Old
      <3>1. \A j \in 1 .. len + n : ~(j <= len) => j - len \in 1 .. n
        BY <1>1
      <3>2. \A j \in 1 .. len + n : published'[j] = l => j <= len
        BY <1>1, <1>7, <3>1
      <3> QED BY <1>1, <1>4, <3>2
    <2>2. Repetitions(l)' = Repetitions(l) /\ Repetitions(l) \in Nat
      BY <1>2, <1>3, <2>1
    <2> QED BY <1>7, <2>2
  <1> QED BY <1>6, <1>7

(* A line will be read if a cursor, or the checkpoint a successor starts     *)
(* from, has it before it; the checkpoint that is about to be replaced does  *)
(* not count.                                                                *)
Owed(l) ==
    \E p \in Paths :
        \/ pc # "down" /\ l \in Unread(disk[p], cursors[p])
        \/ (pc \in {"xadd", "save"} => p # Path) /\ l \in Unread(disk[p], saved[p])

(* How often a line was published, and will be if nothing else goes wrong.   *)
InHand(l) == IF l \in Batched THEN 1 ELSE 0
ToRead(l) == IF Owed(l) THEN 1 ELSE 0

Debt(l) == Repetitions(l) + InHand(l) + ToRead(l)

DebtPaid == \A l \in Lines : Debt(l) <= 1 + crashes + Rotations

(* A file that took another's place between path.stat() and path.open() has  *)
(* none of its lines in the stream yet.                                      *)
StrangerUnread ==
    (pc = "read" /\ disk[Path].inode \notin {0, cursors[Path].inode}) =>
        \A n \in Held(Path) : Line(Path, n) \notin Published

(* A step that makes a line neither published, in hand nor owed once more    *)
(* than it counts crashes and rotations.                                     *)
LEMMA DebtStep ==
    ASSUME Base, Base', DebtPaid, NEW l \in Lines,
           Rotations' \in {Rotations, Rotations + 1},
           Repetitions(l)' + InHand(l)' + ToRead(l)'
             <= Repetitions(l) + InHand(l) + ToRead(l)
                  + (crashes' - crashes) + (Rotations' - Rotations)
    PROVE  Debt(l)' <= 1 + crashes' + Rotations'
  <1> DEFINE R == Repetitions(l)
             B == InHand(l)
             O == ToRead(l)
             RR == Repetitions(l)'
             BB == InHand(l)'
             OO == ToRead(l)'
  <1>1. R \in Nat /\ RR \in Nat
    BY RepetitionsType
  <1>2. B \in Nat /\ O \in Nat /\ BB \in Nat /\ OO \in Nat
    BY DEF InHand, ToRead
  <1>3. /\ crashes \in Int /\ crashes' \in Int
        /\ Rotations \in Int /\ Rotations' \in Int
    BY TailerAssumption, RotationsType DEF Base, TypeOK, TailerAssumption
  <1>4. R + B + O <= 1 + crashes + Rotations
    BY DEF DebtPaid, Debt
  <1>5. Debt(l)' = RR + BB + OO
    BY DEF Debt
  <1>6. RR + BB + OO <= R + B + O + (crashes' - crashes) + (Rotations' - Rotations)
    OBVIOUS
  <1> HIDE DEF R, B, O, RR, BB, OO
  <1>7. RR + BB + OO <= 1 + crashes' + Rotations'
    <2>1. \A a, b, x, y, c, d \in Int :
             (a <= 1 + c + x /\ b <= a + (d - c) + (y - x)) => b <= 1 + d + y
      OBVIOUS
    <2>2. R + B + O \in Int /\ RR + BB + OO \in Int
      BY <1>1, <1>2
    <2> QED BY <1>3, <1>4, <1>6, <2>1, <2>2
  <1> QED BY <1>5, <1>7

LEMMA NewLineIsNew ==
    ASSUME Base, EndLine
    PROVE  written + 1 \notin Published /\ written + 1 \notin Batched
  <1>1. /\ \A k \in Positions : published[k] \in Lines /\ published[k] <= written
        /\ \A k \in 1 .. Len(pending) : pending[k] \in Lines /\ pending[k] <= written
    BY CursorsTyped, ElementOfSeq DEF Base, LinesInHand, Positions
  <1>2. written \in Int /\ \A l \in Lines : l \in Int
    BY DEF Base, TypeOK, Lines
  <1>3. /\ \A k \in Positions : published[k] # written + 1
        /\ \A k \in 1 .. Len(pending) : pending[k] # written + 1
    BY <1>1, <1>2
  <1> QED BY <1>3 DEF Published, Batched

LEMMA NotRepeated ==
    ASSUME NEW l, l \notin Published
    PROVE  Repetitions(l) = 0
  <1>1. {n \in Positions : published[n] = l} = {}
    BY DEF Published
  <1> QED BY <1>1, FS_EmptySet DEF Repetitions

LEMMA DecoyStrangers ==
    ASSUME Base, StrangerUnread, Decoy
    PROVE  StrangerUnread'
  <1> DEFINE q == Path
  <1>1. TypeOK /\ Inodes /\ Rotations \in Nat
    BY RotationsType DEF Base
  <1>2. UNCHANGED tailer
    BY DEF Decoy, BeginLine, EndLine, Rename, Reopen, Truncate
  <1>3. Path' = q /\ Published' = Published
    BY <1>2 DEF Path, Published, Positions, tailer
  <1> SUFFICES ASSUME pc = "read", disk'[q].inode \notin {0, cursors[q].inode},
                      NEW n \in 1 .. Len(disk'[q].lines)
               PROVE  disk'[q].lines[n] \notin Published
    BY <1>2, <1>3 DEF StrangerUnread, Held, Line, tailer
  <1>4. q \in Paths /\ q \in queue /\ cursors[q].inode # 0
    BY <1>1, PathInHand DEF Base, PollInHand
  <1>5. disk[q].inode \notin {0, cursors[q].inode} =>
           \A m \in Held(q) : Line(q, m) \notin Published
    BY DEF StrangerUnread
  <1> HIDE DEF q
  <1>6. CASE BeginLine
    <2>1. disk'[q].lines = disk[q].lines /\ disk'[q].inode = disk[q].inode
      BY <1>1, <1>4, <1>6, BeginLineDoes
    <2> QED BY <1>5, <2>1 DEF Held, Line
  <1>7. CASE EndLine
    <2>1. CASE q = 0
      <3>1. /\ disk'[q].inode = disk[q].inode
            /\ Len(disk'[q].lines) = Len(disk[q].lines) + 1
            /\ disk'[q].lines[Len(disk[q].lines) + 1] = written + 1
            /\ \A m \in Held(q) : disk'[q].lines[m] = disk[q].lines[m]
        BY <1>1, <1>7, <2>1, EndLineDoes
      <3>2. Len(disk[q].lines) \in Nat
        BY <1>1, <1>4, FileAt
      <3>3. n \in Held(q) \/ n = Len(disk[q].lines) + 1
        BY <3>1, <3>2 DEF Held
      <3> QED BY <1>5, <1>7, <3>1, <3>3, NewLineIsNew DEF Line
    <2>2. CASE q # 0
      <3>1. disk'[q] = disk[q]
        BY <1>1, <1>4, <1>7, <2>2, EndLineDoes
      <3> QED BY <1>5, <3>1 DEF Held, Line
    <2> QED BY <2>1, <2>2
  <1>8. CASE Rename
    <2>1. /\ disk'[0] = Absent
          /\ \A p \in Paths \ {0, Rotations + 1} : disk'[p] = disk[p]
      BY <1>1, <1>8, RenameDoes
    <2>2. q # 0
      BY <2>1 DEF Absent
    <2>3. q # Rotations + 1
      BY <1>1, <1>4, <2>2 DEF Base, PollInHand
    <2>4. disk'[q] = disk[q]
      BY <1>4, <2>1, <2>2, <2>3
    <2> QED BY <1>5, <2>4 DEF Held, Line
  <1>9. CASE Reopen \/ Truncate
    <2>1. disk'[q].lines = <<>> \/ disk'[q] = disk[q]
      BY <1>1, <1>4, <1>9, ReopenDoes, TruncateDoes
    <2>2. CASE disk'[q].lines = <<>>
      BY <2>2, EmptySeq
    <2> QED BY <1>5, <2>1, <2>2 DEF Held, Line
  <1> QED BY <1>6, <1>7, <1>8, <1>9 DEF Decoy

LEMMA DecoyDebt ==
    ASSUME Base, DebtPaid, Decoy
    PROVE  DebtPaid'
  <1>1. TypeOK /\ Inodes /\ Rotations \in Nat /\ Base'
    BY RotationsType, DecoyBase DEF Base
  <1>2. UNCHANGED tailer
    BY DEF Decoy, BeginLine, EndLine, Rename, Reopen, Truncate
  <1>3. /\ Path' = Path /\ Published' = Published /\ Batched' = Batched
        /\ crashes' = crashes
    BY <1>2 DEF Path, Published, Batched, Positions, tailer
  <1>4. crashes \in Int /\ crashes' - crashes = 0 /\ crashes >= 0
    BY <1>3, TailerAssumption DEF Base, TypeOK, TailerAssumption
  <1> SUFFICES ASSUME NEW l \in Lines PROVE Debt(l)' <= 1 + crashes' + Rotations'
    BY DEF DebtPaid
  <1>5. /\ Repetitions(l) \in Nat /\ Repetitions(l)' = Repetitions(l)
        /\ InHand(l)' = InHand(l) /\ InHand(l) \in Nat
        /\ ToRead(l) \in {0, 1} /\ ToRead(l)' \in {0, 1}
    BY <1>1, <1>2, <1>3, RepetitionsType DEF Repetitions, Positions, InHand, ToRead, tailer
  <1>6. CASE Rename
    <2>1. Rotations' = Rotations + 1
      BY <1>1, <1>6, RenameDoes
    <2>2. Rotations' - Rotations = 1
      BY <1>1, <2>1
    <2> QED BY <1>1, <1>4, <1>5, <2>1, <2>2, DebtStep
  <1>7. CASE ~Rename
    <2>1. Rotations' = Rotations
      BY <1>1, <1>7, BeginLineDoes, EndLineDoes, ReopenDoes, TruncateDoes DEF Decoy
    <2>2. Owed(l)' => Owed(l) \/ (EndLine /\ l = written + 1)
      <3> SUFFICES ASSUME Owed(l)', ~(EndLine /\ l = written + 1) PROVE Owed(l)
        OBVIOUS
      <3>1. PICK p \in Paths :
               \/ pc # "down" /\ l \in Unread(disk'[p], cursors[p])
               \/ (pc \in {"xadd", "save"} => p # Path) /\ l \in Unread(disk'[p], saved[p])
        BY <1>2, <1>3 DEF Owed, tailer
      <3>2. saved[p] \in Cursor /\ cursors[p] \in Cursor
        BY CursorsTyped
      <3>3. /\ l \in Unread(disk'[p], cursors[p]) => l \in Unread(disk[p], cursors[p])
            /\ l \in Unread(disk'[p], saved[p]) => l \in Unread(disk[p], saved[p])
        BY <1>7, <3>2, DecoyUnread
      <3> QED BY <3>1, <3>3 DEF Owed
    <2>3. CASE Owed(l)' => Owed(l)
      <3>1. ToRead(l)' <= ToRead(l) /\ Rotations' - Rotations = 0
        BY <1>1, <2>1, <2>3 DEF ToRead
      <3> QED BY <1>1, <1>4, <1>5, <2>1, <3>1, DebtStep
    <2>4. CASE EndLine /\ l = written + 1
      <3>1. l \notin Published /\ l \notin Batched
        BY <2>4, NewLineIsNew
      <3>2. Repetitions(l) = 0 /\ InHand(l) = 0
        BY <3>1, NotRepeated DEF InHand
      <3>3. Debt(l)' = Repetitions(l)' + InHand(l)' + ToRead(l)'
        BY DEF Debt
      <3>4. Debt(l)' <= 1
        BY <1>5, <3>2, <3>3
      <3>5. Debt(l)' \in Int
        BY <1>5, <3>2, <3>3
      <3> QED BY <1>1, <1>3, <1>4, <2>1, <3>4, <3>5
    <2> QED BY <2>2, <2>3, <2>4
  <1> QED BY <1>6, <1>7

LEMMA StepDebt ==
    ASSUME Base, Base', DebtPaid, NEW l \in Lines, UNCHANGED files,
           UNCHANGED <<published, crashes>>,
           InHand(l)' + ToRead(l)' <= InHand(l) + ToRead(l)
    PROVE  Debt(l)' <= 1 + crashes' + Rotations'
  <1>1. Rotations' = Rotations /\ Rotations \in Nat
    BY RotationsType DEF files, Rotations, Exists
  <1>2. Repetitions(l)' = Repetitions(l) /\ Repetitions(l) \in Nat
    BY RepetitionsType DEF Repetitions, Positions
  <1>3. crashes \in Int /\ crashes' - crashes = 0 /\ Rotations' - Rotations = 0
    BY <1>1, TailerAssumption DEF Base, TypeOK, TailerAssumption
  <1>4. InHand(l) \in Int /\ InHand(l)' \in Int /\ ToRead(l) \in Int /\ ToRead(l)' \in Int
    BY DEF InHand, ToRead
  <1> QED BY <1>1, <1>2, <1>3, <1>4, DebtStep

LEMMA QuietDebt ==
    ASSUME Base, Base', DebtPaid, UNCHANGED files, UNCHANGED <<published, crashes>>,
           Batched' \subseteq Batched, \A l \in Lines : Owed(l)' => Owed(l)
    PROVE  DebtPaid'
  <1> SUFFICES ASSUME NEW l \in Lines PROVE Debt(l)' <= 1 + crashes' + Rotations'
    BY DEF DebtPaid
  <1>1. InHand(l)' <= InHand(l) /\ InHand(l) \in Int /\ InHand(l)' \in Int
    BY DEF InHand
  <1>2. ToRead(l)' <= ToRead(l) /\ ToRead(l) \in Int /\ ToRead(l)' \in Int
    BY DEF ToRead
  <1>3. InHand(l)' + ToRead(l)' <= InHand(l) + ToRead(l)
    BY <1>1, <1>2
  <1> QED BY <1>3, StepDebt

LEMMA StatDebt == ASSUME Base, DebtPaid, Stat PROVE DebtPaid'
  <1> DEFINE q == Path
  <1>1. /\ q \in Paths /\ disk[q].inode # 0
        /\ cursors'[q] = Checked(cursors[q], disk[q])
        /\ \A p \in Paths : p # q => cursors'[p] = cursors[p]
    BY StatDoes
  <1>2. /\ UNCHANGED files /\ UNCHANGED <<saved, published, crashes>>
        /\ pc = "scan" /\ pc' \in {"scan", "read"}
    BY DEF Stat, NextPath
  <1>3. Base' /\ Batched' \subseteq Batched
    BY <1>2, StatBase DEF Batched
  <1>4. disk[q] \in File /\ cursors[q] \in Cursor
    BY <1>1, CursorsTyped DEF Base, TypeOK
  <1> HIDE DEF q
  <1>5. \A p \in Paths : Unread(disk[p], cursors'[p]) = Unread(disk[p], cursors[p])
    BY <1>1, <1>4, CheckedTwice
  <1>6. \A l \in Lines : Owed(l)' => Owed(l)
    BY <1>2, <1>5 DEF Owed, files
  <1> QED BY <1>2, <1>3, <1>6, QuietDebt

(* The same lines are owed as far as the cursors go, or fewer. *)
LEMMA ReadOwes ==
    ASSUME Base, Read, NEW l, Owed(l)'
    PROVE  /\ Owed(l)
           /\ \/ pc' # "xadd"
              \/ l \in Unread(disk[Path], cursors'[Path])
              \/ \E p \in Paths \ {Path} : l \in {Line(p, n) : n \in Held(p)}
  <1> DEFINE q == Path
             f == disk[q]
             c == cursors[q]
             new == LinesFrom(f, c.offset)
             d == cursors'[q]
  <1>1. /\ q \in Paths /\ f.inode # 0 /\ c.inode # 0
        /\ cursors' \in [Paths -> Cursor]
        /\ \A p \in Paths : p # q => cursors'[p] = cursors[p]
    BY ReadDoes
  <1>2. PICK first \in 0 .. MaxLines :
           c.offset = 2 * first /\ Batch(f.lines, first, Len(f.lines), new)
    BY ReadDoes
  <1>3. /\ d.inode = c.inode
        /\ d.offset = IF 2 * Len(f.lines) > c.offset THEN 2 * Len(f.lines) ELSE c.offset
    BY ReadDoes
  <1>4. f \in File /\ c \in Cursor /\ d \in Cursor
    BY <1>1, CursorsTyped DEF Base, TypeOK
  <1>5. /\ UNCHANGED files /\ saved' = saved /\ pc = "read"
        /\ pc' \in {"scan", "xadd"} /\ (pc' = "xadd" => Path' = q)
    BY DEF Read, NextPath, Path
  <1> HIDE DEF q, f, c, d, new
  <1>6. Unread(f, d) \subseteq Unread(f, c)
    <2>1. first \in Nat /\ f.inode # 0 /\ c.inode # 0
      BY <1>1
    <2> QED BY <1>2, <1>3, <1>4, <2>1, ReadUnread
  <1>7. \A p \in Paths : Unread(disk[p], cursors'[p]) \subseteq Unread(disk[p], cursors[p])
    BY <1>1, <1>6 DEF f, c, d
  <1>8. PICK p \in Paths :
           \/ l \in Unread(disk[p], cursors'[p])
           \/ (pc' \in {"xadd", "save"} => p # Path') /\ l \in Unread(disk[p], saved[p])
    BY <1>5 DEF Owed, files
  <1>9. Owed(l)
    BY <1>5, <1>7, <1>8 DEF Owed
  <1>10. \/ pc' # "xadd"
         \/ l \in Unread(disk[q], cursors'[q])
         \/ \E r \in Paths \ {q} : l \in {Line(r, n) : n \in Held(r)}
    <2> SUFFICES ASSUME pc' = "xadd", l \notin Unread(disk[q], cursors'[q])
                 PROVE  \E r \in Paths \ {q} : l \in {Line(r, n) : n \in Held(r)}
      OBVIOUS
    <2>1. p # q
      BY <1>5, <1>8
    <2>2. l \in {Line(p, n) : n \in Held(p)}
      BY <1>8 DEF Unread, Line, Held
    <2> QED BY <2>1, <2>2
  <1> QED BY <1>9, <1>10 DEF q

LEMMA ReadDebt == ASSUME Base, DebtPaid, StrangerUnread, Read PROVE DebtPaid'
  <1> DEFINE q == Path
             f == disk[q]
             c == cursors[q]
             new == LinesFrom(f, c.offset)
             d == cursors'[q]
  <1>1. /\ q \in Paths /\ f.inode # 0 /\ c.inode # 0
        /\ cursors' \in [Paths -> Cursor]
    BY ReadDoes
  <1>2. PICK first \in 0 .. MaxLines :
           c.offset = 2 * first /\ Batch(f.lines, first, Len(f.lines), new)
    BY ReadDoes
  <1>3. /\ d.inode = c.inode
        /\ d.offset = IF 2 * Len(f.lines) > c.offset THEN 2 * Len(f.lines) ELSE c.offset
    BY ReadDoes
  <1>4. f \in File /\ c \in Cursor /\ d \in Cursor
    BY <1>1, CursorsTyped DEF Base, TypeOK
  <1>5. /\ UNCHANGED files /\ UNCHANGED <<published, crashes>> /\ pc = "read"
        /\ pc' = "scan" \/ (pc' = "xadd" /\ pending' = new)
    BY DEF Read, NextPath
  <1>6. Base' /\ Batched = {}
    BY <1>5, ReadBase DEF Batched
  <1>7. CASE pc' = "scan"
    <2>1. Batched' \subseteq Batched /\ \A l \in Lines : Owed(l)' => Owed(l)
      BY <1>7, ReadOwes DEF Batched
    <2> QED BY <1>5, <1>6, <2>1, QuietDebt
  <1>8. CASE pc' = "xadd"
    <2> SUFFICES ASSUME NEW l \in Lines PROVE Debt(l)' <= 1 + crashes' + Rotations'
      BY DEF DebtPaid
    <2>1. Batched' = {new[k] : k \in 1 .. Len(new)}
      BY <1>5, <1>8 DEF Batched
    <2>2. InHand(l) = 0 /\ ToRead(l) \in {0, 1} /\ ToRead(l)' \in {0, 1}
      BY <1>6 DEF InHand, ToRead
    <2>3. CASE l \notin Batched'
      <3>1. InHand(l)' = 0 /\ ToRead(l)' <= ToRead(l)
        BY <2>3, ReadOwes DEF InHand, ToRead
      <3>2. InHand(l)' + ToRead(l)' <= InHand(l) + ToRead(l)
        BY <2>2, <3>1
      <3> QED BY <1>5, <1>6, <3>2, StepDebt
    <2>4. CASE l \in Batched'
      <3>1. InHand(l)' = 1
        BY <2>4 DEF InHand
      <3> HIDE DEF q, f, c, d, new
      <3>2. /\ c.inode = f.inode => l \in Unread(f, c) /\ Unread(f, d) = {}
            /\ \E n \in 1 .. Len(f.lines) : l = f.lines[n]
        BY <1>1, <1>2, <1>3, <1>4, <2>1, <2>4, ReadUnread
      <3>3. CASE c.inode = f.inode
        <4>1. Owed(l)
          BY <1>1, <1>5, <3>2, <3>3 DEF Owed, f, c
        <4>2. ~ Owed(l)'
          <5> SUFFICES ASSUME Owed(l)' PROVE FALSE
            OBVIOUS
          <5>1. PICK p \in Paths \ {q} : l \in {Line(p, n) : n \in Held(p)}
            BY <1>8, <3>2, <3>3, ReadOwes DEF q, f, d
          <5>2. PICK m \in Held(p) : l = Line(p, m)
            BY <5>1
          <5>3. \E n \in Held(q) : l = Line(q, n)
            BY <3>2 DEF f, Held, Line
          <5> QED BY <1>1, <5>1, <5>2, <5>3 DEF Base, LinesInPlace
        <4>3. InHand(l)' + ToRead(l)' <= InHand(l) + ToRead(l)
          BY <2>2, <3>1, <4>1, <4>2 DEF ToRead
        <4> QED BY <1>5, <1>6, <4>3, StepDebt
      <3>4. CASE c.inode # f.inode
        <4>1. l \notin Published
          <5>1. disk[Path].inode \notin {0, cursors[Path].inode}
            BY <1>1, <3>4 DEF q, f, c
          <5>2. PICK n \in Held(Path) : l = Line(Path, n)
            BY <3>2 DEF q, f, Held, Line
          <5> QED BY <1>5, <5>1, <5>2 DEF StrangerUnread
        <4>2. Repetitions(l)' = 0
          BY <1>5, <4>1, NotRepeated DEF Repetitions, Positions
        <4>3. Rotations \in Nat /\ Rotations >= 1 /\ Rotations' = Rotations
          <5>1. Fits(c, q) /\ c.inode \in Nat /\ Rotations \in Nat
            BY <1>1, <1>4, CursorsTyped, RotationsType, TailerAssumption
               DEF c, Cursor, TailerAssumption
          <5>2. q # 0 => f.inode = q /\ c.inode = q
            BY <1>1, <5>1 DEF Base, Inodes, Fits, f
          <5>3. q = 0 => f.inode = Rotations + 1 /\ c.inode <= Rotations + 1
            BY <1>1, <5>1 DEF Base, Inodes, Fits, f
          <5>4. Rotations >= 1
            BY <1>1, <3>4, <5>1, <5>2, <5>3
          <5> QED BY <1>5, <5>1, <5>4 DEF files, Rotations, Exists
        <4>4. crashes' \in Nat
          BY <1>6, TailerAssumption DEF Base, TypeOK, TailerAssumption
        <4>5. Debt(l)' = 0 + 1 + ToRead(l)'
          BY <3>1, <4>2 DEF Debt
        <4> QED BY <2>2, <4>3, <4>4, <4>5
      <3> QED BY <3>3, <3>4
    <2> QED BY <2>3, <2>4
  <1> QED BY <1>5, <1>7, <1>8

LEMMA SaveDebt == ASSUME Base, DebtPaid, Save PROVE DebtPaid'
  <1>1. /\ Path \in Paths /\ saved'[Path] = cursors[Path]
        /\ \A p \in Paths : p # Path => saved'[p] = saved[p]
    BY SaveDoes
  <1>2. /\ UNCHANGED files /\ UNCHANGED <<cursors, published, crashes>>
        /\ pc = "save" /\ pc' = "scan"
    BY DEF Save, NextPath
  <1>3. Base' /\ Batched' \subseteq Batched
    BY <1>2, TailerBase DEF Process, Batched
  <1>4. \A l \in Lines : Owed(l)' => Owed(l)
    <2> SUFFICES ASSUME NEW l \in Lines, Owed(l)' PROVE Owed(l)
      OBVIOUS
    <2>1. PICK p \in Paths :
             l \in Unread(disk[p], cursors[p]) \/ l \in Unread(disk[p], saved'[p])
      BY <1>2 DEF Owed, files
    <2>2. \/ l \in Unread(disk[p], cursors[p])
          \/ p # Path /\ l \in Unread(disk[p], saved[p])
      BY <1>1, <2>1
    <2> QED BY <1>2, <2>2 DEF Owed
  <1> QED BY <1>2, <1>3, <1>4, QuietDebt

(* One that dies owes a line once more at most. *)
LEMMA CrashDebt ==
    ASSUME Base, Base', DebtPaid, UNCHANGED files, crashes' = crashes + 1, pc' = "down",
           NEW l \in Lines, Repetitions(l)' <= Repetitions(l) + InHand(l)
    PROVE  Debt(l)' <= 1 + crashes' + Rotations'
  <1>1. Rotations' = Rotations /\ Rotations \in Nat
    BY RotationsType DEF files, Rotations, Exists
  <1>2. Repetitions(l)' \in Nat /\ Repetitions(l) \in Nat
    BY RepetitionsType
  <1>3. crashes \in Int /\ crashes' - crashes = 1 /\ Rotations' - Rotations = 0
    BY <1>1, TailerAssumption DEF Base, TypeOK, TailerAssumption
  <1>4. /\ InHand(l) \in Int /\ InHand(l)' = 0
        /\ ToRead(l) \in {0, 1} /\ ToRead(l)' \in {0, 1}
    BY DEF InHand, ToRead, Batched
  <1>5. Repetitions(l)' + InHand(l)' + ToRead(l)'
          <= Repetitions(l) + InHand(l) + ToRead(l)
                + (crashes' - crashes) + (Rotations' - Rotations)
    BY <1>2, <1>3, <1>4
  <1> QED BY <1>1, <1>5, DebtStep

LEMMA XAddDebt == ASSUME Base, DebtPaid, XAdd PROVE DebtPaid'
  <1> SUFFICES ASSUME NEW l \in Lines PROVE Debt(l)' <= 1 + crashes' + Rotations'
    BY DEF DebtPaid
  <1>1. /\ UNCHANGED files /\ UNCHANGED <<saved, cursors, queue, crashes>>
        /\ pc = "xadd" /\ pc' = "save" /\ Path' = Path
    BY DEF XAdd, Path
  <1>2. Base'
    BY XAddBase
  <1>3. Rotations' = Rotations /\ Rotations \in Nat
    BY <1>1, RotationsType DEF files, Rotations, Exists
  <1>4. Repetitions(l)' \in Nat /\ Repetitions(l) \in Nat
    BY <1>2, RepetitionsType
  <1>5. Repetitions(l)' <= Repetitions(l) + InHand(l)
    <2>1. (\E k \in 1 .. Len(pending) : pending[k] = l) <=> l \in Batched
      BY <1>1 DEF Batched
    <2> QED BY <2>1, XAddIsAdd, AddRepeats DEF InHand
  <1>6. ToRead(l)' = ToRead(l) /\ ToRead(l) \in {0, 1}
    <2>1. Owed(l)' <=> Owed(l)
      BY <1>1 DEF Owed, files
    <2> QED BY <2>1 DEF ToRead
  <1>7. InHand(l)' = 0 /\ InHand(l) \in {0, 1}
    BY <1>1 DEF InHand, Batched
  <1>8. crashes \in Int /\ crashes' - crashes = 0 /\ Rotations' - Rotations = 0
    BY <1>1, <1>3, TailerAssumption DEF Base, TypeOK, TailerAssumption
  <1>9. Repetitions(l)' + InHand(l)' + ToRead(l)'
          <= Repetitions(l) + InHand(l) + ToRead(l)
                + (crashes' - crashes) + (Rotations' - Rotations)
    BY <1>4, <1>5, <1>6, <1>7, <1>8
  <1> QED BY <1>2, <1>3, <1>9, DebtStep

LEMMA XAddFailsDebt == ASSUME Base, DebtPaid, XAddFails PROVE DebtPaid'
  <1> SUFFICES ASSUME NEW l \in Lines PROVE Debt(l)' <= 1 + crashes' + Rotations'
    BY DEF DebtPaid
  <1>1. PICK n \in 0 .. Len(pending) : Add(SubSeq(pending, 1, n))
    BY DEF XAddFails
  <1>2. Base' /\ Repetitions(l) \in Nat /\ Repetitions(l)' \in Nat
    BY XAddFailsBase, RepetitionsType
  <1>3. Repetitions(l)' <= Repetitions(l) + InHand(l)
    <2>1. Len(pending) \in Nat
      BY <1>1, AddDoes
    <2>2. (\E k \in 1 .. n : pending[k] = l) => l \in Batched
      BY <2>1 DEF XAddFails, Batched
    <2>3. Repetitions(l)' <= Repetitions(l)
                               + (IF \E k \in 1 .. n : pending[k] = l THEN 1 ELSE 0)
      BY <1>1, AddRepeats
    <2> QED BY <1>2, <2>2, <2>3 DEF InHand
  <1> QED BY <1>2, <1>3, CrashDebt DEF XAddFails

LEMMA TailerDebt ==
    ASSUME Base, DebtPaid, StrangerUnread, Process \/ XAddFails \/ Kill \/ UNCHANGED vars
    PROVE  DebtPaid' /\ StrangerUnread'
  <1>1. Base'
    BY TailerBase
  <1>2. CASE Start
    <2>1. /\ UNCHANGED files /\ UNCHANGED <<published, crashes>> /\ cursors' = saved
          /\ saved' = saved /\ pc = "down" /\ pc' = "scan"
      BY <1>2 DEF Start
    <2>2. Batched' \subseteq Batched /\ \A l \in Lines : Owed(l)' => Owed(l)
      BY <2>1 DEF Batched, Owed, files
    <2> QED BY <1>1, <2>1, <2>2, QuietDebt DEF StrangerUnread
  <1>3. CASE Poll \/ StatMissing
    <2>1. /\ UNCHANGED files /\ UNCHANGED <<published, crashes, cursors, saved>>
          /\ pc = "scan" /\ pc' = "scan"
      BY <1>3 DEF Poll, StatMissing, NextPath
    <2>2. Batched' \subseteq Batched /\ \A l \in Lines : Owed(l)' => Owed(l)
      BY <2>1 DEF Batched, Owed, files
    <2> QED BY <1>1, <2>1, <2>2, QuietDebt DEF StrangerUnread
  <1>4. CASE Stat
    <2>1. pc' = "read" => Path' = Path /\ Path \in Paths
      BY <1>4, StatDoes DEF Stat, NextPath, Path
    <2>2. pc' = "read" => cursors'[Path'].inode = disk'[Path'].inode
      BY <1>4, <2>1, StatDoes DEF Stat, files
    <2> QED BY <1>4, <2>2, StatDebt DEF StrangerUnread
  <1>5. CASE Read
    BY <1>5, ReadDebt DEF Read, NextPath, StrangerUnread
  <1>6. CASE OpenFails
    <2>1. /\ UNCHANGED files /\ UNCHANGED <<published, crashes, cursors, saved>>
          /\ pc = "read" /\ pc' = "down"
      BY <1>6 DEF OpenFails
    <2>2. Batched' \subseteq Batched /\ \A l \in Lines : Owed(l)' => Owed(l)
      BY <2>1 DEF Batched, Owed, files
    <2> QED BY <1>1, <2>1, <2>2, QuietDebt DEF StrangerUnread
  <1>7. CASE XAdd
    BY <1>7, XAddDebt DEF XAdd, StrangerUnread
  <1>8. CASE XAddFails
    BY <1>8, XAddFailsDebt DEF XAddFails, StrangerUnread
  <1>9. CASE Save
    BY <1>9, SaveDebt DEF Save, NextPath, StrangerUnread
  <1>10. CASE Kill
    <2>1. /\ UNCHANGED files /\ published' = published /\ crashes' = crashes + 1
          /\ pc' = "down"
      BY <1>10 DEF Kill
    <2>2. ASSUME NEW l \in Lines PROVE Repetitions(l)' <= Repetitions(l) + InHand(l)
      <3>1. Repetitions(l)' = Repetitions(l) /\ Repetitions(l) \in Nat
        BY <1>1, <2>1, RepetitionsType DEF Repetitions, Positions
      <3> QED BY <3>1 DEF InHand
    <2> QED BY <1>1, <2>1, <2>2, CrashDebt DEF DebtPaid, StrangerUnread
  <1>11. CASE UNCHANGED vars
    <2>1. /\ UNCHANGED files /\ UNCHANGED <<published, crashes, cursors, saved, pc>>
          /\ Path' = Path
      BY <1>11 DEF vars, files, Path
    <2>2. Batched' \subseteq Batched /\ \A l \in Lines : Owed(l)' => Owed(l)
      BY <1>11, <2>1 DEF Batched, Owed, files, vars
    <2>3. StrangerUnread'
      BY <2>1 DEF StrangerUnread, Held, Line, Published, Positions, files
    <2> QED BY <1>1, <2>1, <2>2, <2>3, QuietDebt
  <1> QED
    BY <1>2, <1>3, <1>4, <1>5, <1>6, <1>7, <1>8, <1>9, <1>10, <1>11 DEF Process

(* A line is published once, and once more for every crash and for every     *)
(* rotation at most (tailer.py:72-98).                                       *)
THEOREM BoundedRepetition == Spec => []RepetitionIsBounded
  <1>1. Init => DebtPaid /\ StrangerUnread
    <2> SUFFICES ASSUME Init PROVE DebtPaid
      BY DEF Init, StrangerUnread
    <2>1. Base /\ published = <<>> /\ pc = "down" /\ crashes = 0
      BY InitBase DEF Init
    <2> SUFFICES ASSUME NEW l \in Lines PROVE Debt(l) <= 1 + crashes + Rotations
      BY DEF DebtPaid
    <2>2. Repetitions(l) = 0
      <3>1. Published = {}
        BY <2>1 DEF Published, Positions
      <3> QED BY <3>1, NotRepeated
    <2>3. InHand(l) = 0 /\ ToRead(l) \in {0, 1}
      BY <2>1 DEF InHand, ToRead, Batched
    <2> QED BY <2>1, <2>2, <2>3, RotationsType DEF Debt
  <1>2. Base /\ DebtPaid /\ StrangerUnread /\ [Next]_vars => (DebtPaid /\ StrangerUnread)'
    BY DecoyDebt, DecoyStrangers, TailerDebt DEF Next
  <1>3. Base /\ Base' /\ DebtPaid => RepetitionIsBounded
    <2> SUFFICES ASSUME Base, Base', DebtPaid, NEW l \in Lines
                 PROVE  Repetitions(l) <= 1 + crashes + Rotations
      BY DEF RepetitionIsBounded
    <2>1. /\ Repetitions(l) \in Nat /\ InHand(l) \in {0, 1} /\ ToRead(l) \in {0, 1}
          /\ Rotations \in Nat /\ crashes \in Int
          /\ Repetitions(l) + InHand(l) + ToRead(l) <= 1 + crashes + Rotations
      BY RepetitionsType, RotationsType DEF InHand, ToRead, Base, TypeOK, DebtPaid, Debt
    <2> QED BY <2>1
  <1> QED BY <1>1, <1>2, <1>3, BaseAlways, PTL DEF Spec

-----------------------------------------------------------------------------
(* What is published is an event. *)
EventsOnly == \A l \in Published \cup Batched : l \notin Junk

(* While nothing crashes and the log keeps its name, the stream is in the    *)
(* order of the log, and what is still to be read comes after it.            *)
InSequence ==
    (Rotations = 0 /\ crashes = 0) =>
        /\ pc = "down" => published = <<>>
        /\ \A i, j \in Positions : i < j => published[i] < published[j]
        /\ \A l \in Batched : \A d \in Published : d < l
        /\ pc # "down" =>
              \A l \in Unread(disk[0], cursors[0]) : \A d \in Published \cup Batched : d < l

(* While the log is neither renamed nor truncated it holds every line, and   *)
(* an event is in the stream, or in hand, after all those before it.         *)
NoneSkipped ==
    (Rotations = 0 /\ truncations = 0) =>
        /\ Len(disk[0].lines) = written
        /\ \A n \in Held(0) : Line(0, n) = n
        /\ \A m \in Positions : \A l \in Lines \ Junk :
              l < published[m] => \E k \in 1 .. m : published[k] = l
        /\ pc = "xadd" =>
              \A m \in 1 .. Len(pending) : \A l \in Lines \ Junk :
                  l < pending[m] => l \in Published \/ \E k \in 1 .. m : pending[k] = l

LEMMA KnownLines ==
    ASSUME Base
    PROVE  /\ \A d \in Published \cup Batched : d \in Lines /\ d \in Int /\ d <= written
           /\ written \in Nat
  <1>1. /\ \A k \in Positions : published[k] \in Lines /\ published[k] <= written
        /\ \A k \in 1 .. Len(pending) : pending[k] \in Lines /\ pending[k] <= written
    BY CursorsTyped, ElementOfSeq DEF Base, LinesInHand, Positions
  <1>2. written \in Nat /\ \A l \in Lines : l \in Int
    BY TailerAssumption DEF Base, TypeOK, Lines, TailerAssumption
  <1>3. \A d \in Published \cup Batched : d \in Lines /\ d <= written
    BY <1>1 DEF Published, Batched
  <1> QED BY <1>2, <1>3

(* A log that was not renamed is the only file there is. *)
LEMMA OneLog ==
    ASSUME Base, Rotations = 0
    PROVE  /\ 0 \in Paths /\ disk[0].inode = 1 /\ Exists(0)
           /\ queue # {} => Path = 0
           /\ pc \in {"read", "xadd", "save"} => cursors[0].inode = 1 /\ Path = 0
  <1>1. 0 \in Paths /\ disk[0].inode = 1 /\ Exists(0)
    BY PathsAre, ExistsIs DEF Base, Inodes
  <1>2. queue # {} => Path = 0
    <2>1. \A p \in queue : p \in Paths /\ (p # 0 => p <= 0)
      BY DEF Base, TypeOK, PollInHand
    <2>2. \A p \in queue : p = 0
      BY <2>1, PathsAre
    <2> QED BY <2>2, PathInHand DEF Base
  <1>3. pc \in {"read", "xadd", "save"} => cursors[0].inode = 1 /\ Path = 0
    <2> SUFFICES ASSUME pc \in {"read", "xadd", "save"}
                 PROVE  cursors[0].inode = 1 /\ Path = 0
      OBVIOUS
    <2>1. Path = 0 /\ cursors[0].inode # 0
      BY <1>2 DEF Base, PollInHand
    <2>2. cursors[0].inode <= 1 /\ cursors[0].inode \in Nat
      BY <1>1, CursorsTyped, TailerAssumption DEF Fits, Cursor, TailerAssumption
    <2> QED BY <2>1, <2>2
  <1> QED BY <1>1, <1>2, <1>3

LEMMA TailerLeavesFiles ==
    ASSUME Process \/ XAddFails \/ Kill \/ UNCHANGED vars
    PROVE  /\ UNCHANGED files /\ Rotations' = Rotations
           /\ crashes' \in {crashes, crashes + 1}
  <1>1. UNCHANGED files /\ crashes' \in {crashes, crashes + 1}
    BY DEF Process, Start, Poll, StatMissing, Stat, Read, OpenFails, XAdd, Save,
           XAddFails, Kill, vars, files
  <1> QED BY <1>1 DEF Rotations, Exists, files

LEMMA DecoyLeavesTailer ==
    ASSUME Base, Decoy
    PROVE  /\ UNCHANGED tailer /\ Published' = Published /\ Batched' = Batched
           /\ Positions' = Positions
           /\ Rotations' = IF Rename THEN Rotations + 1 ELSE Rotations
           /\ truncations' = IF Truncate THEN truncations + 1 ELSE truncations
  <1>1. UNCHANGED tailer
    BY DEF Decoy, BeginLine, EndLine, Rename, Reopen, Truncate
  <1>2. Rotations' = IF Rename THEN Rotations + 1 ELSE Rotations
    BY BeginLineDoes, EndLineDoes, RenameDoes, ReopenDoes, TruncateDoes DEF Decoy, Base
  <1>3. truncations' = IF Truncate THEN truncations + 1 ELSE truncations
    BY DEF Decoy, BeginLine, EndLine, Rename, Reopen, Truncate
  <1> QED BY <1>1, <1>2, <1>3 DEF tailer, Published, Batched, Positions

LEMMA EventsStay ==
    ASSUME Base, EventsOnly, [Next]_vars
    PROVE  EventsOnly'
  <1>1. CASE Decoy
    BY <1>1, DecoyLeavesTailer DEF EventsOnly
  <1>2. CASE Read
    <2>1. \E n \in 0 .. MaxLines :
             Batch(disk[Path].lines, n, Len(disk[Path].lines),
                   LinesFrom(disk[Path], cursors[Path].offset))
      BY <1>2, ReadDoes
    <2>2. CASE pc' = "xadd"
      <3> DEFINE new == LinesFrom(disk[Path], cursors[Path].offset)
      <3>1. pending' = new /\ published' = published
        BY <1>2, <2>2 DEF Read, NextPath
      <3> HIDE DEF new
      <3>2. \A k \in 1 .. Len(new) : new[k] \notin Junk
        BY <2>1 DEF Batch, new
      <3> QED BY <2>2, <3>1, <3>2 DEF EventsOnly, Batched, Published, Positions
    <2>3. CASE pc' # "xadd"
      BY <1>2, <2>3 DEF Read, EventsOnly, Batched, Published, Positions
    <2> QED BY <2>2, <2>3
  <1>3. CASE XAdd \/ XAddFails
    <2>1. PICK n \in 0 .. Len(pending) : Add(SubSeq(pending, 1, n))
      <3>1. XAdd => Len(pending) \in 0 .. Len(pending)
        BY XAddIsAdd
      <3> QED BY <1>3, <3>1, XAddIsAdd DEF XAddFails
    <2>2. Len(pending) \in Nat /\ pc = "xadd" /\ Batched' = {}
      BY <1>3, <2>1, AddDoes DEF XAdd, XAddFails, Batched
    <2>3. \A l \in Published' : l \in Published \/ l \in Batched
      BY <2>1, <2>2, AddPublishes DEF Batched
    <2> QED BY <2>2, <2>3 DEF EventsOnly
  <1>4. ASSUME published' = published, pc' # "xadd" \/ UNCHANGED vars
        PROVE  EventsOnly'
    BY <1>4 DEF EventsOnly, Batched, Published, Positions, vars
  <1>5. CASE Start \/ Poll \/ StatMissing \/ Stat \/ OpenFails \/ Save \/ Kill \/ UNCHANGED vars
    BY <1>4, <1>5 DEF Start, Poll, StatMissing, Stat, OpenFails, Save, Kill, NextPath, vars
  <1> QED BY <1>1, <1>2, <1>3, <1>5 DEF Next, Process

LEMMA DecoySequence == ASSUME Base, InSequence, Decoy PROVE InSequence'
  <1>1. /\ UNCHANGED tailer /\ Published' = Published /\ Batched' = Batched
        /\ Positions' = Positions
        /\ Rotations' = IF Rename THEN Rotations + 1 ELSE Rotations
    BY DecoyLeavesTailer
  <1> SUFFICES ASSUME Rotations' = 0, crashes = 0
               PROVE  /\ pc = "down" => published = <<>>
                      /\ \A i, j \in Positions : i < j => published[i] < published[j]
                      /\ \A l \in Batched : \A d \in Published : d < l
                      /\ pc # "down" =>
                            \A l \in Unread(disk'[0], cursors[0]) :
                                \A d \in Published \cup Batched : d < l
    BY <1>1 DEF InSequence, tailer
  <1>2. Rotations = 0 /\ ~Rename
    BY <1>1, RotationsType
  <1>3. \A l \in Unread(disk'[0], cursors[0]) :
           l \in Unread(disk[0], cursors[0]) \/ l = written + 1
    BY <1>2, DecoyUnread, CursorsTyped, PathsAre
  <1>4. \A d \in Published \cup Batched : d < written + 1
    BY KnownLines
  <1> QED BY <1>2, <1>3, <1>4 DEF InSequence

LEMMA StatSequence == ASSUME Base, InSequence, Stat PROVE InSequence'
  <1>1. /\ Path \in Paths /\ disk[Path].inode # 0
        /\ cursors'[Path] = Checked(cursors[Path], disk[Path])
    BY StatDoes
  <1>2. /\ UNCHANGED files /\ UNCHANGED <<published, crashes>>
        /\ pc = "scan" /\ pc' \in {"scan", "read"} /\ queue # {}
    BY DEF Stat, NextPath
  <1>3. /\ Batched = {} /\ Batched' = {} /\ Published' = Published /\ Positions' = Positions
        /\ Rotations' = Rotations
    BY <1>2 DEF Batched, Published, Positions, Rotations, Exists, files
  <1>4. Rotations = 0 => Unread(disk[0], cursors'[0]) = Unread(disk[0], cursors[0])
    <2> SUFFICES ASSUME Rotations = 0
                 PROVE  Unread(disk[0], cursors'[0]) = Unread(disk[0], cursors[0])
      OBVIOUS
    <2>1. Path = 0
      BY <1>2, OneLog
    <2>2. disk[0] \in File /\ cursors[0] \in Cursor /\ disk[0].inode # 0
      BY <1>1, <2>1, CursorsTyped DEF Base, TypeOK
    <2> QED BY <1>1, <2>1, <2>2, CheckedTwice
  <1> QED BY <1>2, <1>3, <1>4 DEF InSequence, files

LEMMA ReadSequence == ASSUME Base, InSequence, Read PROVE InSequence'
  <1> DEFINE f == disk[0]
             c == cursors[0]
             new == LinesFrom(f, c.offset)
             d == cursors'[0]
  <1>1. /\ UNCHANGED files /\ UNCHANGED <<published, crashes>>
        /\ pc = "read" /\ pc' \in {"scan", "xadd"}
    BY DEF Read, NextPath
  <1>2. /\ Batched = {} /\ Published' = Published /\ Positions' = Positions
        /\ Rotations' = Rotations
    BY <1>1 DEF Batched, Published, Positions, Rotations, Exists, files
  <1> SUFFICES ASSUME Rotations = 0, crashes = 0
               PROVE  /\ \A l \in Batched' : \A x \in Published : x < l
                      /\ \A l \in Unread(f, d) : \A x \in Published \cup Batched' : x < l
    BY <1>1, <1>2 DEF InSequence, files
  <1>3. Path = 0 /\ 0 \in Paths /\ c.inode = 1 /\ f.inode = 1
    BY <1>1, OneLog
  <1>4. PICK first \in 0 .. MaxLines :
           c.offset = 2 * first /\ Batch(f.lines, first, Len(f.lines), new)
    BY <1>3, ReadDoes
  <1>5. /\ d.inode = c.inode
        /\ d.offset = IF 2 * Len(f.lines) > c.offset THEN 2 * Len(f.lines) ELSE c.offset
        /\ cursors' \in [Paths -> Cursor]
    BY <1>3, ReadDoes
  <1>6. f \in File /\ c \in Cursor /\ d \in Cursor
    BY <1>3, <1>5, CursorsTyped DEF Base, TypeOK
  <1>7. Batched' \subseteq {new[k] : k \in 1 .. Len(new)}
    BY <1>3 DEF Read, NextPath, Batched
  <1>8. \A l \in Unread(f, c) : \A x \in Published : x < l
    BY <1>1, <1>2 DEF InSequence
  <1> HIDE DEF f, c, d, new
  <1>9. /\ Unread(f, d) \subseteq Unread(f, c)
        /\ \A k \in 1 .. Len(new) : new[k] \in Unread(f, c) /\ Unread(f, d) = {}
    <2>1. first \in Nat /\ f.inode # 0 /\ c.inode # 0 /\ c.inode = f.inode
      BY <1>3
    <2> QED BY <1>4, <1>5, <1>6, <2>1, ReadUnread
  <1> QED BY <1>7, <1>8, <1>9

LEMMA XAddSequence == ASSUME Base, InSequence, XAdd PROVE InSequence'
  <1>1. /\ UNCHANGED files /\ UNCHANGED <<cursors, crashes>> /\ pc = "xadd" /\ pc' = "save"
    BY DEF XAdd
  <1>2. /\ Add(SubSeq(pending, 1, Len(pending))) /\ Len(pending) \in 0 .. Len(pending)
        /\ Batched' = {} /\ Rotations' = Rotations
        /\ Batched = {pending[k] : k \in 1 .. Len(pending)}
    BY <1>1, XAddIsAdd DEF Batched, Rotations, Exists, files
  <1> SUFFICES ASSUME Rotations = 0, crashes = 0
               PROVE  /\ \A i, j \in 1 .. Len(published') :
                            i < j => published'[i] < published'[j]
                      /\ \A l \in Unread(disk[0], cursors[0]) : \A x \in Published' : x < l
    BY <1>1, <1>2 DEF InSequence, Positions, files
  <1> DEFINE len == Len(published)
  <1>3. /\ len \in Nat /\ Len(pending) \in Nat /\ Len(published') = len + Len(pending)
        /\ \A k \in 1 .. Len(published') :
              published'[k] = IF k <= len THEN published[k] ELSE pending[k - len]
    BY <1>2, AddDoes
  <1>4. \A x \in Published' : x \in Published \cup Batched
    BY <1>2, AddPublishes
  <1>5. \A l \in Unread(disk[0], cursors[0]) : \A x \in Published' : x < l
    BY <1>1, <1>4 DEF InSequence
  <1>6. /\ \A i, j \in 1 .. len : i < j => published[i] < published[j]
        /\ \A i \in 1 .. len : \A j \in 1 .. Len(pending) : published[i] < pending[j]
        /\ \A i, j \in 1 .. Len(pending) : i < j => pending[i] < pending[j]
    BY <1>2 DEF InSequence, Positions, Published, Base, LinesInHand
  <1> HIDE DEF len
  <1>7. ASSUME NEW i \in 1 .. Len(published'), NEW j \in 1 .. Len(published'), i < j
        PROVE  published'[i] < published'[j]
    <2>1. CASE j <= len
      <3>1. i \in 1 .. len /\ j \in 1 .. len
        BY <1>3, <1>7, <2>1
      <3> QED BY <1>3, <1>6, <1>7, <3>1
    <2>2. CASE i <= len /\ ~(j <= len)
      <3>1. i \in 1 .. len /\ j - len \in 1 .. Len(pending)
        BY <1>3, <1>7, <2>2
      <3>2. published'[i] = published[i] /\ published'[j] = pending[j - len]
        BY <1>3, <2>2
      <3> QED BY <1>6, <3>1, <3>2
    <2>3. CASE ~(i <= len)
      <3>1. /\ i - len \in 1 .. Len(pending) /\ j - len \in 1 .. Len(pending)
            /\ i - len < j - len /\ ~(j <= len)
        BY <1>3, <1>7, <2>3
      <3>2. published'[i] = pending[i - len] /\ published'[j] = pending[j - len]
        BY <1>3, <2>3, <3>1
      <3> QED BY <1>6, <3>1, <3>2
    <2> QED BY <1>3, <1>7, <2>1, <2>2, <2>3
  <1> QED BY <1>5, <1>7

LEMMA TailerSequence ==
    ASSUME Base, InSequence, Process \/ XAddFails \/ Kill \/ UNCHANGED vars
    PROVE  InSequence'
  <1>1. UNCHANGED files /\ Rotations' = Rotations
    BY TailerLeavesFiles
  <1>2. CASE XAddFails \/ Kill
    <2>1. crashes' # 0
      BY <1>2, TailerAssumption DEF XAddFails, Kill, Base, TypeOK, TailerAssumption
    <2> QED BY <2>1 DEF InSequence
  <1>3. CASE OpenFails
    <2>1. Rotations # 0
      BY <1>3, OneLog DEF OpenFails
    <2> QED BY <1>1, <2>1 DEF InSequence
  <1>4. CASE Start
    <2>1. /\ pc = "down" /\ pc' = "scan" /\ published' = published /\ crashes' = crashes
          /\ Batched' = {}
      BY <1>4 DEF Start, Batched
    <2>2. published = <<>> => Positions' = {} /\ Published' = {}
      BY <2>1 DEF Positions, Published
    <2> QED BY <1>1, <2>1, <2>2 DEF InSequence
  <1>5. CASE Poll \/ StatMissing \/ Save \/ UNCHANGED vars
    <2>1. /\ UNCHANGED <<cursors, published, crashes>> /\ Batched' = Batched
          /\ (pc' = "down" <=> pc = "down")
      BY <1>5 DEF Poll, StatMissing, Save, NextPath, Batched, vars
    <2> QED BY <1>1, <2>1 DEF InSequence, Published, Positions, files
  <1> QED
    BY <1>2, <1>3, <1>4, <1>5, StatSequence, ReadSequence, XAddSequence DEF Process

LEMMA DecoyNoneSkipped == ASSUME Base, NoneSkipped, Decoy PROVE NoneSkipped'
  <1>1. /\ UNCHANGED tailer /\ Published' = Published /\ Positions' = Positions
        /\ Rotations' = IF Rename THEN Rotations + 1 ELSE Rotations
        /\ truncations' = IF Truncate THEN truncations + 1 ELSE truncations
    BY DecoyLeavesTailer
  <1> SUFFICES ASSUME Rotations' = 0, truncations' = 0
               PROVE  Len(disk'[0].lines) = written' /\ \A n \in Held(0)' : Line(0, n)' = n
    <2>1. Rotations' = 0 /\ truncations' = 0 => Rotations = 0 /\ truncations = 0
      BY <1>1, RotationsType DEF Base, TypeOK
    <2> QED BY <1>1, <2>1 DEF NoneSkipped, tailer
  <1>2. TypeOK /\ Inodes /\ Rotations = 0 /\ truncations = 0 /\ ~Rename /\ ~Truncate
    BY <1>1, RotationsType DEF Base, TypeOK
  <1>3. Len(disk[0].lines) = written /\ \A n \in Held(0) : Line(0, n) = n
    BY <1>2 DEF NoneSkipped
  <1>4. ~Reopen
    BY <1>2, OneLog DEF Reopen
  <1>5. CASE BeginLine
    <2>1. disk'[0].lines = disk[0].lines /\ written' = written
      BY <1>2, <1>5, BeginLineDoes
    <2> QED BY <1>3, <2>1 DEF Held, Line
  <1>6. CASE EndLine
    <2>1. /\ Len(disk'[0].lines) = Len(disk[0].lines) + 1
          /\ disk'[0].lines[Len(disk[0].lines) + 1] = written + 1
          /\ \A n \in Held(0) : disk'[0].lines[n] = disk[0].lines[n]
          /\ written' = written + 1
      BY <1>2, <1>6, EndLineDoes
    <2>2. Held(0)' = 1 .. written + 1 /\ Held(0) = 1 .. written /\ written \in Nat
      BY <1>3, <2>1, KnownLines DEF Held
    <2> QED BY <1>3, <2>1, <2>2 DEF Line
  <1> QED BY <1>2, <1>4, <1>5, <1>6 DEF Decoy

LEMMA AddSkipsNone ==
    ASSUME Base, NoneSkipped, pc = "xadd", NEW n \in 0 .. Len(pending),
           Add(SubSeq(pending, 1, n)), Rotations = 0, truncations = 0
    PROVE  \A m \in 1 .. Len(published') : \A l \in Lines \ Junk :
              l < published'[m] => \E k \in 1 .. m : published'[k] = l
  <1> DEFINE len == Len(published)
  <1>1. /\ len \in Nat /\ Len(pending) \in Nat /\ Len(published') = len + n
        /\ \A k \in 1 .. len + n :
              published'[k] = IF k <= len THEN published[k] ELSE pending[k - len]
    BY AddDoes
  <1>2. /\ \A m \in 1 .. len : \A l \in Lines \ Junk :
              l < published[m] => \E k \in 1 .. m : published[k] = l
        /\ \A m \in 1 .. Len(pending) : \A l \in Lines \ Junk :
              l < pending[m] => \/ \E k \in 1 .. len : published[k] = l
                                \/ \E k \in 1 .. m : pending[k] = l
    BY DEF NoneSkipped, Positions, Published
  <1> HIDE DEF len
  <1> SUFFICES ASSUME NEW m \in 1 .. len + n, NEW l \in Lines \ Junk, l < published'[m]
               PROVE  \E k \in 1 .. m : published'[k] = l
    BY <1>1
  <1>3. \A k \in 1 .. len : k \in 1 .. len + n /\ published'[k] = published[k]
    BY <1>1
  <1>4. CASE m <= len
    <2>1. m \in 1 .. len /\ published'[m] = published[m]
      BY <1>1, <1>4
    <2>2. PICK k \in 1 .. m : published[k] = l
      BY <1>2, <2>1
    <2>3. k \in 1 .. len
      BY <1>1, <2>1
    <2> QED BY <1>3, <2>2, <2>3
  <1>5. CASE ~(m <= len)
    <2>1. m - len \in 1 .. n /\ m - len \in 1 .. Len(pending) /\ published'[m] = pending[m - len]
      BY <1>1, <1>5
    <2>2. CASE \E k \in 1 .. len : published[k] = l
      <3>1. PICK k \in 1 .. len : published[k] = l
        BY <2>2
      <3>2. k \in 1 .. m
        BY <1>1, <1>5
      <3> QED BY <1>3, <3>1, <3>2
    <2>3. CASE \E k \in 1 .. m - len : pending[k] = l
      <3>1. PICK k \in 1 .. m - len : pending[k] = l
        BY <2>3
      <3>2. len + k \in 1 .. m /\ len + k \in 1 .. len + n /\ ~(len + k <= len)
            /\ len + k - len = k
        BY <1>1, <2>1
      <3>3. published'[len + k] = l
        BY <1>1, <3>1, <3>2
      <3> QED BY <3>2, <3>3
    <2> QED BY <1>2, <2>1, <2>2, <2>3
  <1> QED BY <1>4, <1>5

LEMMA ReadSkipsNone ==
    ASSUME Base, KeptInv, NoneSkipped, Read, pc' = "xadd", Rotations = 0, truncations = 0
    PROVE  \A m \in 1 .. Len(pending') : \A l \in Lines \ Junk :
              l < pending'[m] => l \in Published \/ \E k \in 1 .. m : pending'[k] = l
  <1> DEFINE f == disk[0]
             c == cursors[0]
             new == LinesFrom(f, c.offset)
  <1>1. Path = 0 /\ 0 \in Paths /\ c.inode = 1 /\ f.inode = 1 /\ pc = "read"
    BY OneLog DEF Read
  <1>2. pending' = new
    BY <1>1 DEF Read, NextPath
  <1>3. PICK first \in 0 .. MaxLines :
           c.offset = 2 * first /\ Batch(f.lines, first, Len(f.lines), new)
    BY <1>1, ReadDoes
  <1>4. Len(f.lines) = written /\ written \in Nat /\ \A n \in 1 .. Len(f.lines) : f.lines[n] = n
    BY KnownLines DEF NoneSkipped, Held, Line
  <1>5. \A n \in 1 .. Len(f.lines) : 2 * n <= c.offset => f.lines[n] \in Junk \cup Published
    <2>1. Reached(f, c, Published)
      BY <1>1 DEF KeptInv, Batched
    <2> QED BY <1>1, <2>1 DEF Reached
  <1>6. \A l \in Lines : l \in Int /\ l >= 1
    BY DEF Lines
  <1> HIDE DEF f, c, new
  <1> SUFFICES ASSUME NEW m \in 1 .. Len(new), NEW l \in Lines \ Junk, l < new[m]
               PROVE  l \in Published \/ \E k \in 1 .. m : new[k] = l
    BY <1>2
  <1>7. PICK i \in 1 .. written : new[m] = i
    BY <1>3, <1>4 DEF Batch
  <1>8. l \in 1 .. written /\ f.lines[l] = l
    BY <1>4, <1>6, <1>7
  <1>9. CASE l <= first
    BY <1>3, <1>4, <1>5, <1>8, <1>9
  <1>10. CASE first < l
    <2>1. PICK k \in 1 .. Len(new) : new[k] = l
      BY <1>3, <1>4, <1>8, <1>10 DEF Batch
    <2>2. \A x, y \in 1 .. Len(new) : x < y => new[x] < new[y]
      <3>1. \A x, y \in 1 .. Len(f.lines) : x < y => f.lines[x] < f.lines[y]
        BY <1>4
      <3> QED BY <1>3, <3>1 DEF Batch
    <2>3. ~(m < k)
      BY <1>6, <1>7, <2>1, <2>2
    <2>4. k \in 1 .. m
      BY <2>3
    <2> QED BY <2>1, <2>4
  <1> QED BY <1>3, <1>6, <1>9, <1>10

LEMMA TailerNoneSkipped ==
    ASSUME Base, KeptInv, NoneSkipped, Process \/ XAddFails \/ Kill \/ UNCHANGED vars
    PROVE  NoneSkipped'
  <1>1. UNCHANGED files /\ Rotations' = Rotations
    BY TailerLeavesFiles
  <1>2. CASE XAdd \/ XAddFails
    <2>1. PICK n \in 0 .. Len(pending) : Add(SubSeq(pending, 1, n))
      <3>1. XAdd => Len(pending) \in 0 .. Len(pending)
        BY XAddIsAdd
      <3> QED BY <1>2, <3>1, XAddIsAdd DEF XAddFails
    <2>2. pc = "xadd" /\ pc' # "xadd"
      BY <1>2 DEF XAdd, XAddFails
    <2>3. Rotations = 0 /\ truncations = 0 =>
             \A m \in 1 .. Len(published') : \A l \in Lines \ Junk :
                l < published'[m] => \E k \in 1 .. m : published'[k] = l
      BY <2>1, <2>2, AddSkipsNone
    <2> QED BY <1>1, <2>2, <2>3 DEF NoneSkipped, Positions, Held, Line, files
  <1>3. CASE Read
    <2>1. published' = published /\ Published' = Published /\ Positions' = Positions
      BY <1>3 DEF Read, NextPath, Published, Positions
    <2>2. pc' = "xadd" /\ Rotations = 0 /\ truncations = 0 =>
             \A m \in 1 .. Len(pending') : \A l \in Lines \ Junk :
                l < pending'[m] => l \in Published \/ \E k \in 1 .. m : pending'[k] = l
      BY <1>3, ReadSkipsNone
    <2> QED BY <1>1, <2>1, <2>2 DEF NoneSkipped, Held, Line, files
  <1>4. ASSUME published' = published, pc' # "xadd" \/ (pc = "xadd" /\ pending' = pending)
        PROVE  NoneSkipped'
    BY <1>1, <1>4 DEF NoneSkipped, Published, Positions, Held, Line, files
  <1>5. CASE Start \/ Poll \/ StatMissing \/ Stat \/ OpenFails \/ Save \/ Kill \/ UNCHANGED vars
    BY <1>4, <1>5 DEF Start, Poll, StatMissing, Stat, OpenFails, Save, Kill, NextPath, vars
  <1> QED BY <1>2, <1>3, <1>5 DEF Process

LEMMA InOrderNow ==
    ASSUME Base, EventsOnly, InSequence, NoneSkipped
    PROVE  NewLinesInOrder
  <1> SUFFICES ASSUME Rotations = 0, truncations = 0 \/ crashes = 0,
                      NEW m \in Positions, NEW n \in Positions,
                      m < n, published[n] < published[m]
               PROVE  \E k \in 1 .. m : published[k] = published[n]
    BY DEF NewLinesInOrder
  <1>1. published[n] \in Published /\ published[m] \in Published
    BY DEF Published
  <1>2. published[n] \in Lines \ Junk /\ published[n] \in Int /\ published[m] \in Int
    BY <1>1, KnownLines DEF EventsOnly
  <1>3. CASE truncations = 0
    BY <1>2, <1>3 DEF NoneSkipped
  <1>4. CASE crashes = 0
    <2>1. published[m] < published[n]
      BY <1>4 DEF InSequence
    <2> QED BY <1>2, <2>1
  <1> QED BY <1>3, <1>4

(* While the log keeps its name and is not both truncated and read again by  *)
(* a successor, an older line after a newer one is a repetition              *)
(* (tailer.py:93-99, 142-163).                                               *)
THEOREM InOrder == Spec => []NewLinesInOrder
  <1>1. Init => EventsOnly /\ InSequence /\ NoneSkipped /\ KeptInv
    <2> SUFFICES ASSUME Init PROVE EventsOnly /\ InSequence /\ NoneSkipped /\ KeptInv
      OBVIOUS
    <2>1. published = <<>> /\ pc = "down" /\ written = 0 /\ disk[0].lines = <<>>
      <3>1. disk[0] = [Absent EXCEPT !.inode = 1]
        BY PathsAre DEF Init
      <3> QED BY <3>1 DEF Init, Absent
    <2>2. Positions = {} /\ Published = {} /\ Batched = {} /\ Held(0) = {} /\ Len(disk[0].lines) = 0
      BY <2>1 DEF Positions, Published, Batched, Held
    <2>3. \A p \in Paths : saved[p] = NoCursor
      BY DEF Init
    <2>4. KeptInv
      BY <2>1, <2>3 DEF KeptInv, Reached, NoCursor
    <2> QED BY <2>1, <2>2, <2>4 DEF EventsOnly, InSequence, NoneSkipped
  <1>2. Base /\ InSequence /\ [Next]_vars => InSequence'
    BY DecoySequence, TailerSequence DEF Next
  <1>3. Base /\ KeptInv /\ NoneSkipped /\ [Next]_vars => NoneSkipped'
    BY DecoyNoneSkipped, TailerNoneSkipped DEF Next
  <1>4. Base /\ KeptInv /\ [Next]_vars => KeptInv'
    BY DecoyKept, TailerKept DEF Next
  <1>5. Base /\ EventsOnly /\ [Next]_vars => EventsOnly'
    BY EventsStay
  <1>6. Base /\ EventsOnly /\ InSequence /\ NoneSkipped => NewLinesInOrder
    BY InOrderNow
  <1> QED BY <1>1, <1>2, <1>3, <1>4, <1>5, <1>6, BaseAlways, PTL DEF Spec
=============================================================================
