---------------------------- MODULE ReportsProofs ----------------------------
(***************************************************************************)
(* Proofs about the report analyzer, for any number of reports with any    *)
(* lines, and any list of libraries: what the tables show is what the      *)
(* reports say, and the ratios are those to the reference system.          *)
(***************************************************************************)
EXTENDS Reports, SequenceTheorems, WellFoundedInduction, TLAPS

(* A set of naturals has a least element, unless it is empty.              *)
LEMMA LeastNat ==
  ASSUME NEW T, T \subseteq Nat, T # {}
  PROVE  \E x \in T : \A y \in T : x <= y
<1>1. IsWellFoundedOn(OpToRel(<, Nat), Nat)
  BY NatLessThanWellFounded
<1> DEFINE R == {ss \in Nat \X Nat : ss[1] < ss[2]}
<1>2. OpToRel(<, Nat) = R
  BY DEF OpToRel
<1>3. IsWellFoundedOn(R, Nat)
  BY <1>1, <1>2
<1>4. \E x \in T : \A y \in T : ~ (<<y, x>> \in R)
  <2> HIDE DEF R
  <2> QED
    BY <1>3, WFMin
<1>5. \A x, y \in Nat : <<y, x>> \notin R => x <= y
  OBVIOUS
<1> QED
  BY <1>4, <1>5

-----------------------------------------------------------------------------
(* read_file(): what is known of a file after some of its lines. *)

FileData == [cpu : STRING \cup {None}, frequency : Nat,
             utime : [LibrarySet -> Times], refratio : [LibrarySet -> Ratios]]

Tells(line, item) == line.item = item /\ line.value # None
IsResult(line, l) == Tells(line, "result") /\ line.library = l

(* The last of the first n lines with a result of library l tells v.       *)
TimeSaid(lines, n, l, v) ==
  \/ v = None /\ \A p \in 1 .. n : ~ IsResult(lines[p], l)
  \/ \E p \in 1 .. n : /\ IsResult(lines[p], l) /\ v = lines[p].value
                       /\ \A q \in 1 .. n : IsResult(lines[q], l) => q <= p

(* The last cpu-index of the first n lines, else the first cpu, is v.      *)
NoIndex(lines, n) == \A q \in 1 .. n : ~ Tells(lines[q], "cpu-index")
CpuSaid(lines, n, v) ==
  \/ v = None /\ NoIndex(lines, n) /\ \A p \in 1 .. n : ~ Tells(lines[p], "cpu")
  \/ \E p \in 1 .. n : /\ Tells(lines[p], "cpu-index") /\ v = lines[p].value
                       /\ \A q \in 1 .. n : Tells(lines[q], "cpu-index") => q <= p
  \/ /\ NoIndex(lines, n)
     /\ \E p \in 1 .. n : /\ Tells(lines[p], "cpu") /\ v = lines[p].value
                          /\ \A q \in 1 .. n : Tells(lines[q], "cpu") => p <= q

(* What is known after n lines, before the ratios are computed and then.   *)
NoRatios == [l \in LibrarySet |-> None]
Knows(lines, n, fd) ==
  /\ fd \in FileData /\ CpuSaid(lines, n, fd.cpu)
  /\ \A l \in LibrarySet : TimeSaid(lines, n, l, fd.utime[l])
KnownAfter(lines, n, fd) == fd.refratio = NoRatios /\ Knows(lines, n, fd)

(* The fields which a line changes.                                        *)
LEMMA ReadLineIs ==
  ASSUME NEW fd \in FileData, NEW line, IsLine(line), NEW new, new = read_line(fd, line)
  PROVE  /\ new \in FileData /\ new.refratio = fd.refratio
         /\ new.cpu = IF \/ Tells(line, "cpu") /\ fd.cpu = None
                         \/ Tells(line, "cpu-index")
                        THEN line.value ELSE fd.cpu
         /\ \A l \in LibrarySet : new.utime[l] = IF IsResult(line, l) THEN line.value ELSE fd.utime[l]
<1>1. None \notin Nat
  BY ReportsAssumption
<1>2. CASE Tells(line, "cpu") /\ fd.cpu = None
  <2>1. new = [fd EXCEPT !.cpu = line.value] /\ line.value \in STRING \cup {None}
    BY <1>2 DEF read_line, Tells, IsLine
  <2>2. \A l : ~ IsResult(line, l)
    BY <1>2 DEF Tells, IsResult
  <2> QED
    BY <1>2, <2>1, <2>2 DEF FileData
<1>3. CASE Tells(line, "cpu-index")
  <2>1. new = [fd EXCEPT !.cpu = line.value] /\ line.value \in STRING \cup {None}
    BY <1>3 DEF read_line, Tells, IsLine
  <2>2. \A l : ~ IsResult(line, l)
    BY <1>3 DEF Tells, IsResult
  <2> QED
    BY <1>3, <2>1, <2>2 DEF FileData
<1>4. CASE Tells(line, "frequency")
  <2>1. new = [fd EXCEPT !.frequency = line.value] /\ line.value \in Nat
    BY <1>4 DEF read_line, Tells, IsLine
  <2>2. \A l : ~ IsResult(line, l)
    BY <1>4 DEF Tells, IsResult
  <2>3. ~ Tells(line, "cpu") /\ ~ Tells(line, "cpu-index")
    BY <1>4 DEF Tells
  <2> QED
    BY <2>1, <2>2, <2>3 DEF FileData
<1>5. CASE line.item = "result"
  <2>1. /\ new = [fd EXCEPT !.utime = [@ EXCEPT ![line.library] = line.value]]
        /\ line.value \in Nat /\ line.library \in LibrarySet
    BY <1>5 DEF read_line, Tells, IsLine
  <2>2. \A l : IsResult(line, l) <=> l = line.library
    BY <1>1, <1>5, <2>1 DEF Tells, IsResult
  <2>3. ~ Tells(line, "cpu") /\ ~ Tells(line, "cpu-index")
    BY <1>5 DEF Tells
  <2> DEFINE u == [fd.utime EXCEPT ![line.library] = line.value]
  <2>4. u \in [LibrarySet -> Times]
    BY <2>1 DEF FileData, Times
  <2>5. \A l \in LibrarySet : u[l] = IF IsResult(line, l) THEN line.value ELSE fd.utime[l]
    BY <2>2 DEF FileData
  <2>6. new = [fd EXCEPT !.utime = u]
    BY <2>1
  <2> HIDE DEF u
  <2> QED
    BY <2>3, <2>4, <2>5, <2>6 DEF FileData
<1>6. CASE /\ ~ (Tells(line, "cpu") /\ fd.cpu = None) /\ ~ Tells(line, "cpu-index")
           /\ ~ Tells(line, "frequency") /\ line.item # "result"
  <2>1. new = fd
    BY <1>6 DEF read_line, Tells
  <2>2. \A l : ~ IsResult(line, l)
    BY <1>6 DEF Tells, IsResult
  <2> QED
    BY <1>6, <2>1, <2>2
<1> QED
  BY <1>2, <1>3, <1>4, <1>5, <1>6

(* One line more.                                                          *)
LEMMA KnownNext ==
  ASSUME NEW lines, NEW n \in Nat, NEW fd, KnownAfter(lines, n, fd), IsLine(lines[n + 1]),
         NEW new, new = read_line(fd, lines[n + 1])
  PROVE  KnownAfter(lines, n + 1, new)
<1> DEFINE m == n + 1
<1>1. PICK line : line = lines[n + 1]
  OBVIOUS
<1>2. /\ new \in FileData /\ new.refratio = fd.refratio
      /\ new.cpu = IF \/ Tells(line, "cpu") /\ fd.cpu = None
                      \/ Tells(line, "cpu-index")
                     THEN line.value ELSE fd.cpu
      /\ \A l \in LibrarySet : new.utime[l] = IF IsResult(line, l) THEN line.value ELSE fd.utime[l]
  BY <1>1, ReadLineIs DEF KnownAfter, Knows
<1>3. m \in 1 .. m /\ \A p : p \in 1 .. m <=> p \in 1 .. n \/ p = m
  OBVIOUS
<1>3a. \A p \in 1 .. n : p <= m
  OBVIOUS
<1>4. lines[m] = line
  BY <1>1
<1> HIDE DEF m
<1>5. ASSUME NEW l \in LibrarySet
      PROVE  TimeSaid(lines, m, l, new.utime[l])
  <2>1. PICK v : v = new.utime[l]
    OBVIOUS
  <2>2. PICK w : w = fd.utime[l]
    OBVIOUS
  <2>3. TimeSaid(lines, n, l, w) /\ v = IF IsResult(line, l) THEN line.value ELSE w
    BY <1>2, <2>1, <2>2 DEF KnownAfter, Knows
  <2>4. CASE IsResult(line, l)
    <3>1. \A q \in 1 .. m : q <= m
      BY <1>3, <1>3a DEF m
    <3> QED
      BY <1>3, <1>4, <2>1, <2>3, <2>4, <3>1 DEF TimeSaid
  <2>5. CASE ~ IsResult(line, l)
    <3>1. v = w /\ ~ IsResult(lines[m], l)
      BY <1>4, <2>3, <2>5
    <3> QED
      BY <1>3, <2>1, <2>3, <3>1 DEF TimeSaid
  <2> QED
    BY <2>4, <2>5
<1>6. CpuSaid(lines, m, new.cpu)
  <2>1. PICK v : v = new.cpu
    OBVIOUS
  <2>2. PICK w : w = fd.cpu
    OBVIOUS
  <2>3. /\ CpuSaid(lines, n, w)
        /\ v = IF \/ Tells(line, "cpu") /\ w = None
                  \/ Tells(line, "cpu-index")
                 THEN line.value ELSE w
    BY <1>2, <2>1, <2>2 DEF KnownAfter, Knows
  <2>4. CASE Tells(line, "cpu-index")
    <3>1. \A q \in 1 .. m : q <= m
      BY <1>3, <1>3a DEF m
    <3> QED
      BY <1>3, <1>4, <2>1, <2>3, <2>4, <3>1 DEF CpuSaid
  <2>5. CASE Tells(line, "cpu") /\ w = None
    <3>1. NoIndex(lines, n) /\ \A p \in 1 .. n : ~ Tells(lines[p], "cpu")
      BY <2>3, <2>5 DEF CpuSaid, Tells
    <3>2. ~ Tells(line, "cpu-index")
      BY <2>5 DEF Tells
    <3>3. NoIndex(lines, m)
      BY <1>3, <1>4, <3>1, <3>2 DEF NoIndex
    <3>4. \A q \in 1 .. m : Tells(lines[q], "cpu") => m <= q
      BY <1>3, <3>1 DEF m
    <3>5. v = line.value
      BY <2>3, <2>5
    <3> QED
      BY <1>3, <1>4, <2>1, <2>5, <3>3, <3>4, <3>5 DEF CpuSaid
  <2>6. CASE ~ Tells(line, "cpu-index") /\ Tells(line, "cpu") /\ w # None
    <3>1. v = w
      BY <2>3, <2>6
    <3>2. NoIndex(lines, n) => NoIndex(lines, m)
      BY <1>3, <1>4, <2>6 DEF NoIndex
    <3>3. CASE \E p \in 1 .. n : /\ Tells(lines[p], "cpu-index") /\ w = lines[p].value
                                 /\ \A q \in 1 .. n : Tells(lines[q], "cpu-index") => q <= p
      BY <1>3, <1>4, <2>1, <2>6, <3>1, <3>3 DEF CpuSaid
    <3>4. CASE /\ NoIndex(lines, n)
               /\ \E p \in 1 .. n : /\ Tells(lines[p], "cpu") /\ w = lines[p].value
                                    /\ \A q \in 1 .. n : Tells(lines[q], "cpu") => p <= q
      BY <1>3, <1>3a, <2>1, <3>1, <3>2, <3>4 DEF CpuSaid
    <3> QED
      BY <2>3, <2>6, <3>3, <3>4 DEF CpuSaid
  <2>7. CASE ~ Tells(line, "cpu-index") /\ ~ Tells(line, "cpu")
    <3>1. v = w
      BY <2>3, <2>7
    <3>2. NoIndex(lines, n) => NoIndex(lines, m)
      BY <1>3, <1>4, <2>7 DEF NoIndex
    <3> QED
      BY <1>3, <1>4, <2>1, <2>3, <2>7, <3>1, <3>2 DEF CpuSaid
  <2> QED
    BY <2>4, <2>5, <2>6, <2>7
<1> QED
  BY <1>2, <1>5, <1>6 DEF KnownAfter, Knows, m

(* The recursion of read_lines, up to the first m lines.                   *)
ReadAt(fd, lines, f, n) == IF n = 0 THEN fd ELSE read_line(f[n - 1], lines[n])
Read(fd, lines, m, f) == f = [n \in 0 .. m |-> ReadAt(fd, lines, f, n)]

(* There is such a function: one for m - 1 is extended to m.               *)
LEMMA ReadExists ==
  ASSUME NEW fd, NEW lines
  PROVE  \A m \in Nat : \E f : Read(fd, lines, m, f)
<1> DEFINE Bad == {m \in Nat : ~ \E f : Read(fd, lines, m, f)}
<1> SUFFICES ASSUME Bad # {}
             PROVE  FALSE
  OBVIOUS
<1>1. PICK m \in Bad : \A y \in Bad : m <= y
  BY LeastNat
<1>2. m \in Nat /\ ~ \E f : Read(fd, lines, m, f)
  OBVIOUS
<1>3. CASE m = 0
  <2>1. Read(fd, lines, 0, [n \in 0 .. 0 |-> fd])
    BY DEF Read, ReadAt
  <2> QED
    BY <1>2, <1>3, <2>1
<1>4. CASE m # 0
  <2>1. PICK f : Read(fd, lines, m - 1, f)
    BY <1>1, <1>2, <1>4
  <2> DEFINE last == read_line(f[m - 1], lines[m])
             g == [n \in 0 .. m |-> IF n = m THEN last ELSE f[n]]
  <2> HIDE DEF last
  <2>2. ASSUME NEW n \in 0 .. m
        PROVE  g[n] = ReadAt(fd, lines, g, n)
    <3>1. CASE n = m
      <4>1. g[n] = last /\ g[n - 1] = f[n - 1]
        BY <1>2, <1>4, <3>1
      <4> HIDE DEF g
      <4> QED
        BY <1>2, <1>4, <3>1, <4>1, Zenon DEF ReadAt, last
    <3>2. CASE n # m
      <4>1. f[n] = ReadAt(fd, lines, f, n)
        BY <1>2, <1>4, <2>1, <3>2 DEF Read
      <4>2. g[n] = f[n] /\ (n # 0 => g[n - 1] = f[n - 1])
        BY <1>2, <1>4, <3>2
      <4> HIDE DEF g
      <4> QED
        BY <4>1, <4>2, Zenon DEF ReadAt
    <3> QED
      BY <3>1, <3>2
  <2>3. g = [n \in 0 .. m |-> ReadAt(fd, lines, g, n)]
    <3>1. g = [n \in 0 .. m |-> g[n]]
      OBVIOUS
    <3> HIDE DEF g
    <3> QED
      BY <2>2, <3>1
  <2>4. Read(fd, lines, m, g)
    BY <2>3, Zenon DEF Read
  <2> QED
    BY <1>2, <2>4
<1> QED
  BY <1>3, <1>4

(* read_file() knows what the lines of the file tell.                      *)
LEMMA ReadLinesIs ==
  ASSUME NEW T, NEW lines \in Seq(T), \A n \in 1 .. Len(lines) : IsLine(lines[n])
  PROVE  KnownAfter(lines, Len(lines), read_lines(NoData, lines))
<1> DEFINE N == Len(lines)
           f == CHOOSE g : Read(NoData, lines, N, g)
           Bad == {n \in 0 .. N : ~ KnownAfter(lines, n, f[n])}
<1>1. N \in Nat
  OBVIOUS
<1>2. read_lines(NoData, lines) = f[N]
  BY Zenon DEF read_lines, Read, ReadAt
<1>3. Read(NoData, lines, N, f)
  BY <1>1, ReadExists
<1> HIDE DEF f, N
<1>4. \A n \in 0 .. N : f[n] = ReadAt(NoData, lines, f, n)
  BY <1>3 DEF Read
<1>5. ASSUME Bad # {}
      PROVE  FALSE
  <2>0. Bad \subseteq Nat
    BY <1>1
  <2>1. PICK n \in Bad : \A y \in Bad : n <= y
    BY <1>5, <2>0, LeastNat
  <2>2. n \in 0 .. N /\ ~ KnownAfter(lines, n, f[n]) /\ f[n] = ReadAt(NoData, lines, f, n)
    BY <1>4
  <2>3. CASE n = 0
    <3>1. f[n] = NoData
      BY <2>2, <2>3 DEF ReadAt
    <3>2. NoData \in FileData
      BY DEF NoData, FileData, Times, Ratios
    <3>3. KnownAfter(lines, 0, NoData)
      BY <3>2 DEF NoData, NoRatios, KnownAfter, Knows, CpuSaid, TimeSaid, NoIndex
    <3> QED
      BY <2>2, <2>3, <3>1, <3>3
  <2>4. CASE n # 0
    <3>1. PICK m : m = n - 1
      OBVIOUS
    <3>2. m \in Nat /\ n = m + 1 /\ m \in 0 .. N /\ m \notin Bad /\ n \in 1 .. N
      BY <1>1, <2>1, <2>2, <2>4, <3>1
    <3>3. KnownAfter(lines, m, f[m]) /\ IsLine(lines[m + 1])
      BY <3>2 DEF N
    <3>4. f[n] = read_line(f[m], lines[m + 1])
      BY <2>2, <2>4, <3>1, <3>2 DEF ReadAt
    <3>5. KnownAfter(lines, m + 1, f[n])
      BY <3>2, <3>3, <3>4, KnownNext
    <3> QED
      BY <2>2, <3>2, <3>5
  <2> QED
    BY <2>3, <2>4
<1>6. KnownAfter(lines, N, f[N])
  BY <1>1, <1>5
<1> QED
  BY <1>2, <1>6 DEF N


-----------------------------------------------------------------------------
(* The reading of the files and the computation of the ratios. *)

(* What the assumption says of the files which are analyzed.               *)
LEMMA InputIs ==
  ASSUME NEW reports \in Inputs
  PROVE  /\ Len(reports) \in Nat \ {0} /\ DOMAIN reports = 1 .. Len(reports)
         /\ \A f \in DOMAIN reports : KnownAfter(reports[f].lines, Len(reports[f].lines),
                                                 read_lines(NoData, reports[f].lines))
<1>1. /\ reports # <<>> /\ reports \in Seq(ToSet(reports))
      /\ \A f \in DOMAIN reports : IsReport(reports[f])
  BY ReportsAssumption
<1>2. ASSUME NEW f \in DOMAIN reports
      PROVE  KnownAfter(reports[f].lines, Len(reports[f].lines), read_lines(NoData, reports[f].lines))
  <2>1. PICK lines : lines = reports[f].lines
    OBVIOUS
  <2>2. lines \in Seq(ToSet(lines)) /\ \A n \in DOMAIN lines : IsLine(lines[n])
    BY <1>1, <2>1 DEF IsReport
  <2>3. KnownAfter(lines, Len(lines), read_lines(NoData, lines))
    BY <2>2, ReadLinesIs
  <2> QED
    BY <2>1, <2>3
<1> QED
  BY <1>1, <1>2

(* A file is known once read, and its ratios once they are computed.       *)
IsRead(f) == ~ (phase = "read" /\ f >= at)
IsMerged(f) == phase # "read" /\ ~ (phase = "merge" /\ f >= at)
HasRatios(f) ==
  \A l \in LibrarySet :
    filedata[f].refratio[l] = IF RefFiles # {} /\ filedata[f].frequency > 0
                                THEN RefRatio(refsystem, filedata[f], l) ELSE None

FilesInv ==
  /\ input \in Inputs
  /\ filedata = [f \in DOMAIN input |-> filedata[f]]
  /\ \A f \in DOMAIN input :
       /\ filedata[f] \in FileData
       /\ ~ IsRead(f) => filedata[f] = NoData
       /\ IsRead(f) => Knows(input[f].lines, Len(input[f].lines), filedata[f])
       /\ ~ IsMerged(f) => filedata[f].refratio = NoRatios
       /\ IsMerged(f) => HasRatios(f)

PlaceInv ==
  /\ phase \in {"read", "merge", "fill", "lines", "columns", "done"}
  /\ phase \in {"read", "merge"} => at \in 1 .. Len(input)
  /\ phase = "fill" => at = 1
  /\ phase = "lines" => at \in 1 .. Len(rows) + 1
  /\ phase \in {"columns", "done"} => at \in 1 .. Len(header) + 1
  /\ shown \in {None, "utime", "refratio"}
  /\ phase \in {"lines", "columns", "done"} => shown \in {"utime", "refratio"}
  /\ phase \in {"read", "merge", "fill"} => rows = <<>> /\ header = <<>>

(* The reference is a file of the reference machine which tells its        *)
(* frequency.                                                              *)
LEMMA FirstRef ==
  ASSUME input \in Inputs, RefFiles # {}
  PROVE  Min(RefFiles) \in RefFiles
<1>1. RefFiles \subseteq Nat
  BY InputIs DEF RefFiles
<1>2. \E x \in RefFiles : \A y \in RefFiles : x =< y
  BY <1>1, LeastNat
<1> QED
  BY <1>2 DEF Min

(* The time and frequency of the files, and so the file of reference and   *)
(* the ratios, do not depend on the ratios already computed.               *)
LEMMA RatiosKept ==
  ASSUME input \in Inputs, UNCHANGED input,
         \A f \in DOMAIN input : /\ filedata'[f].utime = filedata[f].utime
                                 /\ filedata'[f].frequency = filedata[f].frequency
  PROVE  /\ RefFiles' = RefFiles
         /\ RefFiles # {} => \A f \in DOMAIN input, l \in LibrarySet :
              RefRatio(refsystem', filedata'[f], l) = RefRatio(refsystem, filedata[f], l)
<1>1. RefFiles' = RefFiles
  BY DEF RefFiles
<1>2. ASSUME RefFiles # {}, NEW f \in DOMAIN input, NEW l \in LibrarySet
      PROVE  RefRatio(refsystem', filedata'[f], l) = RefRatio(refsystem, filedata[f], l)
  <2>1. PICK k : k = Min(RefFiles)
    OBVIOUS
  <2>2. k \in DOMAIN input
    BY <1>2, <2>1, FirstRef DEF RefFiles
  <2>3. refsystem = filedata[k] /\ refsystem' = filedata'[k]
    BY <1>1, <2>1 DEF refsystem
  <2> QED
    BY <2>2, <2>3 DEF RefRatio
<1> QED
  BY <1>1, <1>2

(* Reading a file tells all which its lines tell.                          *)
LEMMA FilesRead ==
  ASSUME FilesInv, PlaceInv, ReadFile
  PROVE  FilesInv' /\ PlaceInv'
<1>1. /\ phase = "read" /\ at \in DOMAIN input /\ UNCHANGED <<input, shown, header, rows>>
      /\ Len(input) \in Nat \ {0} /\ DOMAIN input = 1 .. Len(input)
  BY InputIs DEF FilesInv, PlaceInv, ReadFile
<1>2. filedata' = [filedata EXCEPT ![at] = read_lines(filedata[at], input[at].lines)]
  BY DEF ReadFile
<1>3. IF at < Len(input) THEN at' = at + 1 /\ phase' = "read" ELSE at' = 1 /\ phase' = "merge"
  BY <1>1 DEF ReadFile
<1>4. PlaceInv'
  BY <1>1, <1>3 DEF PlaceInv
<1>5. filedata[at] = NoData
  BY <1>1 DEF FilesInv, IsRead
<1>6. /\ filedata' = [f \in DOMAIN input |-> filedata'[f]]
      /\ filedata'[at] = read_lines(NoData, input[at].lines)
      /\ \A f \in DOMAIN input : f # at => filedata'[f] = filedata[f]
  BY <1>1, <1>2, <1>5 DEF FilesInv
<1>7. KnownAfter(input[at].lines, Len(input[at].lines), filedata'[at])
  BY <1>1, <1>6, InputIs DEF FilesInv
<1>8. ASSUME NEW f \in DOMAIN input
      PROVE  /\ filedata'[f] \in FileData
             /\ ~ IsRead(f)' => filedata'[f] = NoData
             /\ IsRead(f)' => Knows(input[f].lines, Len(input[f].lines), filedata'[f])
             /\ ~ IsMerged(f)' /\ filedata'[f].refratio = NoRatios
  <2>1. ~ IsMerged(f)' /\ (IsRead(f)' <=> f <= at) /\ (IsRead(f) <=> f < at) /\ ~ IsMerged(f)
    BY <1>1, <1>3 DEF IsMerged, IsRead
  <2>2. CASE f = at
    BY <1>1, <1>7, <2>1, <2>2 DEF KnownAfter, Knows
  <2>3. CASE f # at
    <3>1. f <= at <=> f < at
      BY <1>1, <2>3
    <3> QED
      BY <1>6, <2>1, <2>3, <3>1 DEF FilesInv
  <2> QED
    BY <2>2, <2>3
<1>9. FilesInv'
  BY <1>1, <1>6, <1>8 DEF FilesInv
<1> QED
  BY <1>4, <1>9

(* merge_reference() computes the ratios of one file and keeps the others. *)
LEMMA FilesMerged ==
  ASSUME FilesInv, PlaceInv, MergeReference
  PROVE  FilesInv' /\ PlaceInv'
<1>1. /\ phase = "merge" /\ at \in DOMAIN input /\ UNCHANGED <<input, shown, header, rows>>
      /\ Len(input) \in Nat \ {0} /\ DOMAIN input = 1 .. Len(input)
  BY InputIs DEF FilesInv, PlaceInv, MergeReference
<1>2. PICK ratios : ratios = IF RefFiles # {} /\ filedata[at].frequency > 0
                              THEN [l \in LibrarySet |-> RefRatio(refsystem, filedata[at], l)]
                              ELSE NoRatios
  OBVIOUS
<1>3. filedata[at].refratio = NoRatios /\ filedata[at] \in FileData
  BY <1>1 DEF FilesInv, IsMerged
<1>4. /\ filedata' = [f \in DOMAIN input |-> filedata'[f]]
      /\ filedata'[at] = [filedata[at] EXCEPT !.refratio = ratios]
      /\ \A f \in DOMAIN input : f # at => filedata'[f] = filedata[f]
  <2>1. CASE RefFiles # {} /\ filedata[at].frequency > 0
    <3>1. filedata' = [filedata EXCEPT ![at].refratio = ratios]
      BY <1>2, <2>1 DEF MergeReference
    <3> QED
      BY <1>1, <3>1 DEF FilesInv
  <2>2. CASE ~ (RefFiles # {} /\ filedata[at].frequency > 0)
    <3>1. filedata' = filedata /\ ratios = NoRatios
      BY <1>2, <2>2 DEF MergeReference
    <3>2. filedata[at] = [filedata[at] EXCEPT !.refratio = ratios]
      BY <1>3, <3>1 DEF FileData
    <3> QED
      BY <1>1, <3>1, <3>2 DEF FilesInv
  <2> QED
    BY <2>1, <2>2
<1>5. IF at < Len(input) THEN at' = at + 1 /\ phase' = "merge" ELSE at' = 1 /\ phase' = "fill"
  BY <1>1 DEF MergeReference
<1>6. PlaceInv'
  BY <1>1, <1>5 DEF PlaceInv
<1>7. ratios \in [LibrarySet -> Ratios]
  <2>1. ASSUME NEW l \in LibrarySet, RefFiles # {}
        PROVE  RefRatio(refsystem, filedata[at], l) \in Ratios
    <3>1. PICK ref, data : ref = refsystem /\ data = filedata[at]
      OBVIOUS
    <3>2. ref \in FileData /\ data \in FileData
      BY <1>3, <2>1, <3>1, FirstRef DEF FilesInv, refsystem, RefFiles
    <3>3. ref.utime[l] \in Times /\ data.utime[l] \in Times /\ ref.frequency \in Nat /\ data.frequency \in Nat
      BY <3>2 DEF FileData
    <3> QED
      BY <3>1, <3>3 DEF RefRatio, Times, Ratios
  <2>2. None \in Ratios
    BY DEF Ratios
  <2> QED
    BY <1>2, <2>1, <2>2 DEF NoRatios
<1>8. filedata'[at] \in FileData /\ filedata'[at].refratio = ratios
  BY <1>3, <1>4, <1>7 DEF FileData
<1>9. \A f \in DOMAIN input : /\ filedata'[f].utime = filedata[f].utime
                              /\ filedata'[f].frequency = filedata[f].frequency
                              /\ filedata'[f].cpu = filedata[f].cpu
  BY <1>3, <1>4 DEF FileData
<1>10. /\ RefFiles' = RefFiles
       /\ RefFiles # {} => \A f \in DOMAIN input, l \in LibrarySet :
            RefRatio(refsystem', filedata'[f], l) = RefRatio(refsystem, filedata[f], l)
  BY <1>1, <1>9, RatiosKept DEF FilesInv
<1>11. ASSUME NEW f \in DOMAIN input
       PROVE  /\ filedata'[f] \in FileData /\ IsRead(f)'
              /\ Knows(input[f].lines, Len(input[f].lines), filedata'[f])
  <2>1. IsRead(f)' /\ IsRead(f)
    BY <1>1, <1>5 DEF IsRead
  <2>2. filedata'[f] \in FileData
    BY <1>4, <1>8 DEF FilesInv
  <2>3. Knows(input[f].lines, Len(input[f].lines), filedata[f])
    BY <2>1 DEF FilesInv
  <2> QED
    BY <1>9, <2>1, <2>2, <2>3 DEF Knows
<1>12. ASSUME NEW f \in DOMAIN input
       PROVE  /\ ~ IsMerged(f)' => filedata'[f].refratio = NoRatios
              /\ IsMerged(f)' => HasRatios(f)'
  <2>1. (IsMerged(f)' <=> f <= at) /\ (IsMerged(f) <=> f < at)
    BY <1>1, <1>5 DEF IsMerged
  <2>2. CASE f = at
    <3>1. \A l \in LibrarySet :
            ratios[l] = IF RefFiles # {} /\ filedata[f].frequency > 0
                          THEN RefRatio(refsystem, filedata[f], l) ELSE None
      BY <1>2, <2>2 DEF NoRatios
    <3>2. HasRatios(f)'
      BY <1>8, <1>9, <1>10, <2>2, <3>1 DEF HasRatios
    <3> QED
      BY <1>1, <2>1, <2>2, <3>2
  <2>3. CASE f # at
    <3>1. (f <= at <=> f < at) /\ filedata'[f] = filedata[f]
      BY <1>1, <1>4, <2>3
    <3>2. HasRatios(f) => HasRatios(f)'
      BY <1>9, <1>10, <3>1 DEF HasRatios
    <3> QED
      BY <2>1, <3>1, <3>2 DEF FilesInv
  <2> QED
    BY <2>2, <2>3
<1>13. FilesInv'
  BY <1>1, <1>4, <1>11, <1>12 DEF FilesInv
<1> QED
  BY <1>6, <1>13

-----------------------------------------------------------------------------
(* The table: which file a row is, and which library a column. *)

Increasing(numbers) == \A i, j \in DOMAIN numbers : i < j => numbers[i] < numbers[j]

(* What is to be shown of file f, for the library at c.                    *)
Cell(f, c) == filedata[f][shown][Libraries[c]]

Row == [cpu : STRING \cup {None}, cells : Seq(Times \cup Ratios)]

(* Row r is of file file[r], column c is of the library at column[c].      *)
Shows(file, column) ==
  /\ file \in [1 .. Len(rows) -> DOMAIN input] /\ Increasing(file)
  /\ column \in [1 .. Len(header) -> DOMAIN Libraries] /\ Increasing(column)
  /\ \A c \in 1 .. Len(header) : header[c] = Libraries[column[c]]
  /\ \A r \in 1 .. Len(rows) :
       /\ rows[r].cpu = filedata[file[r]].cpu /\ Len(rows[r].cells) = Len(header)
       /\ \A c \in 1 .. Len(header) : rows[r].cells[c] = Cell(file[r], column[c])

(* Only empty lines have been removed; there is none before i.             *)
LineUsed(f) == \E c \in DOMAIN Libraries : Cell(f, c) # None
LinesUsed(file, i) ==
  /\ \A r \in 1 .. Len(rows) : r < i => LineUsed(file[r])
  /\ \A f \in DOMAIN input : LineUsed(f) => \E r \in 1 .. Len(rows) : file[r] = f

(* Only empty columns have been removed; there is none before i.           *)
ColumnUsed(c) == \E f \in DOMAIN input : Cell(f, c) # None
ColumnsUsed(column, i) ==
  /\ \A k \in 1 .. Len(header) : k < i => ColumnUsed(column[k])
  /\ \A c \in DOMAIN Libraries : ColumnUsed(c) => \E k \in 1 .. Len(header) : column[k] = c

TableInv ==
  /\ rows \in Seq(Row) /\ Len(rows) <= Len(input)
  /\ header \in Seq(LibrarySet) /\ Len(header) <= Len(Libraries)
  /\ phase \in {"lines", "columns", "done"} =>
       \E file, column :
         /\ Shows(file, column)
         /\ phase = "lines" => /\ LinesUsed(file, at) /\ ColumnsUsed(column, 1)
                               /\ header = Libraries /\ column = [c \in DOMAIN Libraries |-> c]
         /\ phase = "columns" => LinesUsed(file, Len(rows) + 1) /\ ColumnsUsed(column, at)
         /\ phase = "done" /\ (\E f \in DOMAIN input : LineUsed(f)) =>
              LinesUsed(file, Len(rows) + 1) /\ ColumnsUsed(column, Len(header) + 1)

Inv == FilesInv /\ PlaceInv /\ TableInv

(* A sequence without one of its elements.                                 *)
LEMMA RemoveAtIs ==
  ASSUME NEW T, NEW s \in Seq(T), NEW i \in 1 .. Len(s)
  PROVE  /\ RemoveAt(s, i) \in Seq(T) /\ Len(RemoveAt(s, i)) = Len(s) - 1
         /\ \A k \in 1 .. Len(s) - 1 : RemoveAt(s, i)[k] = IF k < i THEN s[k] ELSE s[k + 1]
<1> DEFINE a == SubSeq(s, 1, i - 1)
           b == SubSeq(s, i + 1, Len(s))
<1>1. /\ a \in Seq(T) /\ Len(a) = i - 1
      /\ \A k \in 1 .. i - 1 : a[k] = s[k]
  <2>1. 1 \in Int /\ i - 1 \in Int /\ \A k \in 1 .. i - 1 : s[k] \in T
    OBVIOUS
  <2>2. /\ a \in Seq(T) /\ Len(a) = IF 1 <= i - 1 THEN (i - 1) - 1 + 1 ELSE 0
        /\ \A k \in 1 .. (i - 1) - 1 + 1 : a[k] = s[1 + k - 1]
    BY <2>1, SubSeqProperties
  <2> HIDE DEF a
  <2> QED
    BY <2>2
<1>2. /\ b \in Seq(T) /\ Len(b) = Len(s) - i
      /\ \A k \in 1 .. Len(s) - i : b[k] = s[i + k]
  <2>1. i + 1 \in Int /\ Len(s) \in Int /\ \A k \in i + 1 .. Len(s) : s[k] \in T
    OBVIOUS
  <2>2. /\ b \in Seq(T) /\ Len(b) = IF i + 1 <= Len(s) THEN Len(s) - (i + 1) + 1 ELSE 0
        /\ \A k \in 1 .. Len(s) - (i + 1) + 1 : b[k] = s[i + 1 + k - 1]
    BY <2>1, SubSeqProperties
  <2> HIDE DEF b
  <2> QED
    BY <2>2
<1>3. RemoveAt(s, i) = a \o b
  BY DEF RemoveAt
<1> HIDE DEF a, b
<1>4. /\ a \o b \in Seq(T) /\ Len(a \o b) = Len(a) + Len(b)
      /\ \A k \in 1 .. Len(a) + Len(b) : (a \o b)[k] = IF k <= Len(a) THEN a[k] ELSE b[k - Len(a)]
  BY <1>1, <1>2, ConcatProperties
<1>5. Len(a) + Len(b) = Len(s) - 1
  BY <1>1, <1>2
<1>6. ASSUME NEW k \in 1 .. Len(s) - 1
      PROVE  (a \o b)[k] = IF k < i THEN s[k] ELSE s[k + 1]
  <2>1. (a \o b)[k] = IF k <= Len(a) THEN a[k] ELSE b[k - Len(a)]
    BY <1>4, <1>5
  <2>2. CASE k < i
    BY <1>1, <2>1, <2>2
  <2>3. CASE ~ k < i
    <3>1. k - (i - 1) \in 1 .. Len(s) - i /\ i + (k - (i - 1)) = k + 1
      BY <2>3
    <3>2. b[k - (i - 1)] = s[k + 1]
      BY <1>2, <3>1
    <3> QED
      BY <1>1, <2>1, <2>3, <3>2
  <2> QED
    BY <2>2, <2>3
<1> QED
  BY <1>3, <1>4, <1>5, <1>6

(* The same of the numbers which its elements stand for.                   *)
Without(numbers, n, i) == [k \in 1 .. n - 1 |-> IF k < i THEN numbers[k] ELSE numbers[k + 1]]

IsWithout(left, numbers, n, i, T) ==
  /\ left \in [1 .. n - 1 -> T] /\ Increasing(left)
  /\ \A k \in 1 .. n : k # i => \E j \in 1 .. n - 1 : left[j] = numbers[k]
  /\ \A j \in 1 .. n - 1 : left[j] = IF j < i THEN numbers[j] ELSE numbers[j + 1]

(* Removing one of increasing numbers leaves the others, increasing.       *)
LEMMA WithoutIs ==
  ASSUME NEW n \in Nat, NEW T, T \subseteq Nat,
         NEW numbers \in [1 .. n -> T], Increasing(numbers), NEW i \in 1 .. n
  PROVE  IsWithout(Without(numbers, n, i), numbers, n, i, T)
<1> DEFINE w == Without(numbers, n, i)
           from(j) == IF j < i THEN j ELSE j + 1
<1>1. \A j \in 1 .. n - 1 : from(j) \in 1 .. n
  OBVIOUS
<1>2. DOMAIN w = 1 .. n - 1 /\ \A j \in 1 .. n - 1 : w[j] = numbers[from(j)]
  BY DEF Without
<1>3. w = [j \in 1 .. n - 1 |-> w[j]]
  BY DEF Without
<1>4. \A j, k \in 1 .. n - 1 : j < k => from(j) < from(k)
  OBVIOUS
<1>5. \A k \in 1 .. n : k # i => \E j \in 1 .. n - 1 : from(j) = k
  <2>1. SUFFICES ASSUME NEW k \in 1 .. n, k # i
                 PROVE  \E j \in 1 .. n - 1 : from(j) = k
    OBVIOUS
  <2>2. CASE k < i
    <3>1. k \in 1 .. n - 1 /\ from(k) = k
      BY <2>2
    <3> QED
      BY <3>1
  <2>3. CASE k > i
    <3>1. k - 1 \in 1 .. n - 1 /\ from(k - 1) = k
      BY <2>3
    <3> QED
      BY <3>1
  <2> QED
    BY <2>1, <2>2, <2>3
<1> HIDE DEF w, from
<1>6. w \in [1 .. n - 1 -> T]
  BY <1>1, <1>2, <1>3
<1>7. Increasing(w)
  BY <1>1, <1>2, <1>4 DEF Increasing
<1>8. \A k \in 1 .. n : k # i => \E j \in 1 .. n - 1 : w[j] = numbers[k]
  BY <1>2, <1>5
<1> QED
  BY <1>2, <1>6, <1>7, <1>8 DEF w, from, IsWithout

(* The files and what is known of them do not change with the table.       *)
LEMMA FilesKept ==
  ASSUME FilesInv, phase \in {"fill", "lines", "columns", "done"},
         phase' \in {"fill", "lines", "columns", "done"}, UNCHANGED <<input, filedata>>
  PROVE  FilesInv'
<1>1. \A f \in DOMAIN input : IsRead(f) /\ IsMerged(f) /\ IsRead(f)' /\ IsMerged(f)'
  BY DEF IsRead, IsMerged
<1>2. \A f \in DOMAIN input : HasRatios(f) => HasRatios(f)'
  BY DEF HasRatios, RefFiles, refsystem
<1> QED
  BY <1>1, <1>2 DEF FilesInv

(* The sequence of libraries and its elements.                             *)
LEMMA LibrariesAre ==
  /\ Len(Libraries) \in Nat /\ DOMAIN Libraries = 1 .. Len(Libraries)
  /\ Libraries \in Seq(LibrarySet)
  /\ \A c \in DOMAIN Libraries : Libraries[c] \in LibrarySet
BY ReportsAssumption

(* At first there is a row for each file and a column for each library.    *)
LEMMA TableFilled ==
  ASSUME Inv, FillData
  PROVE  Inv'
<1>1. /\ phase = "fill" /\ phase' \in {"lines", "done"} /\ at' = 1 /\ header' = Libraries
      /\ UNCHANGED <<input, filedata>>
      /\ Len(input) \in Nat \ {0} /\ DOMAIN input = 1 .. Len(input)
  BY InputIs DEF Inv, FilesInv, FillData
<1>2. PICK index \in {"utime", "refratio"} :
        /\ shown' = index
        /\ rows' = [f \in DOMAIN input |->
                      [cpu |-> filedata[f].cpu,
                       cells |-> [c \in DOMAIN Libraries |-> filedata[f][index][Libraries[c]]]]]
        /\ phase' = "done" => \A f \in DOMAIN input, l \in LibrarySet : filedata[f][index][l] = None
  BY Zenon DEF FillData
<1>3. FilesInv'
  BY <1>1, FilesKept DEF Inv
<1>4. \A f \in DOMAIN input, c \in DOMAIN Libraries : Cell(f, c)' = filedata[f][index][Libraries[c]]
  BY <1>1, <1>2 DEF Cell
<1>5. ASSUME NEW f \in DOMAIN input
      PROVE  /\ filedata[f].cpu \in STRING \cup {None}
             /\ \A c \in DOMAIN Libraries : Cell(f, c)' \in Times \cup Ratios
  <2>1. filedata[f] \in FileData
    BY DEF Inv, FilesInv
  <2>2. /\ filedata[f].utime \in [LibrarySet -> Times]
        /\ filedata[f].refratio \in [LibrarySet -> Ratios]
        /\ filedata[f].cpu \in STRING \cup {None}
    BY <2>1 DEF FileData
  <2>3. \A c \in DOMAIN Libraries : /\ filedata[f].utime[Libraries[c]] \in Times
                                    /\ filedata[f].refratio[Libraries[c]] \in Ratios
    BY <2>2, LibrariesAre
  <2> QED
    BY <1>2, <1>4, <2>2, <2>3
<1>6. PICK cells : cells = [f \in DOMAIN input |-> [c \in DOMAIN Libraries |-> Cell(f, c)']]
  OBVIOUS
<1>7. \A f \in DOMAIN input : /\ cells[f] \in Seq(Times \cup Ratios) /\ Len(cells[f]) = Len(Libraries)
                              /\ \A c \in DOMAIN Libraries : cells[f][c] = Cell(f, c)'
  BY <1>5, <1>6, LibrariesAre
<1>8. \A f \in DOMAIN input :
        cells[f] = [c \in DOMAIN Libraries |-> filedata[f][index][Libraries[c]]]
  BY <1>4, <1>6
<1>9. rows' = [f \in DOMAIN input |-> [cpu |-> filedata[f].cpu, cells |-> cells[f]]]
  BY <1>2, <1>8
<1>10. rows' \in Seq(Row) /\ Len(rows') = Len(input)
  <2>1. \A f \in DOMAIN input : [cpu |-> filedata[f].cpu, cells |-> cells[f]] \in Row
    BY <1>5, <1>7 DEF Row
  <2> QED
    BY <1>1, <1>9, <2>1
<1>11. PICK file, column : file = [f \in DOMAIN input |-> f] /\ column = [c \in DOMAIN Libraries |-> c]
  OBVIOUS
<1>12. Shows(file, column)'
  <2>1. file \in [1 .. Len(input) -> DOMAIN input] /\ Increasing(file)
    BY <1>1, <1>11 DEF Increasing
  <2>2. column \in [1 .. Len(Libraries) -> DOMAIN Libraries] /\ Increasing(column)
    BY <1>11, LibrariesAre DEF Increasing
  <2>3. \A c \in 1 .. Len(Libraries) : Libraries[c] = Libraries[column[c]]
    BY <1>11, LibrariesAre
  <2>4. ASSUME NEW r \in 1 .. Len(input)
        PROVE  /\ rows'[r].cpu = filedata[file[r]].cpu /\ Len(rows'[r].cells) = Len(Libraries)
               /\ \A c \in 1 .. Len(Libraries) : rows'[r].cells[c] = Cell(file[r], column[c])'
    <3>1. rows'[r].cpu = filedata[r].cpu /\ rows'[r].cells = cells[r] /\ file[r] = r
      BY <1>1, <1>9, <1>11
    <3> QED
      BY <1>1, <1>7, <1>11, <3>1, LibrariesAre
  <2> QED
    BY <1>1, <1>10, <2>1, <2>2, <2>3, <2>4 DEF Shows
<1>13. phase' = "lines" => LinesUsed(file, at)' /\ ColumnsUsed(column, 1)'
  <2>1. \A f \in DOMAIN input : file[f] = f
    BY <1>11
  <2>2. \A c \in DOMAIN Libraries : column[c] = c
    BY <1>11
  <2>3. LinesUsed(file, 1)'
    BY <1>1, <1>10, <2>1 DEF LinesUsed
  <2>4. ColumnsUsed(column, 1)'
    BY <1>1, <2>2, LibrariesAre DEF ColumnsUsed
  <2> QED
    BY <1>1, <2>3, <2>4
<1>14. phase' = "done" => ~ \E f \in DOMAIN input : LineUsed(f)'
  BY <1>2, <1>4, LibrariesAre DEF LineUsed
<1>15. TableInv'
  <2>1. header' \in Seq(LibrarySet) /\ Len(header') <= Len(Libraries)
    BY <1>1, LibrariesAre
  <2>2. phase' = "done" => ~ \E f \in DOMAIN input' : LineUsed(f)'
    BY <1>1, <1>14
  <2>3. phase' = "lines" => /\ LinesUsed(file, at)' /\ ColumnsUsed(column, 1)'
                            /\ header' = Libraries /\ column = [c \in DOMAIN Libraries |-> c]
    BY <1>1, <1>11, <1>13
  <2>4. rows' \in Seq(Row) /\ Len(rows') <= Len(input')
    BY <1>1, <1>10
  <2> QED
    BY <1>1, <1>12, <2>1, <2>2, <2>3, <2>4 DEF TableInv
<1>16. PlaceInv'
  BY <1>1, <1>2, <1>10, LibrariesAre DEF PlaceInv
<1> QED
  BY <1>3, <1>15, <1>16 DEF Inv

(* What the table shows only depends on the table and the files.           *)
LEMMA TableSame ==
  ASSUME UNCHANGED <<input, filedata, shown, header, rows>>, NEW file, NEW column
  PROVE  /\ Shows(file, column)' <=> Shows(file, column)
         /\ \A i : LinesUsed(file, i)' <=> LinesUsed(file, i)
         /\ \A i : ColumnsUsed(column, i)' <=> ColumnsUsed(column, i)
         /\ \A f : LineUsed(f)' <=> LineUsed(f)
<1>1. \A f, c : Cell(f, c)' = Cell(f, c)
  BY DEF Cell
<1>2. input' = input /\ filedata' = filedata /\ header' = header /\ rows' = rows
  OBVIOUS
<1>3. \A f : (LineUsed(f)' <=> LineUsed(f)) /\ (ColumnUsed(f)' <=> ColumnUsed(f))
  BY <1>1, <1>2 DEF LineUsed, ColumnUsed
<1>4. Shows(file, column)' <=> Shows(file, column)
  BY <1>1, <1>2 DEF Shows
<1>5. \A i : LinesUsed(file, i)' <=> LinesUsed(file, i)
  BY <1>2, <1>3 DEF LinesUsed
<1>6. \A i : ColumnsUsed(column, i)' <=> ColumnsUsed(column, i)
  BY <1>2, <1>3 DEF ColumnsUsed
<1> QED
  BY <1>3, <1>4, <1>5, <1>6

(* Removing an empty line removes no value, and keeps the others in order. *)
LEMMA LineRemoved ==
  ASSUME Inv, RemoveLine
  PROVE  Inv'
<1>1. /\ phase = "lines" /\ phase' = "lines" /\ at \in 1 .. Len(rows)
      /\ UNCHANGED <<input, filedata, shown, header>>
      /\ rows \in Seq(Row) /\ Len(rows) \in Nat /\ Len(rows) <= Len(input)
      /\ Len(input) \in Nat \ {0} /\ DOMAIN input = 1 .. Len(input)
  <2>1. rows \in Seq(Row) /\ Len(rows) <= Len(input)
    BY DEF Inv, TableInv
  <2>2. phase = "lines" /\ phase' = "lines" /\ UNCHANGED <<input, filedata, shown, header>> /\ at <= Len(rows)
    BY DEF RemoveLine
  <2>3. at \in 1 .. Len(rows) + 1
    BY <2>2 DEF Inv, PlaceInv
  <2> QED
    BY <2>1, <2>2, <2>3, InputIs DEF Inv, FilesInv
<1>2. FilesInv'
  BY <1>1, FilesKept DEF Inv
<1>3. \A f, c : Cell(f, c)' = Cell(f, c)
  BY <1>1 DEF Cell
<1>4. PICK file, column :
        /\ Shows(file, column) /\ LinesUsed(file, at) /\ ColumnsUsed(column, 1)
        /\ header = Libraries /\ column = [c \in DOMAIN Libraries |-> c]
  BY <1>1 DEF Inv, TableInv
<1>5. /\ \A f \in DOMAIN input : LineUsed(f)' <=> LineUsed(f)
      /\ \A c \in DOMAIN Libraries : ColumnUsed(c)' <=> ColumnUsed(c)
  BY <1>1, <1>3 DEF LineUsed, ColumnUsed
<1>6. ColumnsUsed(column, 1)'
  BY <1>1, <1>4, <1>5, LibrariesAre DEF ColumnsUsed, Shows
<1>7. file \in [1 .. Len(rows) -> DOMAIN input] /\ Increasing(file)
  BY <1>4 DEF Shows
<1>8. header' \in Seq(LibrarySet) /\ Len(header') <= Len(Libraries)
  BY <1>1 DEF Inv, TableInv
<1>9. LineUsed(file[at]) <=> ~ \A c \in DOMAIN header : rows[at].cells[c] = None
  <2>1. \A c \in 1 .. Len(header) : rows[at].cells[c] = Cell(file[at], column[c])
    BY <1>1, <1>4 DEF Shows
  <2>2. DOMAIN header = 1 .. Len(header) /\ DOMAIN header = DOMAIN Libraries
    BY <1>4, LibrariesAre
  <2>3. \A c \in DOMAIN header : rows[at].cells[c] = Cell(file[at], c)
    BY <1>4, <2>1, <2>2
  <2> QED
    BY <2>2, <2>3 DEF LineUsed
<1>10. CASE LineUsed(file[at])
  <2>1. at' = at + 1 /\ rows' = rows
    BY <1>9, <1>10 DEF RemoveLine, AfterLine
  <2>2. Shows(file, column)'
    BY <1>1, <1>3, <1>4, <2>1 DEF Shows
  <2>3. \A r \in 1 .. Len(rows) : r < at + 1 => r < at \/ r = at
    BY <1>1
  <2>4. LinesUsed(file, at + 1)
    BY <1>4, <1>10, <2>3 DEF LinesUsed
  <2>5. LinesUsed(file, at)'
    BY <1>1, <1>5, <1>7, <2>1, <2>4 DEF LinesUsed
  <2>6. TableInv'
    BY <1>1, <1>4, <1>6, <1>8, <2>1, <2>2, <2>5 DEF TableInv
  <2>7. PlaceInv'
    BY <1>1, <2>1 DEF Inv, PlaceInv
  <2> QED
    BY <1>2, <2>6, <2>7 DEF Inv
<1>11. CASE ~ LineUsed(file[at])
  <2>1. at' = at /\ rows' = RemoveAt(rows, at)
    BY <1>9, <1>11 DEF RemoveLine
  <2>2. /\ rows' \in Seq(Row) /\ Len(rows') = Len(rows) - 1
        /\ \A k \in 1 .. Len(rows) - 1 : rows'[k] = IF k < at THEN rows[k] ELSE rows[k + 1]
    BY <1>1, <2>1, RemoveAtIs
  <2>3. PICK left : left = Without(file, Len(rows), at)
    OBVIOUS
  <2>4. /\ left \in [1 .. Len(rows) - 1 -> DOMAIN input] /\ Increasing(left)
        /\ \A k \in 1 .. Len(rows) : k # at => \E j \in 1 .. Len(rows) - 1 : left[j] = file[k]
        /\ \A j \in 1 .. Len(rows) - 1 : left[j] = IF j < at THEN file[j] ELSE file[j + 1]
    <3>1. DOMAIN input \subseteq Nat
      BY <1>1
    <3>2. IsWithout(left, file, Len(rows), at, DOMAIN input)
      BY <1>1, <1>7, <2>3, <3>1, WithoutIs
    <3> QED
      BY <3>2 DEF IsWithout
  <2>5. ASSUME NEW r \in 1 .. Len(rows) - 1
        PROVE  \E k \in 1 .. Len(rows) : rows'[r] = rows[k] /\ left[r] = file[k] /\ (r < at => k = r)
    <3>1. r \in 1 .. Len(rows) /\ r + 1 \in 1 .. Len(rows)
      BY <1>1
    <3> QED
      BY <2>2, <2>4, <3>1
  <2>6. Shows(left, column)'
    <3>1. ASSUME NEW r \in 1 .. Len(rows) - 1
          PROVE  /\ rows'[r].cpu = filedata[left[r]].cpu /\ Len(rows'[r].cells) = Len(header)
                 /\ \A c \in 1 .. Len(header) : rows'[r].cells[c] = Cell(left[r], column[c])
      BY <1>4, <2>5 DEF Shows
    <3>2. /\ column \in [1 .. Len(header) -> DOMAIN Libraries] /\ Increasing(column)
          /\ \A c \in 1 .. Len(header) : header[c] = Libraries[column[c]]
      BY <1>4 DEF Shows
    <3> QED
      BY <1>1, <1>3, <2>2, <2>4, <3>1, <3>2 DEF Shows
  <2>7. LinesUsed(left, at)'
    <3>1. \A r \in 1 .. Len(rows) - 1 : r < at => LineUsed(left[r])
      BY <1>4, <2>5 DEF LinesUsed
    <3>2. \A f \in DOMAIN input : LineUsed(f) => \E j \in 1 .. Len(rows) - 1 : left[j] = f
      BY <1>4, <1>11, <2>4 DEF LinesUsed
    <3>3. \A r \in 1 .. Len(rows) - 1 : left[r] \in DOMAIN input
      BY <2>4
    <3> QED
      BY <1>1, <1>5, <2>1, <2>2, <3>1, <3>2, <3>3 DEF LinesUsed
  <2>8. TableInv'
    <3>1. Len(rows') <= Len(input')
      BY <1>1, <2>2
    <3> QED
      BY <1>1, <1>4, <1>6, <1>8, <2>2, <2>6, <2>7, <3>1 DEF TableInv
  <2>9. PlaceInv'
    BY <1>1, <2>1, <2>2 DEF Inv, PlaceInv
  <2> QED
    BY <1>2, <2>8, <2>9 DEF Inv
<1> QED
  BY <1>10, <1>11

(* Then all the lines left have a value, and the columns are searched.     *)
LEMMA LinesEnded ==
  ASSUME Inv, EndLines
  PROVE  Inv'
<1>1. /\ phase = "lines" /\ phase' = "columns" /\ at = Len(rows) + 1 /\ at' = 1
      /\ UNCHANGED <<input, filedata, shown, header, rows>>
  <2>1. rows \in Seq(Row)
    BY DEF Inv, TableInv
  <2> QED
    BY <2>1 DEF Inv, PlaceInv, EndLines
<1>2. FilesInv'
  BY <1>1, FilesKept DEF Inv
<1>3. PICK file, column :
        Shows(file, column) /\ LinesUsed(file, at) /\ ColumnsUsed(column, 1)
  BY <1>1 DEF Inv, TableInv
<1>4. Shows(file, column)' /\ LinesUsed(file, Len(rows) + 1)' /\ ColumnsUsed(column, at)'
  <2>1. PICK i, k : i = Len(rows) + 1 /\ k = 1
    OBVIOUS
  <2>2. Shows(file, column)' /\ LinesUsed(file, i)' /\ ColumnsUsed(column, k)'
    BY <1>1, <1>3, <2>1, TableSame
  <2>3. i = Len(rows') + 1 /\ k = at'
    BY <1>1, <2>1
  <2> QED
    BY <2>2, <2>3 DEF LinesUsed, ColumnsUsed
<1>5. rows \in Seq(Row) /\ Len(rows) <= Len(input) /\ header \in Seq(LibrarySet)
      /\ Len(header) <= Len(Libraries)
  BY DEF Inv, TableInv
<1>6. TableInv'
  BY <1>1, <1>4, <1>5 DEF TableInv
<1>7. PlaceInv'
  BY <1>1, <1>5 DEF Inv, PlaceInv
<1> QED
  BY <1>2, <1>6, <1>7 DEF Inv

(* A column in which each row has an empty cell is one without any value:  *)
(* the files without a row have none.  Removing it moves the cells which   *)
(* follow with the names of their columns.                                 *)
LEMMA ColumnRemoved ==
  ASSUME Inv, RemoveColumn
  PROVE  Inv'
<1>1. /\ phase = "columns" /\ phase' = "columns" /\ at \in 1 .. Len(header)
      /\ UNCHANGED <<input, filedata, shown>>
      /\ rows \in Seq(Row) /\ Len(rows) \in Nat /\ Len(rows) <= Len(input)
      /\ header \in Seq(LibrarySet) /\ Len(header) \in Nat /\ Len(header) <= Len(Libraries)
      /\ Len(input) \in Nat \ {0} /\ DOMAIN input = 1 .. Len(input)
  <2>1. /\ rows \in Seq(Row) /\ Len(rows) <= Len(input)
        /\ header \in Seq(LibrarySet) /\ Len(header) <= Len(Libraries)
    BY DEF Inv, TableInv
  <2>2. phase = "columns" /\ phase' = "columns" /\ UNCHANGED <<input, filedata, shown>> /\ at <= Len(header)
    BY DEF RemoveColumn
  <2>3. at \in 1 .. Len(header) + 1
    BY <2>2 DEF Inv, PlaceInv
  <2> QED
    BY <2>1, <2>2, <2>3, InputIs DEF Inv, FilesInv
<1>2. FilesInv'
  BY <1>1, FilesKept DEF Inv
<1>3. \A f, c : Cell(f, c)' = Cell(f, c)
  BY <1>1 DEF Cell
<1>4. PICK file, column :
        Shows(file, column) /\ LinesUsed(file, Len(rows) + 1) /\ ColumnsUsed(column, at)
  BY <1>1 DEF Inv, TableInv
<1>5. /\ \A f \in DOMAIN input : LineUsed(f)' <=> LineUsed(f)
      /\ \A c \in DOMAIN Libraries : ColumnUsed(c)' <=> ColumnUsed(c)
  BY <1>1, <1>3 DEF LineUsed, ColumnUsed
<1>6. /\ file \in [1 .. Len(rows) -> DOMAIN input] /\ Increasing(file)
      /\ column \in [1 .. Len(header) -> DOMAIN Libraries] /\ Increasing(column)
  BY <1>4 DEF Shows
<1>7. ColumnUsed(column[at]) <=> ~ \A r \in DOMAIN rows : rows[r].cells[at] = None
  <2>1. \A r \in 1 .. Len(rows) : rows[r].cells[at] = Cell(file[r], column[at])
    BY <1>1, <1>4 DEF Shows
  <2>2. \A f \in DOMAIN input : Cell(f, column[at]) # None => \E r \in 1 .. Len(rows) : file[r] = f
    BY <1>1, <1>4, <1>6 DEF LinesUsed, LineUsed
  <2>3. ColumnUsed(column[at]) => \E r \in 1 .. Len(rows) : rows[r].cells[at] # None
    BY <2>1, <2>2 DEF ColumnUsed
  <2>4. ASSUME NEW r \in 1 .. Len(rows), rows[r].cells[at] # None
        PROVE  ColumnUsed(column[at])
    BY <1>6, <2>1, <2>4 DEF ColumnUsed
  <2>5. DOMAIN rows = 1 .. Len(rows)
    BY <1>1
  <2> QED
    BY <2>3, <2>4, <2>5
<1>8. CASE ColumnUsed(column[at])
  <2>1. at' = at + 1 /\ rows' = rows /\ header' = header
    BY <1>7, <1>8 DEF RemoveColumn
  <2>2. Shows(file, column)'
    BY <1>1, <1>3, <1>4, <2>1 DEF Shows
  <2>3. LinesUsed(file, Len(rows) + 1)'
    BY <1>1, <1>4, <1>5, <1>6, <2>1 DEF LinesUsed
  <2>4. \A k \in 1 .. Len(header) : k < at + 1 => k < at \/ k = at
    BY <1>1
  <2>5. ColumnsUsed(column, at + 1)
    BY <1>4, <1>8, <2>4 DEF ColumnsUsed
  <2>6. ColumnsUsed(column, at)'
    BY <1>1, <1>5, <1>6, <2>1, <2>5 DEF ColumnsUsed
  <2>7. TableInv'
    BY <1>1, <2>1, <2>2, <2>3, <2>6 DEF TableInv
  <2>8. PlaceInv'
    BY <1>1, <2>1 DEF Inv, PlaceInv
  <2> QED
    BY <1>2, <2>7, <2>8 DEF Inv
<1>9. CASE ~ ColumnUsed(column[at])
  <2>1. at' = at /\ rows' = WithoutColumn(at) /\ header' = RemoveAt(header, at)
    BY <1>7, <1>9 DEF RemoveColumn, AfterRemoval
  <2>2. /\ header' \in Seq(LibrarySet) /\ Len(header') = Len(header) - 1
        /\ \A k \in 1 .. Len(header) - 1 : header'[k] = IF k < at THEN header[k] ELSE header[k + 1]
    BY <1>1, <2>1, RemoveAtIs
  <2>3. ASSUME NEW r \in 1 .. Len(rows)
        PROVE  /\ rows'[r] \in Row /\ rows'[r].cpu = rows[r].cpu
               /\ Len(rows'[r].cells) = Len(header) - 1
               /\ \A k \in 1 .. Len(header) - 1 :
                    rows'[r].cells[k] = IF k < at THEN rows[r].cells[k] ELSE rows[r].cells[k + 1]
    <3>1. PICK cells, T : cells = rows[r].cells /\ T = Times \cup Ratios
      OBVIOUS
    <3>2. cells \in Seq(T) /\ rows[r].cpu \in STRING \cup {None} /\ rows[r] \in Row
      <4>1. rows[r] \in Row
        BY <1>1
      <4>2. rows[r].cells \in Seq(Times \cup Ratios) /\ rows[r].cpu \in STRING \cup {None}
        BY <4>1 DEF Row
      <4> QED
        BY <3>1, <4>1, <4>2
    <3>3. Len(cells) = Len(header)
      BY <1>4, <3>1 DEF Shows
    <3>4. /\ RemoveAt(cells, at) \in Seq(T) /\ Len(RemoveAt(cells, at)) = Len(cells) - 1
          /\ \A k \in 1 .. Len(cells) - 1 :
               RemoveAt(cells, at)[k] = IF k < at THEN cells[k] ELSE cells[k + 1]
      BY <1>1, <3>2, <3>3, RemoveAtIs
    <3>5. rows'[r] = [rows[r] EXCEPT !.cells = RemoveAt(cells, at)]
      BY <1>1, <2>1, <3>1 DEF WithoutColumn
    <3>6. rows'[r] = [cpu |-> rows[r].cpu, cells |-> RemoveAt(cells, at)]
      BY <3>2, <3>5 DEF Row
    <3>7. rows'[r] \in Row
      BY <3>1, <3>2, <3>4, <3>6 DEF Row
    <3> QED
      BY <3>1, <3>3, <3>4, <3>6, <3>7
  <2>4. rows' \in Seq(Row) /\ Len(rows') = Len(rows)
    <3>1. rows' = [r \in 1 .. Len(rows) |-> rows'[r]]
      BY <1>1, <2>1 DEF WithoutColumn
    <3>2. PICK new : new = rows'
      OBVIOUS
    <3>3. new \in Seq(Row) /\ Len(new) = Len(rows)
      BY <1>1, <2>3, <3>1, <3>2
    <3> QED
      BY <3>2, <3>3
  <2>5. PICK left : left = Without(column, Len(header), at)
    OBVIOUS
  <2>6. /\ left \in [1 .. Len(header) - 1 -> DOMAIN Libraries] /\ Increasing(left)
        /\ \A k \in 1 .. Len(header) : k # at => \E j \in 1 .. Len(header) - 1 : left[j] = column[k]
        /\ \A j \in 1 .. Len(header) - 1 : left[j] = IF j < at THEN column[j] ELSE column[j + 1]
    <3>1. DOMAIN Libraries \subseteq Nat
      BY LibrariesAre
    <3>2. IsWithout(left, column, Len(header), at, DOMAIN Libraries)
      BY <1>1, <1>6, <2>5, <3>1, WithoutIs
    <3> QED
      BY <3>2 DEF IsWithout
  <2>7. ASSUME NEW c \in 1 .. Len(header) - 1
        PROVE  \E k \in 1 .. Len(header) :
                 /\ header'[c] = header[k] /\ left[c] = column[k] /\ (c < at => k = c)
                 /\ \A r \in 1 .. Len(rows) : rows'[r].cells[c] = rows[r].cells[k]
    <3>1. c \in 1 .. Len(header) /\ c + 1 \in 1 .. Len(header)
      BY <1>1
    <3>2. CASE c < at
      BY <2>2, <2>3, <2>6, <3>1, <3>2
    <3>3. CASE ~ c < at
      <4>1. header'[c] = header[c + 1] /\ left[c] = column[c + 1]
        BY <2>2, <2>6, <3>3
      <4>2. \A r \in 1 .. Len(rows) : rows'[r].cells[c] = rows[r].cells[c + 1]
        BY <2>3, <3>3
      <4> QED
        BY <3>1, <3>3, <4>1, <4>2
    <3> QED
      BY <3>2, <3>3
  <2>8. Shows(file, left)'
    <3>1. \A c \in 1 .. Len(header) - 1 : header'[c] = Libraries[left[c]]
      BY <1>4, <2>7 DEF Shows
    <3>2. ASSUME NEW r \in 1 .. Len(rows), NEW c \in 1 .. Len(header) - 1
          PROVE  rows'[r].cells[c] = Cell(file[r], left[c])
      BY <1>4, <2>7 DEF Shows
    <3>3. \A r \in 1 .. Len(rows) : rows'[r].cpu = filedata[file[r]].cpu
      BY <1>4, <2>3 DEF Shows
    <3> QED
      BY <1>1, <1>3, <1>6, <2>2, <2>3, <2>4, <2>6, <3>1, <3>2, <3>3 DEF Shows
  <2>9. LinesUsed(file, Len(rows) + 1)'
    BY <1>1, <1>4, <1>5, <1>6, <2>4 DEF LinesUsed
  <2>10. ColumnsUsed(left, at)'
    <3>1. \A k \in 1 .. Len(header) - 1 : k < at => ColumnUsed(left[k])
      BY <1>4, <2>7 DEF ColumnsUsed
    <3>2. \A c \in DOMAIN Libraries : ColumnUsed(c) => \E j \in 1 .. Len(header) - 1 : left[j] = c
      BY <1>4, <1>9, <2>6 DEF ColumnsUsed
    <3>3. \A k \in 1 .. Len(header) - 1 : left[k] \in DOMAIN Libraries
      BY <2>6
    <3> QED
      BY <1>1, <1>5, <2>1, <2>2, <3>1, <3>2, <3>3 DEF ColumnsUsed
  <2>11. TableInv'
    <3>1. Len(rows') <= Len(input') /\ Len(header') <= Len(Libraries)
      BY <1>1, <2>2, <2>4, LibrariesAre
    <3> QED
      BY <1>1, <2>2, <2>4, <2>8, <2>9, <2>10, <3>1 DEF TableInv
  <2>12. PlaceInv'
    BY <1>1, <2>1, <2>2 DEF Inv, PlaceInv
  <2> QED
    BY <1>2, <2>11, <2>12 DEF Inv
<1> QED
  BY <1>8, <1>9

(* Then all the columns left have a value too.                             *)
LEMMA ColumnsEnded ==
  ASSUME Inv, EndColumns
  PROVE  Inv'
<1>1. /\ phase = "columns" /\ phase' = "done" /\ at = Len(header) + 1
      /\ UNCHANGED <<input, at, filedata, shown, header, rows>>
  <2>1. header \in Seq(LibrarySet)
    BY DEF Inv, TableInv
  <2> QED
    BY <2>1 DEF Inv, PlaceInv, EndColumns
<1>2. FilesInv'
  BY <1>1, FilesKept DEF Inv
<1>3. PICK file, column :
        Shows(file, column) /\ LinesUsed(file, Len(rows) + 1) /\ ColumnsUsed(column, at)
  BY <1>1 DEF Inv, TableInv
<1>4. Shows(file, column)' /\ LinesUsed(file, Len(rows) + 1)' /\ ColumnsUsed(column, Len(header) + 1)'
  <2>1. PICK i, k : i = Len(rows) + 1 /\ k = at
    OBVIOUS
  <2>2. Shows(file, column)' /\ LinesUsed(file, i)' /\ ColumnsUsed(column, k)'
    BY <1>1, <1>3, <2>1, TableSame
  <2>3. i = Len(rows') + 1 /\ k = Len(header') + 1
    BY <1>1, <2>1
  <2> QED
    BY <2>2, <2>3 DEF LinesUsed, ColumnsUsed
<1>5. TableInv'
  BY <1>1, <1>4 DEF Inv, TableInv
<1>6. PlaceInv'
  BY <1>1 DEF Inv, PlaceInv
<1> QED
  BY <1>2, <1>5, <1>6 DEF Inv

-----------------------------------------------------------------------------
(* The invariant holds, and the properties follow. *)

(* Nothing is known of a file before it is read.                           *)
LEMMA InvInit == Init => Inv
<1> SUFFICES ASSUME Init
             PROVE  Inv
  OBVIOUS
<1>1. /\ input \in Inputs /\ phase = "read" /\ at = 1 /\ shown = None
      /\ rows = <<>> /\ header = <<>> /\ filedata = [f \in DOMAIN input |-> NoData]
  BY DEF Init
<1>2. Len(input) \in Nat \ {0} /\ DOMAIN input = 1 .. Len(input)
  BY <1>1, InputIs
<1>3. NoData \in FileData /\ NoData.refratio = NoRatios
  BY DEF NoData, FileData, NoRatios, Times, Ratios
<1>4. \A f \in DOMAIN input : filedata[f] = NoData /\ ~ IsRead(f) /\ ~ IsMerged(f)
  BY <1>1, <1>2 DEF IsRead, IsMerged
<1>5. FilesInv
  BY <1>1, <1>3, <1>4 DEF FilesInv
<1>6. PlaceInv
  BY <1>1, <1>2 DEF PlaceInv
<1>7. TableInv
  BY <1>1, <1>2, LibrariesAre DEF TableInv
<1> QED
  BY <1>5, <1>6, <1>7 DEF Inv

(* One lemma for each loop, gathered.                                      *)
LEMMA InvNext == Inv /\ [Next]_vars => Inv'
<1> SUFFICES ASSUME Inv, [Next]_vars
             PROVE  Inv'
  OBVIOUS
<1>1. CASE ReadFile
  <2>1. FilesInv' /\ PlaceInv'
    BY <1>1, FilesRead DEF Inv
  <2>2. UNCHANGED <<input, header, rows>> /\ phase' \in {"read", "merge"}
    BY <1>1 DEF ReadFile
  <2> QED
    BY <2>1, <2>2 DEF Inv, TableInv
<1>2. CASE MergeReference
  <2>1. FilesInv' /\ PlaceInv'
    BY <1>2, FilesMerged DEF Inv
  <2>2. UNCHANGED <<input, header, rows>> /\ phase' \in {"merge", "fill"}
    BY <1>2 DEF MergeReference
  <2> QED
    BY <2>1, <2>2 DEF Inv, TableInv
<1>3. CASE FillData
  BY <1>3, TableFilled
<1>4. CASE RemoveLine
  BY <1>4, LineRemoved
<1>5. CASE EndLines
  BY <1>5, LinesEnded
<1>6. CASE RemoveColumn
  BY <1>6, ColumnRemoved
<1>7. CASE EndColumns
  BY <1>7, ColumnsEnded
<1>8. CASE UNCHANGED vars
  <2>1. UNCHANGED <<input, phase, at, filedata, shown, header, rows>>
    BY <1>8 DEF vars
  <2>2. FilesInv'
    <3>1. \A f : (IsRead(f)' <=> IsRead(f)) /\ (IsMerged(f)' <=> IsMerged(f))
      BY <2>1 DEF IsRead, IsMerged
    <3>2. RefFiles' = RefFiles /\ refsystem' = refsystem
      BY <2>1 DEF RefFiles, refsystem
    <3>3. \A f : HasRatios(f)' <=> HasRatios(f)
      BY <2>1, <3>2 DEF HasRatios
    <3> QED
      BY <2>1, <3>1, <3>3 DEF Inv, FilesInv
  <2>3. PlaceInv'
    BY <2>1 DEF Inv, PlaceInv
  <2>4. TableInv'
    BY <2>1, TableSame DEF Inv, TableInv
  <2> QED
    BY <2>2, <2>3, <2>4 DEF Inv
<1> QED
  BY <1>1, <1>2, <1>3, <1>4, <1>5, <1>6, <1>7, <1>8 DEF Next

(* The invariant holds in every state.                                     *)
LEMMA Invariance == Spec => []Inv
<1> QED
  BY InvInit, InvNext, PTL DEF Spec

(* The variables keep their types, and the rows as many cells as there are *)
(* columns while both shrink.                                              *)
THEOREM TypeCorrect == Spec => []TypeOK
<1>1. Inv => TypeOK
  <2> SUFFICES ASSUME Inv
               PROVE  TypeOK
    OBVIOUS
  <2>1. Len(input) \in Nat \ {0} /\ Len(Libraries) \in Nat
    BY InputIs, LibrariesAre DEF Inv, FilesInv
  <2>2. /\ Len(rows) \in Nat /\ Len(header) \in Nat /\ DOMAIN rows = 1 .. Len(rows)
        /\ Len(rows) <= Len(input) /\ Len(header) <= Len(Libraries)
    BY DEF Inv, TableInv
  <2>3. at \in 1 .. Len(input) + Len(Libraries) + 1
    BY <2>1, <2>2 DEF Inv, PlaceInv
  <2>4. ASSUME NEW f \in DOMAIN input
        PROVE  /\ filedata[f].frequency \in Nat
               /\ \A l \in LibrarySet : /\ filedata[f].utime[l] \in Times
                                        /\ filedata[f].refratio[l] \in Ratios
    <3>1. filedata[f] \in FileData
      BY DEF Inv, FilesInv
    <3> QED
      BY <3>1 DEF FileData
  <2>5. \A r \in DOMAIN rows : Len(rows[r].cells) = Len(header)
    <3>1. CASE phase \in {"lines", "columns", "done"}
      BY <2>2, <3>1 DEF Inv, TableInv, Shows
    <3>2. CASE phase \in {"read", "merge", "fill"}
      <4>1. rows = <<>>
        BY <3>2 DEF Inv, PlaceInv
      <4> QED
        BY <4>1
    <3> QED
      BY <3>1, <3>2 DEF Inv, PlaceInv
  <2> QED
    BY <2>3, <2>4, <2>5 DEF Inv, PlaceInv, TypeOK
<1> QED
  BY <1>1, Invariance, PTL

(* What is left to do is two natural numbers in each phase.                *)
LEMMA RemainingIsNat ==
  ASSUME Inv
  PROVE  Remaining[1] \in Nat /\ Remaining[2] \in Nat
<1>1. Len(input) \in Nat
  BY InputIs DEF Inv, FilesInv
<1>2. Len(rows) \in Nat /\ Len(header) \in Nat
  BY DEF Inv, TableInv
<1>3. CASE phase \in {"read", "merge"}
  <2>1. at \in 1 .. Len(input)
    BY <1>3 DEF Inv, PlaceInv
  <2> QED
    BY <1>1, <1>3, <2>1 DEF Remaining
<1>4. CASE phase = "lines"
  <2>1. at \in 1 .. Len(rows) + 1
    BY <1>4 DEF Inv, PlaceInv
  <2> QED
    BY <1>2, <1>4, <2>1 DEF Remaining
<1>5. CASE phase = "columns"
  <2>1. at \in 1 .. Len(header) + 1
    BY <1>5 DEF Inv, PlaceInv
  <2> QED
    BY <1>2, <1>5, <2>1 DEF Remaining
<1>6. CASE phase \in {"fill", "done"}
  BY <1>6 DEF Remaining
<1> QED
  BY <1>3, <1>4, <1>5, <1>6 DEF Inv, PlaceInv

(* Every step ends a phase, or passes or removes one thing.                *)
Comes ==
  \/ Remaining'[1] < Remaining[1]
  \/ Remaining'[1] = Remaining[1] /\ Remaining'[2] = Remaining[2] - 1

(* Each action comes closer by its own component.                          *)
LEMMA StepComes ==
  ASSUME Inv, Inv', Next
  PROVE  Comes
<1>1. CASE ReadFile
  <2>1. /\ phase = "read" /\ input' = input /\ at \in Nat /\ Len(input) \in Nat
        /\ \/ at' = at + 1 /\ phase' = "read"
           \/ phase' = "merge"
    BY <1>1, InputIs DEF ReadFile, Inv, FilesInv, PlaceInv
  <2> QED
    BY <2>1 DEF Comes, Remaining
<1>2. CASE MergeReference
  <2>1. /\ phase = "merge" /\ input' = input /\ at \in Nat /\ Len(input) \in Nat
        /\ \/ at' = at + 1 /\ phase' = "merge"
           \/ phase' = "fill"
    BY <1>2, InputIs DEF MergeReference, Inv, FilesInv, PlaceInv
  <2> QED
    BY <2>1 DEF Comes, Remaining
<1>3. CASE FillData
  <2>1. phase = "fill" /\ phase' \in {"lines", "done"}
    BY <1>3 DEF FillData
  <2> QED
    BY <2>1 DEF Comes, Remaining
<1>4. CASE RemoveLine
  <2>1. /\ phase = "lines" /\ phase' = "lines" /\ at \in 1 .. Len(rows)
        /\ rows \in Seq(Row) /\ Len(rows) \in Nat
        /\ \/ rows' = RemoveAt(rows, at) /\ at' = at
           \/ at' = at + 1 /\ rows' = rows
    BY <1>4 DEF RemoveLine, AfterLine, Inv, PlaceInv, TableInv
  <2>2. Len(RemoveAt(rows, at)) = Len(rows) - 1
    BY <2>1, RemoveAtIs
  <2>3. Len(rows') + 1 - at' = Len(rows) + 1 - at - 1
    BY <2>1, <2>2
  <2> QED
    BY <2>1, <2>3 DEF Comes, Remaining
<1>5. CASE EndLines
  <2>1. phase = "lines" /\ phase' = "columns"
    BY <1>5 DEF EndLines
  <2> QED
    BY <2>1 DEF Comes, Remaining
<1>6. CASE RemoveColumn
  <2>1. /\ phase = "columns" /\ phase' = "columns" /\ at \in 1 .. Len(header)
        /\ header \in Seq(LibrarySet) /\ Len(header) \in Nat
        /\ \/ header' = RemoveAt(header, at) /\ at' = at
           \/ at' = at + 1 /\ header' = header
    BY <1>6 DEF RemoveColumn, AfterRemoval, Inv, PlaceInv, TableInv
  <2>2. Len(RemoveAt(header, at)) = Len(header) - 1
    BY <2>1, RemoveAtIs
  <2>3. Len(header') + 1 - at' = Len(header) + 1 - at - 1
    BY <2>1, <2>2
  <2> QED
    BY <2>1, <2>3 DEF Comes, Remaining
<1>7. CASE EndColumns
  <2>1. phase = "columns" /\ phase' = "done"
    BY <1>7 DEF EndColumns
  <2> QED
    BY <2>1 DEF Comes, Remaining
<1> QED
  BY <1>1, <1>2, <1>3, <1>4, <1>5, <1>6, <1>7 DEF Next

(* The script comes closer to its end at each turn of its loops, for any   *)
(* reports and libraries, and never stands outside of what is left of a    *)
(* table (analyze-reports.py:365-392).                                     *)
THEOREM LoopsEnd == Spec => NoStepInVain
<1> DEFINE IsNat == Remaining[1] \in Nat /\ Remaining[2] \in Nat
<1>1. Inv => IsNat
  BY RemainingIsNat
<1>2. Inv /\ Inv' /\ IsNat' /\ [Next]_vars =>
        [/\ Remaining'[1] \in Nat /\ Remaining'[2] \in Nat
         /\ \/ Remaining'[1] < Remaining[1]
            \/ Remaining'[1] = Remaining[1] /\ Remaining'[2] = Remaining[2] - 1]_vars
  BY StepComes DEF Comes
<1> QED
  BY <1>1, <1>2, Invariance, PTL DEF Spec, NoStepInVain

(* A ratio is to a reference which tells its frequency; those of the       *)
(* reference itself are 1, or 0 when the time is.                          *)
THEOREM RatiosAreToReference == Spec => []RatiosToReference
<1>1. Inv => RatiosToReference
  <2> DEFINE RatiosOf(f) == {filedata[f].refratio[l] : l \in LibrarySet} \ {None}
             compared == {f \in DOMAIN input : RatiosOf(f) # {}}
  <2> SUFFICES ASSUME Inv, phase = "done", compared # {}
               PROVE  /\ \A f \in compared : filedata[f].frequency > 0 /\ \A r \in RatiosOf(f) : r[2] > 0
                      /\ \E f \in compared : /\ input[f].isRef
                                             /\ \A r \in RatiosOf(f) : r[1] = r[2] \/ r = <<0, 1>>
    BY DEF RatiosToReference
  <2>1. \A f \in DOMAIN input : HasRatios(f) /\ filedata[f] \in FileData
    BY DEF Inv, FilesInv, IsMerged
  <2>2. PICK k : k = Min(RefFiles)
    OBVIOUS
  <2>3. PICK ref : ref = refsystem
    OBVIOUS
  <2>4. ASSUME NEW f \in DOMAIN input, NEW l \in LibrarySet, filedata[f].refratio[l] # None
        PROVE  /\ RefFiles # {} /\ filedata[f].frequency > 0
               /\ filedata[f].refratio[l] = RefRatio(ref, filedata[f], l)
    BY <2>1, <2>3, <2>4 DEF HasRatios
  <2>5. PICK f0 \in compared : TRUE
    OBVIOUS
  <2>6. PICK l0 \in LibrarySet : filedata[f0].refratio[l0] # None
    BY <2>5
  <2>7. /\ RefFiles # {} /\ k \in DOMAIN input /\ ref = filedata[k] /\ input[k].isRef
        /\ ref.frequency > 0 /\ ref \in FileData
    <3>1. RefFiles # {}
      BY <2>4, <2>6
    <3>2. k \in RefFiles
      BY <2>2, <3>1, FirstRef DEF Inv, FilesInv
    <3>3. ref = filedata[k]
      BY <2>2, <2>3 DEF refsystem
    <3> QED
      BY <2>1, <3>1, <3>2, <3>3 DEF RefFiles
  <2>8. None \notin Nat /\ None \notin Nat \X Nat
    BY ReportsAssumption
  <2>9. ASSUME NEW f \in DOMAIN input, NEW l \in LibrarySet, filedata[f].refratio[l] # None
        PROVE  filedata[f].refratio[l][2] > 0
    <3>1. PICK data, ratio : data = filedata[f] /\ ratio = filedata[f].refratio[l]
      OBVIOUS
    <3>2. ratio = RefRatio(ref, data, l) /\ ratio # None /\ data.frequency > 0
      BY <2>4, <2>9, <3>1
    <3>3. ref.utime[l] \in Times /\ data.frequency \in Nat
      BY <2>1, <2>7, <3>1 DEF FileData
    <3>4. CASE ref.utime[l] = 0
      BY <3>1, <3>2, <3>4 DEF RefRatio
    <3>5. CASE ref.utime[l] # 0
      <4>1. ratio = <<data.utime[l] * ref.frequency, ref.utime[l] * data.frequency>> /\ ref.utime[l] \in Nat
        BY <3>2, <3>3, <3>5 DEF RefRatio, Times
      <4>2. ref.utime[l] > 0
        BY <3>5, <4>1
      <4>3. \A a, b \in Nat : a > 0 /\ b > 0 => a * b > 0
        OBVIOUS
      <4>4. ref.utime[l] * data.frequency > 0
        BY <3>2, <3>3, <4>1, <4>2, <4>3
      <4> QED
        BY <3>1, <4>1, <4>4
    <3> QED
      BY <3>1, <3>4, <3>5
  <2>10. ASSUME NEW l \in LibrarySet, ref.refratio[l] # None
         PROVE  ref.refratio[l][1] = ref.refratio[l][2] \/ ref.refratio[l] = <<0, 1>>
    <3>1. ref.refratio[l] = RefRatio(ref, ref, l)
      BY <2>4, <2>7, <2>10
    <3> QED
      BY <2>10, <3>1 DEF RefRatio
  <2>11. k \in compared
    <3>1. filedata[f0].refratio[l0] = RefRatio(ref, filedata[f0], l0)
      BY <2>4, <2>6
    <3>2. ref.utime[l0] # None
      BY <2>6, <3>1 DEF RefRatio
    <3>3. ref.refratio[l0] = RefRatio(ref, ref, l0)
      BY <2>1, <2>3, <2>7 DEF HasRatios
    <3>4. ref.utime[l0] \in Nat /\ ref.frequency \in Nat
      BY <2>7, <3>2 DEF FileData, Times
    <3>5. RefRatio(ref, ref, l0) \in Nat \X Nat
      BY <3>1, <3>2, <3>4 DEF RefRatio
    <3>6. ref.refratio[l0] # None
      BY <2>8, <3>3, <3>5
    <3> QED
      BY <2>7, <3>6
  <2>12. \A f \in compared : filedata[f].frequency > 0 /\ \A r \in RatiosOf(f) : r[2] > 0
    BY <2>4, <2>9
  <2>13. input[k].isRef /\ \A r \in RatiosOf(k) : r[1] = r[2] \/ r = <<0, 1>>
    BY <2>7, <2>10
  <2> QED
    BY <2>11, <2>12, <2>13
<1> QED
  BY <1>1, Invariance, PTL

(* The extremes which the lines of a report are searched for.              *)
LEMMA MaxIs ==
  ASSUME NEW S, S \subseteq Nat, NEW p \in S, \A q \in S : q <= p
  PROVE  Max(S) = p
<1>1. \E x \in S : \A y \in S : x >= y
  OBVIOUS
<1>2. Max(S) \in S /\ \A y \in S : Max(S) >= y
  BY <1>1 DEF Max
<1>3. Max(S) \in Nat /\ p \in Nat
  BY <1>2
<1>4. p \in S /\ Max(S) \in S
  BY <1>2
<1>5. Max(S) >= p /\ p >= Max(S)
  BY <1>2, <1>3, <1>4
<1> QED
  BY <1>3, <1>5

(* The least of a set of numbers.                                          *)
LEMMA MinIs ==
  ASSUME NEW S, S \subseteq Nat, NEW p \in S, \A q \in S : p <= q
  PROVE  Min(S) = p
<1>1. \E x \in S : \A y \in S : x =< y
  OBVIOUS
<1>2. Min(S) \in S /\ \A y \in S : Min(S) =< y
  BY <1>1 DEF Min
<1>3. Min(S) \in Nat /\ p \in Nat
  BY <1>2
<1>4. p \in S /\ Min(S) \in S
  BY <1>2
<1>5. Min(S) =< p /\ p =< Min(S)
  BY <1>2, <1>3, <1>4
<1> QED
  BY <1>3, <1>5

(* What has been read line after line is what the lines say as a whole.    *)
LEMMA ReadIsSaid ==
  ASSUME input \in Inputs, NEW f \in DOMAIN input,
         NEW fd, Knows(input[f].lines, Len(input[f].lines), fd)
  PROVE  fd.cpu = CpuOf(f) /\ \A l \in LibrarySet : fd.utime[l] = TimeOf(f, l)
<1>1. PICK lines, N : lines = input[f].lines /\ N = Len(lines)
  OBVIOUS
<1>2. N \in Nat /\ DOMAIN lines = 1 .. N
  <2>1. IsReport(input[f])
    BY ReportsAssumption
  <2> QED
    BY <1>1, <2>1 DEF IsReport
<1>3. ASSUME NEW item
      PROVE  /\ \A i : i \in Says(f, item) <=> i \in 1 .. N /\ Tells(lines[i], item)
             /\ Says(f, item) \subseteq Nat
  BY <1>1, <1>2 DEF Says, Tells
<1>4. CpuSaid(lines, N, fd.cpu)
  BY <1>1 DEF Knows
<1>5. fd.cpu = CpuOf(f)
  <2> DEFINE A == Says(f, "cpu-index")
             B == Says(f, "cpu")
  <2>1. /\ \A i : i \in A <=> i \in 1 .. N /\ Tells(lines[i], "cpu-index")
        /\ A \subseteq Nat
    BY <1>3
  <2>2. /\ \A i : i \in B <=> i \in 1 .. N /\ Tells(lines[i], "cpu")
        /\ B \subseteq Nat
    BY <1>3
  <2>3. CpuOf(f) = IF A # {} THEN lines[Max(A)].value
                   ELSE IF B # {} THEN lines[Min(B)].value ELSE None
    BY <1>1 DEF CpuOf
  <2> HIDE DEF A, B
  <2>4. NoIndex(lines, N) => A = {}
    BY <2>1 DEF NoIndex
  <2>5. CASE fd.cpu = None /\ NoIndex(lines, N) /\ \A p \in 1 .. N : ~ Tells(lines[p], "cpu")
    <3>1. B = {}
      BY <2>2, <2>5
    <3> QED
      BY <2>3, <2>4, <2>5, <3>1
  <2>6. CASE \E p \in 1 .. N : /\ Tells(lines[p], "cpu-index") /\ fd.cpu = lines[p].value
                               /\ \A q \in 1 .. N : Tells(lines[q], "cpu-index") => q <= p
    <3>1. PICK p \in A : fd.cpu = lines[p].value /\ \A q \in A : q <= p
      BY <2>1, <2>6
    <3>2. Max(A) = p
      BY <2>1, <3>1, MaxIs
    <3> QED
      BY <2>3, <3>1, <3>2
  <2>7. CASE /\ NoIndex(lines, N)
             /\ \E p \in 1 .. N : /\ Tells(lines[p], "cpu") /\ fd.cpu = lines[p].value
                                  /\ \A q \in 1 .. N : Tells(lines[q], "cpu") => p <= q
    <3>1. PICK p \in B : fd.cpu = lines[p].value /\ \A q \in B : p <= q
      BY <2>2, <2>7
    <3>2. Min(B) = p
      BY <2>2, <3>1, MinIs
    <3> QED
      BY <2>3, <2>4, <2>7, <3>1, <3>2
  <2> QED
    BY <1>4, <2>5, <2>6, <2>7 DEF CpuSaid
<1>6. ASSUME NEW l \in LibrarySet
      PROVE  fd.utime[l] = TimeOf(f, l)
  <2> DEFINE R == {i \in Says(f, "result") : lines[i].library = l}
  <2>1. PICK v : v = fd.utime[l]
    OBVIOUS
  <2>2. TimeSaid(lines, N, l, v)
    BY <1>1, <2>1 DEF Knows
  <2>3. /\ \A i : i \in R <=> i \in 1 .. N /\ IsResult(lines[i], l)
        /\ R \subseteq Nat
    BY <1>3 DEF IsResult
  <2>4. TimeOf(f, l) = IF R = {} THEN None ELSE lines[Max(R)].value
    BY <1>1 DEF TimeOf
  <2> HIDE DEF R
  <2>5. CASE v = None /\ \A p \in 1 .. N : ~ IsResult(lines[p], l)
    <3>1. R = {}
      BY <2>3, <2>5
    <3> QED
      BY <2>1, <2>4, <2>5, <3>1
  <2>6. CASE \E p \in 1 .. N : /\ IsResult(lines[p], l) /\ v = lines[p].value
                               /\ \A q \in 1 .. N : IsResult(lines[q], l) => q <= p
    <3>1. PICK p \in R : v = lines[p].value /\ \A q \in R : q <= p
      BY <2>3, <2>6
    <3>2. Max(R) = p
      BY <2>3, <3>1, MaxIs
    <3> QED
      BY <2>1, <2>4, <3>1, <3>2
  <2> QED
    BY <2>2, <2>5, <2>6 DEF TimeSaid
<1> QED
  BY <1>5, <1>6

(* A line or column has a value to show when it is used.                   *)
LEMMA CellIsValue ==
  ASSUME Inv, phase = "done", NEW f \in DOMAIN input, NEW c \in DOMAIN Libraries
  PROVE  Cell(f, c) = Value(f, Libraries[c]) /\ filedata[f].cpu = CpuOf(f)
<1>1. IsRead(f) /\ input \in Inputs
  BY DEF IsRead, Inv, FilesInv
<1>2. Knows(input[f].lines, Len(input[f].lines), filedata[f])
  BY <1>1 DEF Inv, FilesInv
<1>3. filedata[f].cpu = CpuOf(f) /\ \A l \in LibrarySet : filedata[f].utime[l] = TimeOf(f, l)
  BY <1>1, <1>2, ReadIsSaid
<1>4. Libraries[c] \in LibrarySet /\ shown \in {"utime", "refratio"}
  BY LibrariesAre DEF Inv, PlaceInv
<1> QED
  BY <1>3, <1>4 DEF Cell, Value

(* The table has the row of each system with a value and the column of     *)
(* each library with one, in order, and each cell is where its row and its *)
(* column say: removing lines and columns while looping over them loses    *)
(* nothing and moves nothing under another name.                           *)
THEOREM TableShowsTheReports == Spec => []TableIsExact
<1>1. Inv => TableIsExact
  <2> DEFINE files == {f \in DOMAIN input : \E l \in LibrarySet : Value(f, l) # None}
             used == {l \in LibrarySet : \E f \in DOMAIN input : Value(f, l) # None}
             columns == {c \in DOMAIN Libraries : Libraries[c] \in used}
  <2> SUFFICES ASSUME Inv, phase = "done", files # {}
               PROVE  \E file \in [DOMAIN rows -> files], column \in [DOMAIN header -> DOMAIN Libraries] :
                        /\ Lists(file, files) /\ Lists(column, columns)
                        /\ \A c \in DOMAIN header : header[c] = Libraries[column[c]]
                        /\ \A r \in DOMAIN rows :
                             /\ rows[r].cpu = CpuOf(file[r]) /\ Len(rows[r].cells) = Len(header)
                             /\ \A c \in DOMAIN header : rows[r].cells[c] = Value(file[r], header[c])
    BY Zenon DEF TableIsExact
  <2>1. ASSUME NEW l \in LibrarySet
        PROVE  \E c \in DOMAIN Libraries : Libraries[c] = l
    BY DEF LibrarySet, ToSet
  <2>2. \A f \in DOMAIN input : f \in files <=> LineUsed(f)
    <3>1. ASSUME NEW f \in DOMAIN input, NEW l \in LibrarySet, Value(f, l) # None
          PROVE  LineUsed(f)
      BY <2>1, <3>1, CellIsValue DEF LineUsed
    <3>2. ASSUME NEW f \in DOMAIN input, NEW c \in DOMAIN Libraries, Cell(f, c) # None
          PROVE  \E l \in LibrarySet : Value(f, l) # None
      BY <3>2, CellIsValue, LibrariesAre
    <3> QED
      BY <3>1, <3>2 DEF LineUsed
  <2>3. \A c \in DOMAIN Libraries : c \in columns <=> ColumnUsed(c)
    <3>1. ASSUME NEW c \in DOMAIN Libraries, NEW f \in DOMAIN input
          PROVE  Cell(f, c) = Value(f, Libraries[c]) /\ Libraries[c] \in LibrarySet
      BY CellIsValue, LibrariesAre
    <3> QED
      BY <3>1, LibrariesAre DEF ColumnUsed
  <2> HIDE DEF files, used, columns
  <2>4. files \subseteq DOMAIN input /\ columns \subseteq DOMAIN Libraries
    BY DEF files, columns
  <2>5. PICK file, column :
          /\ Shows(file, column) /\ LinesUsed(file, Len(rows) + 1) /\ ColumnsUsed(column, Len(header) + 1)
    <3>1. \E f \in DOMAIN input : LineUsed(f)
      BY <2>2, <2>4
    <3> QED
      BY <3>1 DEF Inv, TableInv
  <2>6. /\ Len(rows) \in Nat /\ DOMAIN rows = 1 .. Len(rows)
        /\ Len(header) \in Nat /\ DOMAIN header = 1 .. Len(header)
    BY DEF Inv, TableInv
  <2>7. /\ file \in [1 .. Len(rows) -> DOMAIN input] /\ Increasing(file)
        /\ column \in [1 .. Len(header) -> DOMAIN Libraries] /\ Increasing(column)
    BY <2>5 DEF Shows
  <2>8. \A r \in 1 .. Len(rows) : file[r] \in files
    BY <2>2, <2>5, <2>6, <2>7 DEF LinesUsed
  <2>9. \A f \in files : \E r \in 1 .. Len(rows) : file[r] = f
    BY <2>2, <2>4, <2>5 DEF LinesUsed
  <2>10. \A c \in 1 .. Len(header) : column[c] \in columns
    BY <2>3, <2>5, <2>6, <2>7 DEF ColumnsUsed
  <2>11. \A c \in columns : \E k \in 1 .. Len(header) : column[k] = c
    BY <2>3, <2>4, <2>5 DEF ColumnsUsed
  <2>12. file \in [DOMAIN rows -> files] /\ Lists(file, files)
    BY <2>6, <2>7, <2>8, <2>9 DEF Lists, Increasing
  <2>13. column \in [DOMAIN header -> DOMAIN Libraries] /\ Lists(column, columns)
    BY <2>6, <2>7, <2>10, <2>11 DEF Lists, Increasing
  <2>14. \A c \in DOMAIN header : header[c] = Libraries[column[c]]
    BY <2>5, <2>6 DEF Shows
  <2>15. ASSUME NEW r \in DOMAIN rows
         PROVE  /\ rows[r].cpu = CpuOf(file[r]) /\ Len(rows[r].cells) = Len(header)
                /\ \A c \in DOMAIN header : rows[r].cells[c] = Value(file[r], header[c])
    <3>1. /\ rows[r].cpu = filedata[file[r]].cpu /\ Len(rows[r].cells) = Len(header)
          /\ \A c \in DOMAIN header : rows[r].cells[c] = Cell(file[r], column[c])
      BY <2>5, <2>6 DEF Shows
    <3>2. file[r] \in DOMAIN input
      BY <2>6, <2>7
    <3>3. \A c \in DOMAIN header : Cell(file[r], column[c]) = Value(file[r], header[c])
      BY <2>7, <2>6, <2>14, <3>2, CellIsValue
    <3>4. filedata[file[r]].cpu = CpuOf(file[r])
      <4>1. \E c \in DOMAIN Libraries : TRUE
        <5>1. LineUsed(file[r])
          BY <2>2, <2>6, <2>8, <3>2
        <5> QED
          BY <5>1, Zenon DEF LineUsed
      <4> QED
        BY <3>2, <4>1, CellIsValue
    <3> QED
      BY <3>1, <3>3, <3>4
  <2> QED
    BY <2>12, <2>13, <2>14, <2>15
<1> QED
  BY <1>1, Invariance, PTL
=============================================================================
