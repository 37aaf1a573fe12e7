------------------------------ MODULE Reports ------------------------------
(***************************************************************************)
(* tools/analyze-reports.py: the report files of several systems are read  *)
(* line by line, compared with a reference system when frequencies are     *)
(* known, then shown in tables with a row per system and a column per      *)
(* library; the empty rows and columns are removed.                        *)
(*                                                                         *)
(* One operation of one algorithm is modelled, the others are alike.       *)
(* Times are integers, a ratio is a pair <<numerator, denominator>>.       *)
(***************************************************************************)
EXTENDS Integers, Sequences, SequencesExt

CONSTANTS
  Inputs,      (* Sequences of report files: [isRef, lines]; isRef when    *)
               (* the name of the file contains "neoverse-v1".             *)
  Libraries,   (* Sequence: lib_names.                                     *)
  None         (* A missing value, an empty string.                        *)

LibrarySet == ToSet(Libraries)

(* What a line of a report tells, as far as the tables go.                 *)
IsLine(line) ==
  /\ line.item \in {"cpu", "cpu-index"} => line.value \in STRING \cup {None}
  /\ line.item = "frequency" => line.value \in Nat \cup {None}
  /\ line.item = "result" => line.library \in LibrarySet /\ line.value \in Nat
IsReport(report) ==
  /\ report.isRef \in BOOLEAN /\ report.lines \in Seq(ToSet(report.lines))
  /\ \A n \in DOMAIN report.lines : IsLine(report.lines[n])

(* The names of libraries are the keys of a dictionary; without a report   *)
(* file the script only tells how to use it.                               *)
ASSUME ReportsAssumption ==
  /\ Libraries \in Seq(LibrarySet) /\ IsInjective(Libraries)
  /\ \A reports \in Inputs :
       /\ reports # <<>> /\ reports \in Seq(ToSet(reports))
       /\ \A f \in DOMAIN reports : IsReport(reports[f])
  /\ None \notin Nat \cup Nat \X Nat

VARIABLES
  input,    (* The report files.                                           *)
  phase,    (* "read", "merge", "fill", "lines", "columns" or "done".      *)
  at,       (* File, row or column which the current loop is at.           *)
  filedata, (* What is known of each file: [cpu, frequency, utime,         *)
            (* refratio], the last two by library.                         *)
  shown,    (* The table being built: "utime" or "refratio".               *)
  header,   (* Its columns.                                                *)
  rows      (* Its rows: [cpu, cells], a cell for each column.             *)

vars == <<input, phase, at, filedata, shown, header, rows>>

NoData ==
  [cpu |-> None, frequency |-> 0,
   utime |-> [l \in LibrarySet |-> None], refratio |-> [l \in LibrarySet |-> None]]

Init ==
  /\ input \in Inputs
  /\ phase = "read" /\ at = 1
  /\ filedata = [f \in DOMAIN input |-> NoData]
  /\ shown = None /\ header = <<>> /\ rows = <<>>

(* Mutant of read_line: the first name of the CPU is kept. *)
read_line_first(fd, line) ==
  CASE line.item \in {"cpu", "cpu-index"} /\ line.value # None /\ fd.cpu = None ->
         [fd EXCEPT !.cpu = line.value]
    [] line.item = "frequency" /\ line.value # None -> [fd EXCEPT !.frequency = line.value]
    [] line.item = "result" -> [fd EXCEPT !.utime[line.library] = line.value]
    [] OTHER -> fd

(* The body of the loop of read_file(), for a system line or a result. *)
read_line(fd, line) ==
  CASE line.item = "cpu" /\ line.value # None /\ fd.cpu = None ->
         [fd EXCEPT !.cpu = line.value]
    [] line.item = "cpu-index" /\ line.value # None -> [fd EXCEPT !.cpu = line.value]
    [] line.item = "frequency" /\ line.value # None -> [fd EXCEPT !.frequency = line.value]
    [] line.item = "result" -> [fd EXCEPT !.utime[line.library] = line.value]
    [] OTHER -> fd

(* The loop, over all the lines.                                           *)
read_lines(fd, lines) ==
  LET read[n \in 0 .. Len(lines)] ==
        IF n = 0 THEN fd ELSE read_line(read[n - 1], lines[n])
  IN  read[Len(lines)]

ReadFile ==
  /\ phase = "read"
  /\ filedata' = [filedata EXCEPT ![at] = read_lines(@, input[at].lines)]
  /\ IF at < Len(input) THEN at' = at + 1 /\ UNCHANGED phase
                        ELSE at' = 1 /\ phase' = "merge"
  /\ UNCHANGED <<input, shown, header, rows>>

-----------------------------------------------------------------------------
(* Mutant of RefFiles: the frequency may be unknown. *)
RefFilesAny == {f \in DOMAIN input : input[f].isRef}

(* The first file of the reference machine which tells its frequency. *)
RefFiles == {f \in DOMAIN input : input[f].isRef /\ filedata[f].frequency > 0}
refsystem == filedata[Min(RefFiles)]

(* merge_reference(), at the leaves of both dictionaries. *)
RefRatio(ref, data, l) ==
  IF ref.utime[l] = None \/ data.utime[l] = None THEN None
  ELSE IF ref.utime[l] = 0 THEN <<0, 1>>
       ELSE <<data.utime[l] * ref.frequency, ref.utime[l] * data.frequency>>

MergeReference ==
  /\ phase = "merge"
  /\ filedata' =
       IF RefFiles # {} /\ filedata[at].frequency > 0
         THEN [filedata EXCEPT ![at].refratio =
                 [l \in LibrarySet |-> RefRatio(refsystem, filedata[at], l)]]
         ELSE filedata
  /\ IF at < Len(input) THEN at' = at + 1 /\ UNCHANGED phase
                        ELSE at' = 1 /\ phase' = "fill"
  /\ UNCHANGED <<input, shown, header, rows>>

-----------------------------------------------------------------------------
(* table.fill_data(), for one index: add_line(), then set_data() for each  *)
(* library which has a value.                                              *)
FillData ==
  /\ phase = "fill"
  /\ \E index \in {"utime", "refratio"} :
       /\ shown' = index
       /\ rows' = [f \in DOMAIN input |->
                     [cpu |-> filedata[f].cpu,
                      cells |-> [c \in DOMAIN Libraries |-> filedata[f][index][Libraries[c]]]]]
       \* Nothing is printed of an empty table, but of the times of the
       \* reference test.
       /\ LET empty == \A f \in DOMAIN input, l \in LibrarySet : filedata[f][index][l] = None
          IN  \/ (empty => index = "utime") /\ phase' = "lines"
              \/ empty /\ phase' = "done"
  /\ header' = Libraries
  /\ at' = 1
  /\ UNCHANGED <<input, filedata>>

(* Mutant of AfterLine: the loop does not advance after a kept line. *)
AfterLineSame(r) == r

(* Where the first loop goes on after it kept a line. *)
AfterLine(r) == r + 1

(* table.to_markdown(), first loop: remove the empty lines. *)
RemoveLine ==
  /\ phase = "lines" /\ at <= Len(rows)
  /\ IF \A c \in DOMAIN header : rows[at].cells[c] = None
       THEN rows' = RemoveAt(rows, at) /\ at' = at
       ELSE at' = AfterLine(at) /\ UNCHANGED rows
  /\ UNCHANGED <<input, phase, filedata, shown, header>>

EndLines ==
  /\ phase = "lines" /\ at > Len(rows)
  /\ phase' = "columns" /\ at' = 1
  /\ UNCHANGED <<input, filedata, shown, header, rows>>

(* Mutant of WithoutColumn: the first row keeps its cell. *)
WithoutColumnSome(c) ==
  [r \in DOMAIN rows |-> IF r = 1 THEN rows[r] ELSE [rows[r] EXCEPT !.cells = RemoveAt(@, c)]]

WithoutColumn(c) == [r \in DOMAIN rows |-> [rows[r] EXCEPT !.cells = RemoveAt(@, c)]]

(* Mutant of AfterRemoval: the column which follows is skipped. *)
AfterRemovalNext(c) == c + 1

(* Where the second loop goes on after it removed a column. *)
AfterRemoval(c) == c

(* Second loop: remove the empty columns. *)
RemoveColumn ==
  /\ phase = "columns" /\ at <= Len(header)
  /\ IF \A r \in DOMAIN rows : rows[r].cells[at] = None
       THEN rows' = WithoutColumn(at) /\ header' = RemoveAt(header, at) /\ at' = AfterRemoval(at)
       ELSE at' = at + 1 /\ UNCHANGED <<header, rows>>
  /\ UNCHANGED <<input, phase, filedata, shown>>

EndColumns ==
  /\ phase = "columns" /\ at > Len(header)
  /\ phase' = "done"
  /\ UNCHANGED <<input, at, filedata, shown, header, rows>>

Next == ReadFile \/ MergeReference \/ FillData \/ RemoveLine \/ EndLines \/ RemoveColumn \/ EndColumns

Spec == Init /\ [][Next]_vars /\ WF_vars(Next)

-----------------------------------------------------------------------------
Times == {None} \cup Nat
Ratios == {None} \cup (Nat \X Nat)

TypeOK ==
  /\ phase \in {"read", "merge", "fill", "lines", "columns", "done"}
  /\ at \in 1 .. Len(input) + Len(Libraries) + 1
  /\ \A f \in DOMAIN input :
       /\ filedata[f].frequency \in Nat
       /\ \A l \in LibrarySet : filedata[f].utime[l] \in Times /\ filedata[f].refratio[l] \in Ratios
  /\ shown \in {None, "utime", "refratio"}
  /\ \A r \in DOMAIN rows : Len(rows[r].cells) = Len(header)

(* What a file says, of its lines as a whole. *)
Says(f, item) == {i \in DOMAIN input[f].lines :
                    input[f].lines[i].item = item /\ input[f].lines[i].value # None}
CpuOf(f) ==
  IF Says(f, "cpu-index") # {} THEN input[f].lines[Max(Says(f, "cpu-index"))].value
  ELSE IF Says(f, "cpu") # {} THEN input[f].lines[Min(Says(f, "cpu"))].value ELSE None
TimeOf(f, l) ==
  LET results == {i \in Says(f, "result") : input[f].lines[i].library = l}
  IN  IF results = {} THEN None ELSE input[f].lines[Max(results)].value

(* What a cell of the table is to show.                                    *)
Value(f, l) == IF shown = "utime" THEN TimeOf(f, l) ELSE filedata[f].refratio[l]

(* The numbers of the set S, in increasing order.                          *)
Lists(numbers, S) ==
  /\ \A i, j \in DOMAIN numbers : i < j => numbers[i] < numbers[j]
  /\ S = {numbers[i] : i \in DOMAIN numbers}

(* A table has one row for each system with a value and one column for     *)
(* each library with a value, in their order.  A row is named as its file  *)
(* says, wherever the line cpu-index was added; a cell has the last time   *)
(* of the system of its row with the library of its column, or its ratio:  *)
(* nothing moves to another column when empty ones are removed             *)
(* (analyze-reports.py:258-404).                                           *)
TableIsExact ==
  LET files == {f \in DOMAIN input : \E l \in LibrarySet : Value(f, l) # None}
      used == {l \in LibrarySet : \E f \in DOMAIN input : Value(f, l) # None}
  IN  phase = "done" /\ files # {} =>
        \E file \in [DOMAIN rows -> files], column \in [DOMAIN header -> DOMAIN Libraries] :
          /\ Lists(file, files)
          /\ Lists(column, {c \in DOMAIN Libraries : Libraries[c] \in used})
          /\ \A c \in DOMAIN header : header[c] = Libraries[column[c]]
          /\ \A r \in DOMAIN rows :
               /\ rows[r].cpu = CpuOf(file[r]) /\ Len(rows[r].cells) = Len(header)
               /\ \A c \in DOMAIN header : rows[r].cells[c] = Value(file[r], header[c])

(* When there are ratios, those of a system of reference are 1, but for a  *)
(* time of zero, and there is none for a system which does not tell its    *)
(* frequency (analyze-reports.py:285-294, 428-439).                        *)
RatiosToReference ==
  LET RatiosOf(f) == {filedata[f].refratio[l] : l \in LibrarySet} \ {None}
      compared == {f \in DOMAIN input : RatiosOf(f) # {}}
  IN  phase = "done" /\ compared # {} =>
        /\ \A f \in compared : filedata[f].frequency > 0 /\ \A r \in RatiosOf(f) : r[2] > 0
        /\ \E f \in compared : input[f].isRef /\ \A r \in RatiosOf(f) : r[1] = r[2] \/ r = <<0, 1>>

(* What is left to do: the phases after this one, and in a loop the files, *)
(* the rows or the columns which it did not pass.                          *)
Remaining ==
  CASE phase = "read"    -> <<5, Len(input) - at>>
    [] phase = "merge"   -> <<4, Len(input) - at>>
    [] phase = "fill"    -> <<3, 0>>
    [] phase = "lines"   -> <<2, Len(rows) + 1 - at>>
    [] phase = "columns" -> <<1, Len(header) + 1 - at>>
    [] phase = "done"    -> <<0, 0>>

(* Every turn of a loop passes one thing or removes it, never both and     *)
(* never none, although the tables are as long as what is left of them     *)
(* (analyze-reports.py:365-392): the loops end, and none of them is left   *)
(* at a place which the table does not have.                               *)
NoStepInVain ==
  [][/\ Remaining'[1] \in Nat /\ Remaining'[2] \in Nat
     /\ \/ Remaining'[1] < Remaining[1]
        \/ Remaining'[1] = Remaining[1] /\ Remaining'[2] = Remaining[2] - 1]_vars

(* The loops over a table which shrinks end: the page is printed.          *)
Finishes == <>(phase = "done")

=============================================================================
