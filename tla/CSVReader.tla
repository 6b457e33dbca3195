------------------------------- MODULE CSVReader -------------------------------
(***************************************************************************)
(* Reading an autonomous program from a file (CSVReader.java,              *)
(* readIntCSV): one reader counts the lines, another fills as many rows.   *)
(* A line is empty, a row of numbers, or a row with something that is no   *)
(* number.  No call is left in the program but as a comment                *)
(* (Autonomous.java:263).                                                  *)
(***************************************************************************)
EXTENDS Naturals, Sequences, FiniteSets

CONSTANT MaxLines   \* of a file

ASSUME MaxLinesAssumption == MaxLines \in Nat

VARIABLES
  lines,     \* the file
  reading,   \* "height", "rows", or how it ended: "returned", "error"
  nextLine,  \* the line that is read next
  height,
  currentAuto

csvVars == <<lines, reading, nextLine, height, currentAuto>>

Line == {"", "row", "word"}

CsvInit ==
  /\ lines \in UNION {[1 .. n -> Line] : n \in 0 .. MaxLines}
  /\ reading = "height" /\ nextLine = 1 /\ height = 0 /\ currentAuto = <<>>

\* The first line is read by the outer loop and counted as a row, whatever it holds;
\* the inner loop reads the rest.
CountLines ==
  /\ reading = "height"
  /\ height' = 1 + Cardinality({n \in 2 .. Len(lines) : lines[n] # ""})
  /\ reading' = "rows"
  /\ UNCHANGED <<lines, nextLine, currentAuto>>

AtRow == nextLine <= Len(lines) /\ lines[nextLine] # ""

\* An empty line, and one behind the end of the file, leaves i as it is.
SkipLine ==
  /\ reading = "rows" /\ Len(currentAuto) < height
  /\ ~AtRow
  /\ nextLine' = IF nextLine > Len(lines) THEN nextLine ELSE nextLine + 1
  /\ UNCHANGED <<lines, reading, height, currentAuto>>

FillRow ==
  /\ reading = "rows" /\ Len(currentAuto) < height
  /\ AtRow
  /\ currentAuto' = Append(currentAuto, nextLine)
  /\ reading' = IF lines[nextLine] = "word" THEN "error" ELSE "rows"
  /\ nextLine' = nextLine + 1
  /\ UNCHANGED <<lines, height>>

Return ==
  /\ reading = "rows" /\ Len(currentAuto) = height
  /\ reading' = "returned"
  /\ UNCHANGED <<lines, nextLine, height, currentAuto>>

CsvNext == CountLines \/ SkipLine \/ FillRow \/ Return
-------------------------------------------------------------------------------
\* What is returned are the rows of the file, each once and in order; and the second
\* reader runs behind the end of the file, for ever, only if there was no first row.
CsvSound ==
  /\ reading = "returned" =>
       /\ \A n \in 1 .. Len(lines) : lines[n] # "" <=> \E i \in 1 .. height : currentAuto[i] = n
       /\ \A i, j \in 1 .. height : i < j => currentAuto[i] < currentAuto[j]
  /\ reading = "rows" /\ nextLine > Len(lines) /\ Len(currentAuto) < height =>
       lines = <<>> \/ lines[1] = ""
================================================================================
