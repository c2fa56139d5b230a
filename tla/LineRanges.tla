---------------------------- MODULE LineRanges -----------------------------
(***************************************************************************)
(* How runAgentThread turns the sampled frame chosen for an experiment    *)
(* into the experiment's line and bytecode ranges, and how the handler    *)
(* then decides that a sample is "in the experiment" (profiler.cc,         *)
(* runAgentThread after GetLineNumberTable; Profiler::inExperiment).       *)
(*                                                                         *)
(* A line-number table is a sequence of entries [start, line]             *)
(* (jvmtiLineNumberEntry: start_location, line_number); entries[k] of the *)
(* code is entries[k+1] here.  The frame's `lineno` field holds a bytecode *)
(* index, as AsyncGetCallTrace fills it.  One step selects one target;    *)
(* current_experiment.lineno survives from one selection to the next.     *)
(* The experiment's CSV row names the class of the selected method as    *)
(* runExperiment writes it: GetClassSignature, then cleanSignature.       *)
(* Class names are in internal form (`/` between packages, `$` before a   *)
(* nested class) and are sequences of one-character strings.              *)
(***************************************************************************)
EXTENDS Integers, Sequences, FiniteSets, SequencesExt

CONSTANTS
    MaxBci,       \* MAX_BCI (65535 in the code)
    Lines,        \* source line numbers
    MaxEntries,   \* bound: entries of a line-number table
    NameChars,    \* characters of a class name in internal form
    MaxNameLen    \* bound: length of a class name

VARIABLES
    lineno,       \* current_experiment.lineno
    ranges,       \* current_experiment.location_ranges, as a set of pairs
    target,       \* the selected frame: its method's table and its bci
    cls,          \* the internal name of the selected method's class
    row           \* the row runExperiment appended: class text and line

vars == <<lineno, ranges, target, cls, row>>

Entry == [start : 0..MaxBci, line : Lines]

\* Tables as javac writes them: ordered by start, the first at bci 0.
SortedTables ==
    {tbl \in UNION {[1..n -> Entry] : n \in 1..MaxEntries} :
        /\ tbl[1].start = 0
        /\ \A i \in 1..Len(tbl) - 1 : tbl[i].start < tbl[i + 1].start}

ClassNames == UNION {[1..k -> NameChars] : k \in 1..MaxNameLen}
NoRow == [cls |-> <<>>, line |-> 0]

\* GetClassSignature of a class: `L<name>;`.
Signature(name) == <<"L">> \o name \o <<";">>

-----------------------------------------------------------------------------
(* Profiler::cleanSignature, in place on a NUL-terminated copy.            *)

\* The second loop of cleanSignature over positions i..n of the shifted
\* signature: '/' becomes '.', and the string ends at the first '$'.
RECURSIVE DotAndCut(_, _, _)
DotAndCut(s, i, n) ==
    IF i > n THEN s
    ELSE IF s[i] = "$" THEN SubSeq(s, 1, i - 1)
    ELSE DotAndCut(IF s[i] = "/" THEN [s EXCEPT ![i] = "."] ELSE s, i + 1, n)

\* Mutant: the second loop stops one position early.
CleanSignatureShort(sig) ==
    IF Len(sig) < 3 THEN sig
    ELSE LET shifted == SubSeq(sig, 2, Len(sig) - 1)
         IN  DotAndCut(shifted, 1, Len(shifted) - 1)

\* Signatures shorter than three characters are left alone; otherwise the
\* characters are shifted left by one, the last one (`;`) is cut by the
\* NUL at sig_len - 2, and the loop runs over the sig_len - 2 that remain.
CleanSignature(sig) ==
    IF Len(sig) < 3 THEN sig
    ELSE LET shifted == SubSeq(sig, 2, Len(sig) - 1)
         IN  DotAndCut(shifted, 1, Len(shifted))

-----------------------------------------------------------------------------
\* Mutant: the scan stops at an entry starting at or after the bci.
RECURSIVE FindLineAtOrAfter(_, _, _, _)
FindLineAtOrAfter(entries, bci, i, prev) ==
    IF i > Len(entries) THEN prev
    ELSE IF i = Len(entries) \/ entries[i + 1].start >= bci
         THEN entries[i].line
         ELSE FindLineAtOrAfter(entries, bci, i + 1, prev)

\* for (i = 1; i <= num_entries; i++)
\*   if (i == num_entries || entries[i].start_location > bci)
\*     { lineno = entries[i - 1].line_number; break; }
\* With no entries the loop body never runs and lineno keeps prev.
RECURSIVE FindLine(_, _, _, _)
FindLine(entries, bci, i, prev) ==
    IF i > Len(entries) THEN prev
    ELSE IF i = Len(entries) \/ entries[i + 1].start > bci
         THEN entries[i].line
         ELSE FindLine(entries, bci, i + 1, prev)

\* Every entry of the line contributes [its start, the next start), the
\* last entry [its start, MAX_BCI + 1).
LocationRanges(entries, line) ==
    { <<entries[i].start,
        IF i < Len(entries) THEN entries[i + 1].start ELSE MaxBci + 1>> :
      i \in {k \in 1..Len(entries) : entries[k].line = line} }

\* Profiler::inExperiment for a frame of the selected method.
InExperiment(bci) == \E r \in ranges : r[1] <= bci /\ bci < r[2]

-----------------------------------------------------------------------------
\* current_experiment is a zero-initialised static.
Init ==
    /\ lineno = 0
    /\ ranges = {}
    /\ target = [table |-> <<>>, bci |-> 0]
    /\ cls = <<>>
    /\ row = NoRow

\* A frame of a method whose table GetLineNumberTable returned is chosen
\* (once the previous experiment is over).
SelectTarget(tbl, bci) ==
    /\ row = NoRow
    /\ lineno' = FindLine(tbl, bci, 1, lineno)
    /\ ranges' = LocationRanges(tbl, lineno')
    /\ target' = [table |-> tbl, bci |-> bci]
    /\ UNCHANGED <<cls, row>>

\* runExperiment after a completed experiment: the signature of the
\* class declaring the method (getClassFromMethodIDLocation; a failed
\* lookup writes nothing and is a stutter here), cleanSignature, and the
\* row "<class>:<line>,...".
Record(name) ==
    /\ target.table # <<>> /\ row = NoRow
    /\ cls' = name
    /\ row' = [cls |-> CleanSignature(Signature(name)), line |-> lineno]
    /\ UNCHANGED <<lineno, ranges, target>>

\* The agent loop goes on to its next round.
NextRound ==
    /\ row # NoRow
    /\ row' = NoRow
    /\ UNCHANGED <<lineno, ranges, target, cls>>

Next ==
    \/ \E tbl \in SortedTables, bci \in 0..MaxBci : SelectTarget(tbl, bci)
    \/ \E name \in ClassNames : Record(name)
    \/ NextRound

Spec == Init /\ [][Next]_vars

-----------------------------------------------------------------------------
TypeOK ==
    /\ lineno \in Lines \cup {0}
    /\ ranges \subseteq (0..MaxBci) \X (1..MaxBci + 1)

\* The line of a bci: the line of the last entry starting at or before it.
RefLine(tbl, bci) ==
    LET k == CHOOSE k \in 1..Len(tbl) :
               tbl[k].start <= bci
               /\ \A j \in 1..Len(tbl) : tbl[j].start <= bci => j <= k
    IN  tbl[k].line

\* A sample of the selected method is counted as in the experiment (and so
\* delayed or delaying) exactly when its bci lies on the same source line
\* as the frame that was selected, across every entry of that line.
SamplesChargedOnSelectedLine ==
    target.table # <<>> =>
        /\ lineno = RefLine(target.table, target.bci)
        /\ \A b \in 0..MaxBci :
              InExperiment(b) <=> RefLine(target.table, b) = lineno

\* The class a row is charged to: the top-level class of the selected
\* method in dotted form, a nested class's samples going to the class
\* that encloses it.
OuterDottedName(name) ==
    LET cut == SelectInSeq(name, LAMBDA c : c = "$")
        outer == IF cut = 0 THEN name ELSE SubSeq(name, 1, cut - 1)
    IN  ReplaceAll(outer, "/", ".")

\* Every row runExperiment writes names the source line that was selected
\* and the dotted top-level class of the selected method, for every class
\* name: cleanSignature's shift, its cut of the `;` and its loop bound
\* leave no marker, separator or nested-class suffix behind.
RowNamesSelectedClassAndLine ==
    row # NoRow =>
        /\ row.cls = OuterDottedName(cls)
        /\ row.line = RefLine(target.table, target.bci)
=============================================================================
