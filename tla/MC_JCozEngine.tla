--------------------------- MODULE MC_JCozEngine ---------------------------
(* Model values and symmetry for checking JCozEngine with TLC. *)
EXTENDS JCozRefinement, TLC

CONSTANTS t1, t2, m1, m2

MCThreads == {t1, t2}
MCOneThread == {t1}
MCInScope == {m1, m2}
MCResolvable == {m1}

ThreadSymmetry == Permutations(MCThreads)

\* The state without the history variables.  No guard and no assignment to
\* a program variable reads a history variable, so two states that differ
\* only in them have the same futures of the program variables: a run whose
\* properties mention no history variable may identify them.
ProgramState == <<agentVars, threadVars, spc>>
=============================================================================
