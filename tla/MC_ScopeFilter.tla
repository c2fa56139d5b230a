--------------------------- MODULE MC_ScopeFilter ---------------------------
(* The option lists that follow the two scope options in the checked      *)
(* option strings.  "p" is progress_point, "e" end_to_end, "q" a name no  *)
(* option has, "f" fix_exp, "w" warmup, "o" output_file and "l"          *)
(* logging_level.                                                          *)
EXTENDS ScopeFilter

\* A well-formed progress point, one without ':', one with no class, one
\* with no line, one at line -1, end-to-end mode with every other option
\* (fixed length, a warmup, an output file, a logging level), an unknown
\* option, no further option, and a warmup with no number.
MCTails ==
    { <<"_", "p", "=", "L", "a", ":", "1">>,
      <<"_", "p", "=", "L", "a">>,
      <<"_", "p", "=", ":", "1">>,
      <<"_", "p", "=", "L", "a", ":">>,
      <<"_", "p", "=", "L", "a", ":", "-", "1">>,
      <<"_", "e", "_", "f", "_", "w", "=", "1", "_", "o", "=", "a", "_", "l", "=", "a">>,
      <<"_", "q">>,
      <<>>,
      <<"_", "e", "_", "w", "=">> }

\* A progress class written with '.' as package separator, as the scope
\* options accept it.
MCDottedTails == { <<"_", "p", "=", "L", "a", ".", "a", ":", "1">> }
=============================================================================
