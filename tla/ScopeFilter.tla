---------------------------- MODULE ScopeFilter ----------------------------
(***************************************************************************)
(* The configuration of the JCoz agent and the class-scope filter: how    *)
(* the agent's option string becomes the scope lists, the progress class  *)
(* and line, the end-to-end and fixed-length flags, the warmup and the   *)
(* output file (Profiler::ParseOptions, prepare_scope), which             *)
(* configurations it accepts, and how a                                  *)
(* class signature is classified when its class is prepared: the scope    *)
(* test (entry.cc is_class_fqn_prefix, contains_class_fqn_prefix,          *)
(* is_in_allowed_scope) and the two-stage progress-class test of          *)
(* CreateJMethodIDsForClass.                                               *)
(*                                                                         *)
(* Strings are sequences of one-character strings.  The option values    *)
(* and class names range over short strings of small alphabets; a class  *)
(* signature is the JVM form "L" \o name \o ";".  agent_args::report_error *)
(* reports and ends the process (spec 7 (a)); so does an exception thrown  *)
(* by std::stoi or std::stol, which nothing catches.  The logging level   *)
(* only configures the logger and is abstracted away.                     *)
(***************************************************************************)
EXTENDS Integers, Sequences, SequencesExt

CONSTANTS
    OptionChars,    \* characters of an option value, "|" included
    NameChars,      \* characters of a class name in internal form
    MaxValueLen,    \* bound: length of the search_scopes option value
    MaxIgnoredLen,  \* bound: length of the ignored_scopes option value
    MaxNameLen,     \* bound: length of a class name
    OptionTails     \* option strings following the two scope options

VARIABLES
    phase,          \* "options" (before ParseOptions), "running", "exited"
    searchScopes,   \* Profiler::search_scopes
    ignoredScopes,  \* Profiler::ignored_scopes
    progressClass,  \* Profiler::progress_class
    progressLine,   \* progress_point->lineno
    endToEnd,       \* Profiler::end_to_end
    fixExp,         \* Profiler::fix_exp
    warmupTime,     \* Profiler::warmup_time, in microseconds
    outputFile,     \* kOutputFile
    headerFile,     \* the file the CSV header line was appended to
    verdict         \* the last class classified: its name and both results

vars == <<phase, searchScopes, ignoredScopes, progressClass, progressLine,
          endToEnd, fixExp, warmupTime, outputFile, headerFile, verdict>>

OptionValues(n) == UNION {[1..k -> OptionChars] : k \in 0..n}
ClassNames == UNION {[1..k -> NameChars] : k \in 1..MaxNameLen}

\* The JVM signature of a class: `L<name>;`.
Signature(name) == <<"L">> \o name \o <<";">>

-----------------------------------------------------------------------------
(* C library and std::string operations, by what they compute.            *)

\* strstr(hay, needle): the 1-based position of the first occurrence of
\* needle in hay, 0 for NULL.  An empty needle occurs at position 1.
StrStr(hay, needle) ==
    LET at == {i \in 1..(Len(hay) - Len(needle) + 1) :
                 SubSeq(hay, i, i + Len(needle) - 1) = needle}
    IN  IF at = {} THEN 0 ELSE Min(at)

\* std::getline(stream, item, d) repeated until it fails: the fields between
\* delimiters, where a final empty field (value empty or ending in d) is not
\* produced.
RECURSIVE GetlineSplit(_, _)
GetlineSplit(s, d) ==
    IF s = <<>> THEN <<>>
    ELSE LET k == SelectInSeq(s, LAMBDA c : c = d)
         IN  IF k = 0 THEN <<s>>
             ELSE <<SubSeq(s, 1, k - 1)>> \o GetlineSplit(SubSeq(s, k + 1, Len(s)), d)

\* Profiler::prepare_scope: std::replace of '.' by '/'.
PrepareScope(scope) == ReplaceAll(scope, ".", "/")

\* The scopes pushed by one search_scopes= or ignored_scopes= option.
ParseScopes(value) ==
    LET items == GetlineSplit(value, "|")
    IN  [i \in 1..Len(items) |-> PrepareScope(items[i])]

\* agent_args::from_string (args.h, outside this repository): the option
\* names, abbreviated to one letter here; any other text is _unknown.
FromString(option) ==
    CASE option = <<"s">> -> "search_scopes"
      [] option = <<"i">> -> "ignored_scopes"
      [] option = <<"p">> -> "progress_point"
      [] option = <<"e">> -> "end_to_end"
      [] option = <<"l">> -> "logging_level"
      [] option = <<"o">> -> "output_file"
      [] option = <<"w">> -> "warmup"
      [] option = <<"f">> -> "fix_exp"
      [] OTHER            -> "unknown"

Digit == [d \in {"0", "1", "2"} |-> CASE d = "0" -> 0 [] d = "1" -> 1 [] d = "2" -> 2]

\* The leading digits of s from position i, as a number.
RECURSIVE DigitsFrom(_, _, _)
DigitsFrom(s, i, acc) ==
    IF i > Len(s) \/ s[i] \notin DOMAIN Digit THEN acc
    ELSE DigitsFrom(s, i + 1, 10 * acc + Digit[s[i]])

\* std::stoi and std::stol: an optional sign, then at least one digit (parsing stops at
\* the first character that is not one); no digit throws
\* std::invalid_argument.
Stoi(s) ==
    LET signed == s # <<>> /\ s[1] \in {"-", "+"}
        start  == IF signed THEN 2 ELSE 1
        ok     == start <= Len(s) /\ s[start] \in DOMAIN Digit
        mag    == DigitsFrom(s, start, 0)
    IN  [ok |-> ok, val |-> IF signed /\ s[1] = "-" THEN -mag ELSE mag]

\* case _progress_point: class before the first ':', line after it.
ParseProgressPoint(cfg, value) ==
    LET colon == SelectInSeq(value, LAMBDA c : c = ":")
        line  == Stoi(SubSeq(value, colon + 1, Len(value)))
    IN  IF colon = 0 \/ ~line.ok
          THEN [cfg EXCEPT !.failed = TRUE]
          ELSE [cfg EXCEPT !.pclass = SubSeq(value, 1, colon - 1),
                           !.pline = line.val]

\* case _warmup: milliseconds, std::stol(value) * 1000 microseconds.  The
\* product is stored in an unsigned long; sleep_for converts it back to a
\* signed count, so the value kept here is the signed product.
ParseWarmup(cfg, value) ==
    LET n == Stoi(value)
    IN  IF n.ok THEN [cfg EXCEPT !.warmup = n.val * 1000]
                ELSE [cfg EXCEPT !.failed = TRUE]

\* One iteration of the option loop: split at the first '=' (with no '='
\* find returns npos, npos + 1 wraps to 0, and the value is the whole
\* item), then the switch on the option name.
ParseItem(cfg, item) ==
    LET eq     == SelectInSeq(item, LAMBDA c : c = "=")
        option == IF eq = 0 THEN item ELSE SubSeq(item, 1, eq - 1)
        value  == IF eq = 0 THEN item ELSE SubSeq(item, eq + 1, Len(item))
        kind   == FromString(option)
    IN  CASE kind = "unknown"        -> [cfg EXCEPT !.failed = TRUE]
          [] kind = "search_scopes"  -> [cfg EXCEPT !.search = @ \o ParseScopes(value)]
          [] kind = "ignored_scopes" -> [cfg EXCEPT !.ignored = @ \o ParseScopes(value)]
          [] kind = "progress_point" -> ParseProgressPoint(cfg, value)
          [] kind = "end_to_end"     -> [cfg EXCEPT !.e2e = TRUE]
          [] kind = "logging_level"  -> cfg
          [] kind = "output_file"    -> [cfg EXCEPT !.out = value, !.outSet = TRUE]
          [] kind = "warmup"         -> ParseWarmup(cfg, value)
          [] kind = "fix_exp"        -> [cfg EXCEPT !.fix = TRUE]

\* The loop over the '_'-separated items, up to the first report_error.
RECURSIVE ParseItems(_, _)
ParseItems(items, cfg) ==
    IF items = <<>> \/ cfg.failed THEN cfg
    ELSE ParseItems(Tail(items), ParseItem(cfg, Head(items)))

-----------------------------------------------------------------------------
(* entry.cc: the class-scope predicates.                                   *)

\* Mutant: the scope may occur anywhere in the signature.
IsClassFqnPrefixAnywhere(prefix, sig) == StrStr(sig, prefix) # 0

\* strstr(class_sig, prefix) == class_sig + 1
IsClassFqnPrefix(prefix, sig) == StrStr(sig, prefix) = 2

\* std::find_if over the scope vector
ContainsClassFqnPrefix(elements, sig) ==
    \E i \in 1..Len(elements) : IsClassFqnPrefix(elements[i], sig)

IsInAllowedScope(sig) ==
    /\ ~ContainsClassFqnPrefix(ignoredScopes, sig)
    /\ ContainsClassFqnPrefix(searchScopes, sig)

\* CreateJMethodIDsForClass: strstr(klass_sig, progress_class) == klass_sig,
\* then the last character (`;`) is cut and the rest compared.
IsProgressClass(pclass, sig) ==
    /\ StrStr(sig, pclass) = 1
    /\ SubSeq(sig, 1, Len(sig) - 1) = pclass

-----------------------------------------------------------------------------
\* Agent_OnLoad: Profiler::init has set lineno = -1.
Init ==
    /\ phase = "options"
    /\ searchScopes = <<>>
    /\ ignoredScopes = <<>>
    /\ progressClass = <<>>
    /\ progressLine = -1
    /\ endToEnd = FALSE
    /\ fixExp = FALSE
    /\ warmupTime = 0
    /\ outputFile = <<>>
    /\ headerFile = <<>>
    /\ verdict = [name |-> <<>>, allowed |-> FALSE, progress |-> FALSE]

\* The option string the agent is given: search_scopes= and
\* ignored_scopes= options, then one of the other option lists.
Args(searchValue, ignoredValue, tail) ==
    <<"s", "=">> \o searchValue \o <<"_", "i", "=">> \o ignoredValue \o tail

\* The check that ends ParseOptions: no search scope, or (outside
\* end-to-end mode) no progress class or no line, is reported.
MissingRequired(cfg) ==
    \/ cfg.search = <<>>
    \/ ~cfg.e2e /\ (cfg.pclass = <<>> \/ cfg.pline = -1)

\* The output file when no output_file option is given.
DefaultOutputFile == <<"jcoz-output.csv">>

\* Profiler::ParseOptions, called from Agent_OnLoad: split at '_', parse
\* every item (a report_error in the loop ends the agent there); then the
\* default output file, the CSV header appended to the output file, and
\* last the check of the required options.
ParseOptions(args) ==
    LET cfg == ParseItems(GetlineSplit(args, "_"),
                          [search |-> searchScopes, ignored |-> ignoredScopes,
                           pclass |-> progressClass, pline |-> progressLine,
                           e2e |-> endToEnd, fix |-> fixExp,
                           warmup |-> warmupTime, out |-> outputFile,
                           outSet |-> FALSE, failed |-> FALSE])
        file == IF cfg.outSet THEN cfg.out ELSE DefaultOutputFile
    IN  /\ phase = "options"
        /\ searchScopes' = cfg.search
        /\ ignoredScopes' = cfg.ignored
        /\ progressClass' = cfg.pclass
        /\ progressLine' = cfg.pline
        /\ endToEnd' = cfg.e2e
        /\ fixExp' = cfg.fix
        /\ warmupTime' = cfg.warmup
        /\ outputFile' = IF cfg.failed THEN cfg.out ELSE file
        /\ headerFile' = IF cfg.failed THEN <<>> ELSE file
        /\ phase' = IF cfg.failed \/ MissingRequired(cfg) THEN "exited" ELSE "running"
        /\ UNCHANGED verdict

\* A class is prepared (CreateJMethodIDsForClass): the scope test and the
\* progress-class test of its signature.
ClassifyClass(name) ==
    /\ phase = "running"
    /\ verdict' = [name |-> name,
                   allowed |-> IsInAllowedScope(Signature(name)),
                   progress |-> IsProgressClass(progressClass, Signature(name))]
    /\ UNCHANGED <<phase, searchScopes, ignoredScopes, progressClass,
                   progressLine, endToEnd, fixExp, warmupTime, outputFile,
                   headerFile>>

\* (The option strings are enumerated only while options are unparsed.)
Next ==
    \/ /\ phase = "options"
       /\ \E sv \in OptionValues(MaxValueLen), iv \in OptionValues(MaxIgnoredLen),
            tail \in OptionTails :
            ParseOptions(Args(sv, iv, tail))
    \/ \E n \in ClassNames : ClassifyClass(n)

Spec == Init /\ [][Next]_vars

-----------------------------------------------------------------------------
TypeOK ==
    /\ phase \in {"options", "running", "exited"}
    /\ searchScopes \in Seq(Seq(OptionChars \cup {"/"}))
    /\ ignoredScopes \in Seq(Seq(OptionChars \cup {"/"}))
    /\ progressLine \in Int /\ endToEnd \in BOOLEAN /\ fixExp \in BOOLEAN
    /\ warmupTime \in Int
    /\ verdict.allowed \in BOOLEAN /\ verdict.progress \in BOOLEAN

\* The reference of the design: a class is in scope iff its name (the
\* signature without the marker and the `;`) starts with a search scope and
\* with no ignored scope.
RefHasPrefix(scopes, name) == \E i \in 1..Len(scopes) : IsPrefix(scopes[i], name)
RefInScope(name) ==
    ~RefHasPrefix(ignoredScopes, name) /\ RefHasPrefix(searchScopes, name)

\* A scope made only of `L` characters, the empty scope included: such a
\* scope also occurs at the signature marker itself.
MarkerLike(scope) == \A i \in 1..Len(scope) : scope[i] = "L"

\* is_in_allowed_scope departs from the prefix reference only when a scope
\* is marker-like: strstr anchored at class_sig + 1 is a prefix test of
\* the name exactly when the first occurrence of the scope is not the
\* leading `L` of the signature.
AllowedScopeDivergesOnlyOnMarkerScopes ==
    (phase = "running" /\ verdict.name # <<>>
      /\ verdict.allowed # RefInScope(verdict.name)) =>
        (\/ \E i \in 1..Len(searchScopes) : MarkerLike(searchScopes[i])
         \/ \E i \in 1..Len(ignoredScopes) : MarkerLike(ignoredScopes[i]))

\* Spec 7 (a): a progress point that cannot be resolved is a fatal
\* configuration error, reported before profiling begins.  So a
\* configuration ParseOptions accepts outside end-to-end mode names a
\* progress class that some class of the program passes the progress-class
\* test of CreateJMethodIDsForClass with.
AcceptedProgressClassResolvable ==
    (phase = "running" /\ ~endToEnd) =>
        \E n \in ClassNames : IsProgressClass(progressClass, Signature(n))
=============================================================================
