----------------------------- MODULE VLogProps -----------------------------
(***************************************************************************)
(* What is expected of verbose logging, and what its header says of it and *)
(* the code does not do.                                                   *)
(***************************************************************************)
EXTENDS VLog

\* "Once created each element is never deleted" (vlog_is_on.cc:75): every
\* VModuleInfo, and so every level that a statement has cached a pointer to,
\* stays in the list, once, where SetVLOGLevel finds it.
ListComplete ==
  /\ Len(vmodule_list) = Len(info)
  /\ {vmodule_list[i] : i \in 1..Len(vmodule_list)} = 1..Len(info)

\* "<log level> overrides any value given by --v" (vlog_is_on.cc:31): --v
\* controls a statement only if no entry of the flag matches its file, although
\* the flag is parsed at the first VLOG_IS_ON, after calls of SetVLOGLevel.
FlagApplies ==
  \A s \in Site : vlocal[s] = 0 =>
    \A i \in 1..Len(Parsed) : ~MatchesFile[Parsed[i].module_pattern, s]

\* A statement is silent only if a level that it pointed to during the call
\* was too low at some moment of the call, however the call races with the
\* statement's initialisation, with SetVLOGLevel and with changes of --v.
SilentForAReason ==
  [][\A t \in Thread :
       pc[t] \in InVLOG_IS_ON /\ pc'[t] = "idle" /\ ~answer'[t]
         => \E o \in seen[t] : o.level < want[t]]_vars

\* "To change the log level ... one needs to supply the exact --vmodule
\* pattern that applied to them" (vlog_is_on.h:89-91), and that is enough:
\* when SetVLOGLevel ends, every statement that this pattern controls has the
\* level, even if the flag and earlier calls left the pattern there twice.
ExactPatternReaches ==
  [][\A t \in Thread : pc[t] = "loop" /\ pc'[t] = "idle" =>
       \A s \in Site :
         vlocal[s] > 0 /\ info[vlocal[s]].module_pattern = arg[t].pattern
           => info[vlocal[s]].vlog_level = arg[t].level]_vars
-----------------------------------------------------------------------------
(* What the header says and the code does not do.                          *)

\* "The truth value that VLOG_IS_ON(level) returns is determined by the three
\* verbosity level flags" (vlog_is_on.h:44-45): a statement that logs pointed
\* to a level that was high enough at some moment of the call.
LogsForAReason ==
  [][\A t \in Thread :
       pc[t] \in InVLOG_IS_ON /\ pc'[t] = "idle" /\ answer'[t]
         => \E o \in seen[t] : o.level >= want[t]]_vars

\* What a glob pattern matches.
Glob(pattern, name) ==
  LET P == Len(pattern)
      N == Len(name)
      match[p \in 0..P, n \in 0..N] ==
        IF p = P THEN n = N
        ELSE IF pattern[p + 1] = "*" THEN \E k \in n..N : match[p + 1, k]
        ELSE /\ n < N
             /\ pattern[p + 1] \in {"?", name[n + 1]}
             /\ match[p + 1, n + 1]
  IN  match[0, 0]

\* "foo*=3" changes "the logging level for all code in source files" that
\* "foo*.*" names (vlog_is_on.h:51-53): --v controls a statement only if no
\* pattern of the flag matches its file.
GlobHonoured ==
  \A s \in Site : vlocal[s] = 0 =>
    \A i \in 1..Len(Parsed) :
      ~Glob(Parsed[i].module_pattern,
            SubSeq(Base(File[s]), 1, BaseLength(File[s])))
=============================================================================
