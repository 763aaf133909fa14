-------------------------------- MODULE VLog --------------------------------
(***************************************************************************)
(* The levels of verbose logging (vlog_is_on.cc, vlog_is_on.h): the list   *)
(* of modules and their levels, which grows under vmodule_lock, and the    *)
(* VLOG_IS_ON statements, each of which caches a pointer to the level that *)
(* controls it and reads it without a lock.                                *)
(*                                                                         *)
(* A name and a pattern are sequences of characters, a pointer to a level  *)
(* is an index of info, 0 for &FLAGS_v.  A step is what a thread does      *)
(* between two accesses to what others read or write without the lock.     *)
(* MaxCalls bounds the calls of all threads together.                      *)
(***************************************************************************)
EXTENDS Integers, Sequences, FiniteSets

CONSTANTS Thread,
          NoThread,
          Site,        \* the VLOG_IS_ON statements
          File,        \* File[s]: __FILE__ of the statement s
          Flag,        \* FLAGS_vmodule: its entries, in order
          SetPattern,  \* the module patterns given to SetVLOGLevel
          Level,       \* the levels: of statements, flags and calls
          MaxCalls

Uninitialized == -1           \* &kLogSiteUninitialized
kLogSiteUninitialized == 1000 \* the level there

Pattern == SetPattern \cup {Flag[i].pattern : i \in 1..Len(Flag)}

ASSUME VLogAssumption ==
          /\ NoThread \notin Thread
          /\ File \in [Site -> Seq(STRING)]
          /\ Flag \in Seq([pattern : Seq(STRING), level : Level,
                           parses : BOOLEAN])
          /\ SetPattern \subseteq Seq(STRING)
          /\ \A pattern \in Pattern :
               Cardinality({i \in 1..Len(pattern) : pattern[i] = "*"}) <= 1
          /\ 0 \in Level /\ Level \subseteq Int
          /\ \A l \in Level : l < kLogSiteUninitialized
          /\ MaxCalls \in Nat

VARIABLES
  info,           \* every VModuleInfo there is
  vmodule_list,   \* the list, as indices of info
  inited_vmodule,
  vmodule_lock,   \* the thread that holds it, or NoThread
  FLAGS_v,
  vlocal,         \* vlocal[s]: the cached pointer of the statement s
  calls,          \* how many were begun
  pc,             \* per thread, as are the following
  site, want,     \* the statement and its verbose level
  ptr,            \* the pointer that the thread has read, or stored
  arg,            \* the arguments of SetVLOGLevel
  idx, found,     \* the loop of SetVLOGLevel
  answer,         \* history: the last answer of VLOG_IS_ON
  seen            \* history: what the statement pointed to during the call

shared == <<info, vmodule_list, inited_vmodule, vmodule_lock, vlocal>>
vars == <<shared, FLAGS_v, calls, pc, site, want, ptr, arg, idx, found,
          answer, seen>>

VModuleInfo == [module_pattern : Pattern, vlog_level : Level]
Pointer == {Uninitialized} \cup (0..Len(info))
PC == {"idle", "Compare", "CheckInitialized", "InitVLOG3__", "return",
       "SetVLOGLevel", "loop"}

TypeOK ==
  /\ info \in Seq(VModuleInfo)
  /\ vmodule_list \in Seq(1..Len(info))
  /\ inited_vmodule \in BOOLEAN
  /\ vmodule_lock \in Thread \cup {NoThread}
  /\ FLAGS_v \in Level
  /\ vlocal \in [Site -> Pointer]
  /\ pc \in [Thread -> PC]
  /\ calls \in 0..MaxCalls
  /\ site \in [Thread -> Site]
  /\ want \in [Thread -> Level]
  /\ ptr \in [Thread -> Pointer]
  /\ arg \in [Thread -> [pattern : SetPattern, level : Level]]
  /\ idx \in [Thread -> 1..(Len(vmodule_list) + 1)]
  /\ found \in [Thread -> BOOLEAN]
  /\ answer \in [Thread -> BOOLEAN]
  /\ seen \in [Thread -> SUBSET [ptr : Pointer, level : Level]]

Init ==
  /\ info = <<>>
  /\ vmodule_list = <<>>
  /\ inited_vmodule = FALSE
  /\ vmodule_lock = NoThread
  /\ FLAGS_v = 0
  /\ vlocal = [s \in Site |-> Uninitialized]
  /\ pc = [t \in Thread |-> "idle"]
  /\ calls = 0
  /\ site = [t \in Thread |-> CHOOSE s \in Site : TRUE]
  /\ want = [t \in Thread |-> 0]
  /\ ptr = [t \in Thread |-> Uninitialized]
  /\ arg = [t \in Thread |-> CHOOSE a \in [pattern : SetPattern, level : {0}] :
                                TRUE]
  /\ idx = [t \in Thread |-> 1]
  /\ found = [t \in Thread |-> FALSE]
  /\ answer = [t \in Thread |-> FALSE]
  /\ seen = [t \in Thread |-> {}]
-----------------------------------------------------------------------------
(* Names and patterns.                                                     *)

Char(text, i) == IF i \in DOMAIN text THEN text[i] ELSE "NUL"

\* Does the pattern match the first len characters of text?  A call of the
\* code is (p, f), where its arguments begin, and d is how far its loop is:
\* p and f advance together until there is a '*'.  The loop reads text beyond
\* len if the pattern does; a '*' there would loop over 2^64 positions, for
\* which a pattern needs two of them.
SafeFNMatch_(pattern, text, len) ==
  LET P == Len(pattern)
      match[p \in 0..P, f \in 0..(len + P), d \in 0..P] ==
        LET c == pattern[p + d + 1]
            rest == f + d .. (IF f + d < len THEN len - 1 ELSE f + d)
        IN  IF p + d = P THEN f + d = len
            ELSE \/ /\ c = "?" \/ c = Char(text, f + d + 1)
                    /\ match[p, f, d + 1]
                 \/ /\ c = "*" /\ Char(text, f + d + 1) # "*"
                    /\ \/ d + 1 = len - f
                       \/ \E g \in rest : match[p + d + 1, g, 0]
  IN  match[0, 0, 0]

\* The base name of a file and how much of it counts.
Begin(fname) ==
  CHOOSE b \in 0..Len(fname) :
    /\ b = 0 \/ fname[b] = "/"
    /\ \A i \in (b + 1)..Len(fname) : fname[i] # "/"
Base(fname) == SubSeq(fname, Begin(fname) + 1, Len(fname))
BaseLength(fname) ==
  LET base == Base(fname)
      n == CHOOSE n \in 0..Len(base) :
             /\ n = Len(base) \/ base[n + 1] = "."
             /\ \A i \in 1..n : base[i] # "."
  IN  IF n >= 4 /\ SubSeq(base, n - 3, n) = <<"-", "i", "n", "l">>
      THEN n - 4 ELSE n

\* Which patterns match which statements' files, and which match a pattern that
\* is given to SetVLOGLevel.
MatchesFile ==
  [pattern \in Pattern, s \in Site |->
     SafeFNMatch_(pattern, Base(File[s]), BaseLength(File[s]))]
MatchesPattern ==
  [pattern \in Pattern, given \in SetPattern |->
     SafeFNMatch_(pattern, given, Len(given))]
-----------------------------------------------------------------------------
(* The list.                                                               *)

Deref(p) == IF p = Uninitialized THEN kLogSiteUninitialized
            ELSE IF p = 0 THEN FLAGS_v ELSE info[p].vlog_level

\* Entries of FLAGS_vmodule that do not parse are skipped, the others keep
\* their order.
Parses == {k \in 1..Len(Flag) : Flag[k].parses}
Ordered(f, n) == \A i, j \in 1..n : i < j => f[i] < f[j]
Parsed ==
  LET n == Cardinality(Parses)
      entry == CHOOSE f \in [1..n -> Parses] : Ordered(f, n)
  IN  [i \in 1..n |-> [module_pattern |-> Flag[entry[i]].pattern,
                       vlog_level |-> Flag[entry[i]].level]]
Infos == IF inited_vmodule THEN info ELSE info \o Parsed
\* Mutant: the entries of the flag replace the list.
ListReplaced ==
  IF inited_vmodule THEN vmodule_list
  ELSE [i \in 1..Len(Parsed) |-> Len(info) + i]
\* The list as it is once the flag is parsed: its entries come first.
List ==
  IF inited_vmodule THEN vmodule_list
  ELSE [i \in 1..Len(Parsed) |-> Len(info) + i] \o vmodule_list

\* The pointer that InitVLOG3__ finds for the statement s.
Find(s) ==
  LET at == {i \in 1..Len(List) : MatchesFile[Infos[List[i]].module_pattern, s]}
  IN  IF at = {} THEN 0 ELSE List[CHOOSE i \in at : \A j \in at : i <= j]

\* The level at p, and for no pointer yet the one that s would get.
LevelOf(p, s) ==
  LET to == IF p = Uninitialized THEN Find(s) ELSE p
  IN  IF to = 0 THEN FLAGS_v ELSE Infos[to].vlog_level
-----------------------------------------------------------------------------
(* VLOG_IS_ON.                                                             *)

Goto(t, where) == pc' = [pc EXCEPT ![t] = where]
Return(t, yes) == Goto(t, "idle") /\ answer' = [answer EXCEPT ![t] = yes]

InVLOG_IS_ON == {"Compare", "CheckInitialized", "InitVLOG3__", "return"}

\* What the statement of each thread that is executing one has pointed to
\* during the call, and the levels there since.
Observe ==
  seen' = [t \in Thread |->
    IF pc'[t] \in InVLOG_IS_ON
    THEN LET pointers == {o.ptr : o \in seen[t]} \ {Uninitialized}
         IN  seen[t] \cup {[ptr |-> p, level |-> LevelOf(p, site[t])'] :
                            p \in pointers \cup {vlocal'[site'[t]]}}
    ELSE {}]

Call(t) ==
  /\ pc[t] = "idle" /\ calls < MaxCalls
  /\ calls' = calls + 1

\* The statement begins with a read of vlocal__.
VLOG_IS_ON(t, s, level) ==
  /\ Call(t)
  /\ ptr' = [ptr EXCEPT ![t] = vlocal[s]]
  /\ site' = [site EXCEPT ![t] = s]
  /\ want' = [want EXCEPT ![t] = level]
  /\ Goto(t, "Compare")
  /\ UNCHANGED <<shared, FLAGS_v, arg, idx, found, answer>>

\* Mutant: the level itself is not active.
CompareStrictly(t) ==
  /\ pc[t] = "Compare"
  /\ IF Deref(ptr[t]) > want[t]
     THEN Goto(t, "CheckInitialized") /\ UNCHANGED answer
     ELSE Return(t, FALSE)
  /\ UNCHANGED <<shared, FLAGS_v, calls, site, want, ptr, arg, idx, found>>

\* *vlocal__ >= verbose_level__
Compare(t) ==
  /\ pc[t] = "Compare"
  /\ IF Deref(ptr[t]) >= want[t]
     THEN Goto(t, "CheckInitialized") /\ UNCHANGED answer
     ELSE Return(t, FALSE)
  /\ UNCHANGED <<shared, FLAGS_v, calls, site, want, ptr, arg, idx, found>>

\* vlocal__ != &kLogSiteUninitialized: the build may read vlocal__ again, or
\* use what it read for the comparison.
CheckInitialized(t) ==
  /\ pc[t] = "CheckInitialized"
  /\ \E p \in {ptr[t], vlocal[site[t]]} :
       IF p # Uninitialized THEN Return(t, TRUE)
       ELSE Goto(t, "InitVLOG3__") /\ UNCHANGED answer
  /\ ptr' = [ptr EXCEPT ![t] = Uninitialized]
  /\ UNCHANGED <<shared, FLAGS_v, calls, site, want, arg, idx, found>>

\* Mutant: the flag is parsed only while the list is empty.
InitVLOG3__IfEmpty(t) ==
  LET old == {i \in 1..Len(vmodule_list) :
                MatchesFile[info[vmodule_list[i]].module_pattern, site[t]]}
      first == IF old = {} THEN 0
               ELSE vmodule_list[CHOOSE i \in old : \A j \in old : i <= j]
      p == IF vmodule_list = <<>> THEN Find(site[t]) ELSE first IN
  /\ pc[t] = "InitVLOG3__" /\ vmodule_lock = NoThread
  /\ vmodule_lock' = t
  /\ IF vmodule_list = <<>>
     THEN info' = Infos /\ vmodule_list' = List /\ inited_vmodule' = TRUE
     ELSE UNCHANGED <<info, vmodule_list, inited_vmodule>>
  /\ ptr' = [ptr EXCEPT ![t] = p]
  /\ vlocal' = [vlocal EXCEPT ![site[t]] = p]
  /\ Goto(t, "return")
  /\ UNCHANGED <<FLAGS_v, calls, site, want, arg, idx, found, answer>>

\* With the lock: parse the flag if that has not been done and store the
\* pointer, which the other threads see before the end.
InitVLOG3__(t) ==
  /\ pc[t] = "InitVLOG3__" /\ vmodule_lock = NoThread
  /\ vmodule_lock' = t
  /\ info' = Infos
  /\ vmodule_list' = List
  /\ inited_vmodule' = TRUE
  /\ ptr' = [ptr EXCEPT ![t] = Find(site[t])]
  /\ vlocal' = [vlocal EXCEPT ![site[t]] = Find(site[t])]
  /\ Goto(t, "return")
  /\ UNCHANGED <<FLAGS_v, calls, site, want, arg, idx, found, answer>>

\* *site_flag_value >= verbose_level
ReturnLevel(t) ==
  /\ pc[t] = "return"
  /\ vmodule_lock' = NoThread
  /\ Return(t, Deref(ptr[t]) >= want[t])
  /\ UNCHANGED <<info, vmodule_list, inited_vmodule, vlocal, FLAGS_v, calls,
                 site, want, ptr, arg, idx, found>>
-----------------------------------------------------------------------------
(* SetVLOGLevel.  The level that it returns is left out.                   *)

SetVLOGLevel(t, pattern, level) ==
  /\ Call(t)
  /\ arg' = [arg EXCEPT ![t] = [pattern |-> pattern, level |-> level]]
  /\ Goto(t, "SetVLOGLevel")
  /\ UNCHANGED <<shared, FLAGS_v, site, want, ptr, idx, found, answer>>

Lock(t) ==
  /\ pc[t] = "SetVLOGLevel" /\ vmodule_lock = NoThread
  /\ vmodule_lock' = t
  /\ idx' = [idx EXCEPT ![t] = 1]
  /\ found' = [found EXCEPT ![t] = FALSE]
  /\ Goto(t, "loop")
  /\ UNCHANGED <<info, vmodule_list, inited_vmodule, vlocal, FLAGS_v, calls,
                 site, want, ptr, arg, answer>>

\* Mutant: the match is tried before the pattern itself.
SetLevelMatchFirst(t) ==
  LET i == vmodule_list[idx[t]]
      m == info[i].module_pattern
      matches == ~found[t] /\ MatchesPattern[m, arg[t].pattern] IN
  /\ pc[t] = "loop" /\ idx[t] <= Len(vmodule_list)
  /\ idx' = [idx EXCEPT ![t] = @ + 1]
  /\ IF m = arg[t].pattern /\ ~matches
     THEN info' = [info EXCEPT ![i].vlog_level = arg[t].level]
     ELSE UNCHANGED info
  /\ found' = [found EXCEPT ![t] = @ \/ matches \/ m = arg[t].pattern]
  /\ UNCHANGED <<vmodule_list, inited_vmodule, vmodule_lock, vlocal, FLAGS_v,
                 pc, calls, site, want, ptr, arg, answer>>

\* One iteration: what has the pattern itself gets the level.
SetLevel(t) ==
  LET i == vmodule_list[idx[t]]
      m == info[i].module_pattern IN
  /\ pc[t] = "loop" /\ idx[t] <= Len(vmodule_list)
  /\ idx' = [idx EXCEPT ![t] = @ + 1]
  /\ IF m = arg[t].pattern
     THEN /\ info' = [info EXCEPT ![i].vlog_level = arg[t].level]
          /\ found' = [found EXCEPT ![t] = TRUE]
     ELSE /\ found' = [found EXCEPT ![t] =
               @ \/ MatchesPattern[m, arg[t].pattern]]
          /\ UNCHANGED info
  /\ UNCHANGED <<vmodule_list, inited_vmodule, vmodule_lock, vlocal, FLAGS_v,
                 pc, calls, site, want, ptr, arg, answer>>

\* The end of the loop: a pattern that nothing matches is added at the head.
AddModule(t) ==
  /\ pc[t] = "loop" /\ idx[t] > Len(vmodule_list)
  /\ IF found[t] THEN UNCHANGED <<info, vmodule_list>>
     ELSE /\ info' = Append(info, [module_pattern |-> arg[t].pattern,
                                   vlog_level |-> arg[t].level])
          /\ vmodule_list' = <<Len(info) + 1>> \o vmodule_list
  /\ vmodule_lock' = NoThread
  /\ idx' = [idx EXCEPT ![t] = 1]
  /\ Goto(t, "idle")
  /\ UNCHANGED <<inited_vmodule, vlocal, FLAGS_v, calls, site, want, ptr, arg,
                 found, answer>>
-----------------------------------------------------------------------------
\* The program sets --v.
SetFlag(t, level) ==
  /\ Call(t)
  /\ FLAGS_v' = level
  /\ UNCHANGED <<shared, pc, site, want, ptr, arg, idx, found, answer>>

\* The bound on the calls is reached: the program ends.
Stop ==
  /\ calls = MaxCalls /\ \A t \in Thread : pc[t] = "idle"
  /\ UNCHANGED vars

Step(t) ==
  \/ \E s \in Site, level \in Level : VLOG_IS_ON(t, s, level)
  \/ Compare(t) \/ CheckInitialized(t) \/ InitVLOG3__(t) \/ ReturnLevel(t)
  \/ \E pattern \in SetPattern, level \in Level :
       SetVLOGLevel(t, pattern, level)
  \/ Lock(t) \/ SetLevel(t) \/ AddModule(t)
  \/ \E level \in Level : SetFlag(t, level)

Next == (\E t \in Thread : Step(t) /\ Observe) \/ Stop

Spec == Init /\ [][Next]_vars
=============================================================================
