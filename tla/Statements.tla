---------------------------- MODULE Statements ------------------------------
(***************************************************************************)
(* What the logging statements do before, or instead of, taking log_mutex: *)
(* RAW_LOG (raw_logging.cc), which formats into a buffer of its own and    *)
(* writes to stderr, and the counters of LOG_FIRST_N, LOG_EVERY_N and      *)
(* LOG_IF_EVERY_N (logging.h).  They count, and elect the first crash, in  *)
(* static variables that all threads access without a lock: a step is one  *)
(* load or one store of such a variable.                                   *)
(*                                                                         *)
(* Each occasional statement has counters of its own and RAW_LOG has none  *)
(* of them, so that the threads are given one statement to execute.        *)
(***************************************************************************)
EXTENDS Integers, Sequences, FiniteSets, FiniteSetsExt

CONSTANTS
  Thread,
  Severity, FATAL,
  StderrThreshold,  \* FLAGS_stderrthreshold; the other flags are off
  UnitTestFail,     \* Crash() returns
  BufSize,          \* kLogBufSize
  Prefix,           \* the length of a line's prefix
  Notice,           \* the length of the notice that a message was too long
  Length,           \* the lengths of the messages
  RAW_LOG,          \* the statement that is no occasional one
  Site,             \* the occasional ones: [kind, n]
  MaxOps,           \* how many statements a thread executes
  NoOne             \* no message

ASSUME StatementsAssumption ==
          /\ Severity \subseteq Nat /\ FATAL \in Severity
          /\ StderrThreshold \in Int /\ UnitTestFail \in BOOLEAN
          /\ {BufSize, Prefix, Notice, MaxOps} \subseteq Nat
          /\ Prefix < BufSize
          /\ Length \subseteq Nat
          /\ Site \subseteq [kind : {"first", "every", "if_every"}, n : Int]
          /\ RAW_LOG \notin Site

VARIABLES
  statement, \* what the threads execute
  pc,        \* where each thread is
  ops,       \* the statements it has begun; the last is the one it executes
  sev, line, \* of RAW_LOG: the severity, and what is in the buffer
  condition, \* of LOG_IF_EVERY_N
  reg,       \* the value that the thread has loaded
  raw_num_messages_,
  crashed, crash_reason, g_reason, \* crash_reason's fields by who wrote them
  occurrences, occurrences_mod_n,  \* the counters of an occasional one
  status,    \* "running" or "aborted"
  stderr,    \* history: how many RAW_LOG lines of a severity were written
  counted,   \* history: increments of raw_num_messages_ that overlapped
  winners,   \* history: the messages that found crashed FALSE, in order
  raced,     \* history: one did while another was about to store TRUE
  calls,     \* history: the conditions of the calls, in order
  logged,    \* history: the COUNTERs that were logged
  passed, refused, \* history: how many calls were, and were not, let through
  overlap    \* history: two threads executed the statement at a time

rawVars == <<raw_num_messages_, crashed, crash_reason, g_reason, stderr,
             counted, winners, raced, status>>
siteVars == <<occurrences, occurrences_mod_n, calls, logged, passed, refused,
              overlap>>
locals == <<statement, ops, sev, line, condition>>
vars == <<pc, reg, rawVars, siteVars, locals>>

NoLine == [text |-> 0, newline |-> 0, notice |-> 0, of |-> 0]
Id(t) == <<t, ops[t]>>
At(t, l) == status = "running" /\ pc[t] = l
Goto(t, l) == pc' = [pc EXCEPT ![t] = l]
Loads(t, v) == reg' = [reg EXCEPT ![t] = v]

RawPC == {"write", "count", "counted", "crashed", "set", "reason", "memcpy",
          "SetCrashReason", "Crash"}
SitePC == {"test", "load", "store", "modulo", "stored", "LogMessage"}

TypeOK ==
  /\ pc \in [Thread -> {"idle"} \cup RawPC \cup SitePC]
  /\ raw_num_messages_ \in [Severity -> Nat]
  /\ g_reason \in {NoOne, "raw"}
  /\ occurrences \in 0..Len(calls)
  /\ occurrences_mod_n = 0 \/ occurrences_mod_n \in 0..(statement.n - 1)

Init ==
  /\ pc = [t \in Thread |-> "idle"] /\ ops = [t \in Thread |-> 0]
  /\ sev = [t \in Thread |-> 0] /\ line = [t \in Thread |-> NoLine]
  /\ statement \in Site \cup {RAW_LOG}
  /\ condition = [t \in Thread |-> TRUE]
  /\ reg = [t \in Thread |-> 0]
  /\ raw_num_messages_ = [i \in Severity |-> 0]
  /\ crashed = FALSE /\ crash_reason = [where |-> NoOne, message |-> NoOne]
  /\ g_reason = NoOne
  /\ occurrences = 0 /\ occurrences_mod_n = 0
  /\ status = "running"
  /\ stderr = [i \in Severity |-> 0] /\ counted = FALSE /\ winners = <<>> /\ raced = FALSE
  /\ calls = <<>> /\ logged = <<>> /\ passed = 0 /\ refused = 0
  /\ overlap = FALSE
-----------------------------------------------------------------------------
(* RAW_LOG.                                                                *)

\* Mutant: what does not fit is not noticed.
NeverTooLong(n, size) == TRUE

\* DoRawLog takes n characters for written if they do not exceed size.
Fits(n, size) == n <= size

\* vsnprintf writes at most size - 1 characters and a NUL.
Vsnprintf(n, size) == IF size = 0 THEN 0 ELSE Min({n, size - 1})

\* The buffer after the prefix: the message and a newline, or the notice,
\* which is written over the message.
Format(n) ==
  LET size == BufSize - Prefix IN
  IF Fits(n, size)
  THEN [text |-> Vsnprintf(n, size), newline |-> Vsnprintf(1, size - n),
        notice |-> 0, of |-> n]
  ELSE [text |-> 0, newline |-> 0, notice |-> Vsnprintf(Notice, size), of |-> n]

Begin(t) ==
  /\ At(t, "idle") /\ ops[t] < MaxOps
  /\ ops' = [ops EXCEPT ![t] = @ + 1]

\* Below the threshold nothing happens, even to a FATAL message.
RawLogSuppressed(t) ==
  /\ statement = RAW_LOG /\ \E s \in Severity : s < StderrThreshold
  /\ Begin(t)
  /\ UNCHANGED <<pc, statement, sev, line, condition, reg, rawVars, siteVars>>

RawLog(t) ==
  \E s \in {s \in Severity : s >= StderrThreshold}, n \in Length :
    /\ statement = RAW_LOG
    /\ Begin(t)
    /\ sev' = [sev EXCEPT ![t] = s]
    /\ line' = [line EXCEPT ![t] = Format(n)]
    /\ Goto(t, "write")
    /\ UNCHANGED <<statement, condition, reg, rawVars, siteVars>>

\* One call of write for the whole line.
SafeWrite(t) ==
  /\ At(t, "write")
  /\ stderr' = [stderr EXCEPT ![sev[t]] = @ + 1]
  /\ line' = [line EXCEPT ![t] = NoLine]
  /\ Goto(t, "count")
  /\ UNCHANGED <<statement, ops, sev, condition, reg, raw_num_messages_,
                 crashed, crash_reason, g_reason, counted, winners, raced,
                 status, siteVars>>

\* ++raw_num_messages_[severity], a load and a store.
LoadCount(t) ==
  /\ At(t, "count")
  /\ Loads(t, raw_num_messages_[sev[t]])
  /\ counted' = (counted \/ \E u \in Thread \ {t} : pc[u] = "counted")
  /\ Goto(t, "counted")
  /\ UNCHANGED <<locals, raw_num_messages_, crashed, crash_reason, g_reason,
                 stderr, winners, raced, status, siteVars>>

AfterCount(t) ==
  /\ Goto(t, IF sev[t] = FATAL THEN "crashed" ELSE "idle")
  /\ UNCHANGED <<locals, reg, crashed, crash_reason, g_reason, stderr,
                 counted, winners, raced, status, siteVars>>

\* Mutant: a FATAL message is not counted.
StoreCountBelowFatal(t) ==
  /\ At(t, "counted")
  /\ raw_num_messages_' = IF sev[t] = FATAL THEN raw_num_messages_
                          ELSE [raw_num_messages_ EXCEPT ![sev[t]] = reg[t] + 1]
  /\ AfterCount(t)

StoreCount(t) ==
  /\ At(t, "counted")
  /\ raw_num_messages_' = [raw_num_messages_ EXCEPT ![sev[t]] = reg[t] + 1]
  /\ AfterCount(t)

\* CompareAndSwap(&crashed, false, true): not atomic, it loads and stores.
Won(t, won) ==
  /\ winners' = IF won THEN Append(winners, Id(t)) ELSE winners
  /\ raced' = (raced \/ \E u \in Thread \ {t} : pc[u] = "set")
  /\ Goto(t, IF won THEN "set" ELSE "Crash")
  /\ UNCHANGED <<locals, reg, raw_num_messages_, crashed, crash_reason,
                 g_reason, stderr, counted, status, siteVars>>

\* Mutant: the election is forgotten, every FATAL message wins it.
AlwaysWins(t) == At(t, "crashed") /\ Won(t, TRUE)

LoadCrashed(t) == At(t, "crashed") /\ Won(t, ~crashed)

RawFatal(t, from, to) ==
  /\ At(t, from) /\ Goto(t, to)
  /\ UNCHANGED <<locals, reg, raw_num_messages_, stderr, counted, winners,
                 raced, siteVars>>

StoreCrashed(t) ==
  /\ RawFatal(t, "set", "reason")
  /\ crashed' = TRUE
  /\ UNCHANGED <<crash_reason, g_reason, status>>

FillReason(t) ==
  /\ RawFatal(t, "reason", "memcpy")
  /\ crash_reason' = [crash_reason EXCEPT !.where = Id(t)]
  /\ UNCHANGED <<crashed, g_reason, status>>

CopyMessage(t) ==
  /\ RawFatal(t, "memcpy", "SetCrashReason")
  /\ crash_reason' = [crash_reason EXCEPT !.message = Id(t)]
  /\ UNCHANGED <<crashed, g_reason, status>>

\* SetCrashReason, which nobody else calls, keeps a reason that is there: that
\* of another winner.
SetCrashReason(t) ==
  /\ RawFatal(t, "SetCrashReason", "Crash")
  /\ g_reason' = IF g_reason = NoOne THEN "raw" ELSE g_reason
  /\ UNCHANGED <<crashed, crash_reason, status>>

Crash(t) ==
  /\ RawFatal(t, "Crash", "idle")
  /\ status' = IF UnitTestFail THEN status ELSE "aborted"
  /\ UNCHANGED <<crashed, crash_reason, g_reason>>
-----------------------------------------------------------------------------
(* LOG_FIRST_N, LOG_EVERY_N, LOG_IF_EVERY_N.                               *)

\* Control reaches a statement; its condition is evaluated later, but depends
\* on nothing that is modelled.  LOG_IF_EVERY_N does not parenthesise it: it is
\* taken here for one operand of &&.  (Of a bare a || b, n > 0 && a would be
\* one side of || and b && ... the other: what satisfies a is always logged.)
Occasional(t) ==
  \E c \in BOOLEAN :
    /\ statement # RAW_LOG
    /\ statement.kind # "if_every" => c
    /\ Begin(t)
    /\ condition' = [condition EXCEPT ![t] = c]
    /\ calls' = Append(calls, c)
    /\ overlap' = (overlap \/ \E u \in Thread \ {t} : pc[u] # "idle")
    /\ Goto(t, IF statement.kind = "first" THEN "test" ELSE "load")
    /\ UNCHANGED <<statement, sev, line, reg, rawVars, occurrences,
                   occurrences_mod_n, logged, passed, refused>>

\* The end of the condition of the if: go on, or leave the statement.
Decide(t, yes, label) ==
  /\ passed' = IF yes THEN passed + 1 ELSE passed
  /\ refused' = IF yes THEN refused ELSE refused + 1
  /\ Goto(t, IF yes THEN label ELSE "idle")

\* LOG_FIRST_N: LOG_OCCURRENCES < n.
TestOccurrences(t) ==
  /\ At(t, "test")
  /\ Decide(t, occurrences < statement.n, "load")
  /\ UNCHANGED <<locals, reg, rawVars, occurrences, occurrences_mod_n, calls,
                 logged, overlap>>

\* ++LOG_OCCURRENCES.
LoadOccurrences(t) ==
  /\ At(t, "load")
  /\ Loads(t, occurrences)
  /\ Goto(t, "store")
  /\ UNCHANGED <<locals, rawVars, siteVars>>

\* Mutant: a call of LOG_FIRST_N counts twice.
StoreTwo(t) ==
  /\ At(t, "store")
  /\ occurrences' = reg[t] + 2
  /\ IF statement.kind = "first"
     THEN Goto(t, "LogMessage") /\ UNCHANGED <<passed, refused>>
     ELSE Decide(t, statement.n > 0 /\ condition[t], "modulo")
  /\ UNCHANGED <<locals, reg, rawVars, occurrences_mod_n, calls, logged, overlap>>

StoreOccurrences(t) ==
  /\ At(t, "store")
  /\ occurrences' = reg[t] + 1
  /\ IF statement.kind = "first"
     THEN Goto(t, "LogMessage") /\ UNCHANGED <<passed, refused>>
     ELSE Decide(t, statement.n > 0 /\ condition[t], "modulo")
  /\ UNCHANGED <<locals, reg, rawVars, occurrences_mod_n, calls, logged, overlap>>

\* (LOG_OCCURRENCES_MOD_N + 1) % n: a load, and the store and the comparison.
LoadModulo(t) ==
  /\ At(t, "modulo")
  /\ Loads(t, (occurrences_mod_n + 1) % statement.n)
  /\ Goto(t, "stored")
  /\ UNCHANGED <<locals, rawVars, siteVars>>

Compared(t, with) ==
  /\ At(t, "stored")
  /\ occurrences_mod_n' = reg[t]
  /\ Goto(t, IF reg[t] = with THEN "LogMessage" ELSE "idle")
  /\ UNCHANGED <<locals, reg, rawVars, occurrences, calls, logged, passed,
                 refused, overlap>>

\* Mutant: the comparison is with 1, which 1 % 1 is not.
CompareWithOne(t) == Compared(t, 1)

StoreModulo(t) == statement # RAW_LOG /\ Compared(t, 1 % statement.n)

\* The LogMessage is given LOG_OCCURRENCES as its COUNTER.
LogOccurrence(t) ==
  /\ At(t, "LogMessage")
  /\ logged' = Append(logged, occurrences)
  /\ Goto(t, "idle")
  /\ UNCHANGED <<locals, reg, rawVars, occurrences, occurrences_mod_n, calls,
                 passed, refused, overlap>>
-----------------------------------------------------------------------------
Step(t) ==
  \/ RawLog(t) \/ RawLogSuppressed(t)
  \/ SafeWrite(t) \/ LoadCount(t) \/ StoreCount(t)
  \/ LoadCrashed(t) \/ StoreCrashed(t) \/ FillReason(t) \/ CopyMessage(t)
  \/ SetCrashReason(t) \/ Crash(t)
  \/ Occasional(t) \/ TestOccurrences(t) \/ LoadOccurrences(t)
  \/ StoreOccurrences(t) \/ LoadModulo(t) \/ StoreModulo(t)
  \/ LogOccurrence(t)

Quiescent == \A t \in Thread : pc[t] = "idle"
Ended == status = "aborted" \/ (Quiescent /\ \A t \in Thread : ops[t] = MaxOps)
Stop == Ended /\ UNCHANGED vars
Next == (\E t \in Thread : Step(t)) \/ Stop
Spec == Init /\ [][Next]_vars
-----------------------------------------------------------------------------
(* What is expected.                                                       *)

\* A RAW_LOG line fits its buffer, although the calls of vsnprintf after the
\* first are given what the earlier ones claim to have left of it.  A line
\* without the notice has its whole message and a newline, or it is one of two:
\* a message of all but one of the characters left lacks its newline, one of
\* all of them its newline and its last character (raw_logging.cc:92, 102).  Of
\* these two "It returns true iff there was no overflow" (raw_logging.cc:86) is
\* false; of all others it is true.
LongIsNoted ==
  \A t \in Thread : pc[t] = "write" =>
    LET l == line[t]
        size == BufSize - Prefix
    IN /\ Prefix + l.text + l.newline + l.notice < BufSize
       /\ \/ l.notice > 0
          \/ l.text = l.of /\ l.newline = 1
          \/ l.of = size - 1 /\ l.text = l.of
          \/ l.of = size /\ l.text = l.of - 1

\* raw_num_messages counts every line that was written, by whichever threads,
\* as long as no two of them add to it at once; never more.
CountsRaw ==
  \A i \in Severity :
    LET adding == {t \in Thread : sev[t] = i /\ pc[t] \in {"count", "counted"}} IN
    /\ raw_num_messages_[i] <= stderr[i]
    /\ ~counted => raw_num_messages_[i] = stderr[i] - Cardinality(adding)

\* The crash reason is the first message's, position and text, and stays so
\* whatever FATAL messages follow, and g_reason points to a reason that is
\* complete, unless two messages met in the election.
ReasonOfOne ==
  ~raced =>
    LET ofFirst == [where |-> winners[1], message |-> winners[1]] IN
    /\ winners # <<>> =>
         /\ crash_reason.where \in {NoOne, winners[1]}
         /\ crash_reason.message \in {NoOne, winners[1]}
         /\ (\A t \in Thread : pc[t] \notin {"set", "reason", "memcpy"}) =>
              crash_reason = ofFirst
    /\ g_reason # NoOne => winners # <<>> /\ crash_reason = ofFirst

\* Calls of one site that did not overlap, by whichever threads: LOG_FIRST_N
\* logs the first n, LOG_EVERY_N the first of every n, LOG_IF_EVERY_N the same
\* among those whose condition held, each with the number of its call.
Nth(k) == Cardinality({j \in 1..k : calls[j]})
Due(k) ==
  IF statement.kind = "first" THEN k <= statement.n
  ELSE statement.n > 0 /\ calls[k] /\ Nth(k) % statement.n = 1 % statement.n
LogsTheRightOnes ==
  statement # RAW_LOG /\ ~overlap /\ Quiescent =>
    /\ {logged[i] : i \in DOMAIN logged} = {k \in DOMAIN calls : Due(k)}
    /\ \A i, j \in DOMAIN logged : i < j => logged[i] < logged[j]

\* However its calls overlap, LOG_FIRST_N refuses nothing before n of them
\* were let through.
NeverFewer ==
  statement # RAW_LOG =>
    (statement.kind = "first" /\ refused > 0 => passed >= statement.n)
=============================================================================
