--------------------------- MODULE StatementsProofs ---------------------------
(***************************************************************************)
(* Proofs about RAW_LOG and the occasional statements: what their counters *)
(* and the election of the first crash hold on to, although all threads    *)
(* load and store them without a lock, how far a line fits its buffer, and *)
(* which calls are logged as long as they do not overlap.                  *)
(***************************************************************************)
EXTENDS Statements, FiniteSetTheorems, SequenceTheorems, TLAPS

\* What a buffer may hold.
Formatted == {NoLine} \cup {Format(n) : n \in Length}

Labels == {"idle"} \cup RawPC \cup SitePC
Message == Thread \X Nat

\* The types, and where a thread may be that executes the statement.
Types ==
  /\ pc \in [Thread -> Labels] /\ ops \in [Thread -> Nat]
  /\ sev \in [Thread -> Nat] /\ line \in [Thread -> Formatted]
  /\ reg \in [Thread -> Nat] /\ condition \in [Thread -> BOOLEAN]
  /\ raw_num_messages_ \in [Severity -> Nat] /\ stderr \in [Severity -> Nat]
  /\ crashed \in BOOLEAN /\ counted \in BOOLEAN /\ raced \in BOOLEAN
  /\ crash_reason \in [where : Message \cup {NoOne},
                       message : Message \cup {NoOne}]
  /\ g_reason \in {NoOne, "raw"}
  /\ winners \in Seq(Message) /\ calls \in Seq(BOOLEAN)
  /\ occurrences \in Nat /\ occurrences_mod_n \in Nat
  /\ passed \in Nat /\ refused \in Nat
  /\ statement \in Site \cup {RAW_LOG}
Places ==
  \A t \in Thread :
    /\ pc[t] \in RawPC => statement = RAW_LOG /\ sev[t] \in Severity
    /\ pc[t] \in SitePC => statement \in Site
    /\ pc[t] \in {"modulo", "stored"} => statement.n > 0
    /\ pc[t] = "write" => line[t] \in {Format(n) : n \in Length}
    /\ pc[t] = "stored" => reg[t] \in 0..(statement.n - 1)
ModuloInv == occurrences_mod_n = 0 \/ occurrences_mod_n \in 0..(statement.n - 1)
TypeInv == Types /\ Places /\ ModuloInv

\* What is in a buffer is a line.
LEMMA FormattedProperties ==
  ASSUME NEW n \in Length
  PROVE  Format(n) \in Formatted /\ NoLine \in Formatted
BY DEF Formatted

\* Initially ...
LEMMA InitTypes ==
  ASSUME StatementsAssumption, Init
  PROVE  TypeInv
<1>1. Types
  <2>1. 0 \in Nat /\ NoLine \in Formatted
    BY DEF Formatted
  <2>2. <<>> \in Seq(Message) /\ <<>> \in Seq(BOOLEAN)
    OBVIOUS
  <2>3. "idle" \in Labels
    BY DEF Labels
  <2> QED
    BY <2>1, <2>2, <2>3 DEF Init, Types
<1>2. Places
  BY DEF Init, Places, RawPC, SitePC
<1>3. ModuloInv
  BY DEF Init, ModuloInv
<1> QED
  BY <1>1, <1>2, <1>3 DEF TypeInv

\* ... and after every step of RAW_LOG ...
LEMMA RawTypes ==
  ASSUME StatementsAssumption, TypeInv, NEW t \in Thread,
         \/ RawLog(t) \/ RawLogSuppressed(t)
         \/ SafeWrite(t) \/ LoadCount(t) \/ StoreCount(t)
         \/ LoadCrashed(t) \/ StoreCrashed(t) \/ FillReason(t)
         \/ CopyMessage(t) \/ SetCrashReason(t) \/ Crash(t)
  PROVE  TypeInv'
<1> USE DEF TypeInv, Types, At, Goto
<1>1. CASE RawLog(t)
  <2>1. PICK s \in Severity, n \in Length :
          /\ statement = RAW_LOG /\ Begin(t)
          /\ sev' = [sev EXCEPT ![t] = s]
          /\ line' = [line EXCEPT ![t] = Format(n)]
          /\ pc' = [pc EXCEPT ![t] = "write"]
          /\ UNCHANGED <<statement, condition, reg, rawVars, siteVars>>
    BY <1>1 DEF RawLog
  <2>2. s \in Nat /\ Format(n) \in Formatted /\ "write" \in Labels
    BY FormattedProperties DEF StatementsAssumption, Labels, RawPC
  <2>3. Types'
    <3>1. ops' = [ops EXCEPT ![t] = ops[t] + 1] /\ ops[t] + 1 \in Nat
      BY SMTT(60), <2>1 DEF Begin
    <3>2. /\ pc' \in [Thread -> Labels] /\ ops' \in [Thread -> Nat]
          /\ sev' \in [Thread -> Nat] /\ line' \in [Thread -> Formatted]
      BY <2>1, <2>2, <3>1
    <3> QED
      BY <2>1, <3>2 DEF rawVars, siteVars
  <2>4. Places'
    BY <2>1 DEF Places, RawPC, SitePC
  <2>5. ModuloInv'
    BY <2>1 DEF siteVars, ModuloInv
  <2> QED
    BY <2>3, <2>4, <2>5
<1>2. CASE SafeWrite(t)
  <2>1. sev[t] \in Severity /\ NoLine \in Formatted
    BY <1>2 DEF SafeWrite, Places, RawPC, Formatted
  <2>2. Types'
    <3>1. /\ pc' = [pc EXCEPT ![t] = "count"] /\ "count" \in Labels
          /\ stderr' = [stderr EXCEPT ![sev[t]] = stderr[sev[t]] + 1]
          /\ line' = [line EXCEPT ![t] = NoLine]
      BY <1>2 DEF SafeWrite, Labels, RawPC
    <3>2. stderr[sev[t]] + 1 \in Nat
      BY SMTT(60), <2>1
    <3>3. /\ pc' \in [Thread -> Labels] /\ stderr' \in [Severity -> Nat]
          /\ line' \in [Thread -> Formatted]
      BY <2>1, <3>1, <3>2
    <3> QED
      BY <1>2, <3>3 DEF SafeWrite, siteVars
  <2>3. Places' /\ ModuloInv'
    BY <1>2, <2>1 DEF SafeWrite, siteVars, Places, RawPC, SitePC, ModuloInv
  <2> QED
    BY <2>2, <2>3
<1>3. CASE LoadCount(t)
  <2>1. sev[t] \in Severity
    BY <1>3 DEF LoadCount, Places, RawPC
  <2>2. Types'
    BY <1>3, <2>1 DEF LoadCount, Loads, siteVars, locals, Labels, RawPC
  <2>3. Places' /\ ModuloInv'
    BY <1>3, <2>1
    DEF LoadCount, Loads, siteVars, locals, Places, RawPC, SitePC, ModuloInv
  <2> QED
    BY <2>2, <2>3
<1>4. CASE StoreCount(t)
  <2>1. sev[t] \in Severity
    BY <1>4 DEF StoreCount, Places, RawPC
  <2>2. Types'
    <3>1. /\ raw_num_messages_' =
               [raw_num_messages_ EXCEPT ![sev[t]] = reg[t] + 1]
          /\ reg[t] + 1 \in Nat
      BY SMTT(60), <1>4 DEF StoreCount
    <3>2. raw_num_messages_' \in [Severity -> Nat]
      BY <2>1, <3>1
    <3>3. pc' \in [Thread -> Labels]
      BY <1>4 DEF StoreCount, AfterCount, Labels, RawPC
    <3> QED
      BY <1>4, <3>2, <3>3 DEF StoreCount, AfterCount, siteVars, locals
  <2>3. Places' /\ ModuloInv'
    BY <1>4, <2>1
    DEF StoreCount, AfterCount, siteVars, locals, Places, RawPC, SitePC,
        ModuloInv
  <2> QED
    BY <2>2, <2>3
<1>5. CASE LoadCrashed(t)
  <2>1. Id(t) \in Message
    BY DEF Id, Message
  <2>2. Types'
    <3>1. Append(winners, Id(t)) \in Seq(Message)
      BY <2>1
    <3>2. winners' \in Seq(Message)
      BY <1>5, <3>1 DEF LoadCrashed, Won
    <3>3. pc' \in [Thread -> Labels]
      BY <1>5 DEF LoadCrashed, Won, Labels, RawPC
    <3>4. raced' \in BOOLEAN
      BY <1>5 DEF LoadCrashed, Won
    <3> QED
      BY <1>5, <3>2, <3>3, <3>4 DEF LoadCrashed, Won, siteVars, locals
  <2>3. Places' /\ ModuloInv'
    BY <1>5, <2>1
    DEF LoadCrashed, Won, siteVars, locals, Places, RawPC, SitePC, ModuloInv
  <2> QED
    BY <2>2, <2>3
<1>6. CASE \/ StoreCrashed(t) \/ FillReason(t) \/ CopyMessage(t)
           \/ SetCrashReason(t) \/ Crash(t)
  <2>1. Id(t) \in Message
    BY DEF Id, Message
  <2>2. PICK from \in RawPC, to \in RawPC \cup {"idle"} : RawFatal(t, from, to)
    BY <1>6
    DEF StoreCrashed, FillReason, CopyMessage, SetCrashReason, Crash, RawPC
  <2>3. crash_reason' \in [where : Message \cup {NoOne},
                           message : Message \cup {NoOne}]
        /\ g_reason' \in {NoOne, "raw"} /\ crashed' \in BOOLEAN
    BY <1>6, <2>1
    DEF StoreCrashed, FillReason, CopyMessage, SetCrashReason, Crash
  <2>4. Types'
    BY <2>2, <2>3 DEF RawFatal, siteVars, locals, Labels
  <2>5. to # "write" /\ to \notin SitePC
    BY <1>6, <2>2
    DEF StoreCrashed, FillReason, CopyMessage, SetCrashReason, Crash, RawFatal,
        RawPC, SitePC
  <2>6. Places' /\ ModuloInv'
    BY <2>2, <2>5 DEF RawFatal, siteVars, locals, Places, RawPC, SitePC, ModuloInv
  <2> QED
    BY <2>4, <2>6
<1>7. CASE RawLogSuppressed(t)
  <2>1. /\ ops' = [ops EXCEPT ![t] = ops[t] + 1] /\ ops[t] + 1 \in Nat
        /\ UNCHANGED <<pc, statement, sev, line, condition, reg, rawVars,
                       siteVars>>
    BY SMTT(60), <1>7 DEF RawLogSuppressed, Begin
  <2> QED
    BY <2>1 DEF rawVars, siteVars, Places, ModuloInv
<1> QED
  BY <1>1, <1>2, <1>3, <1>4, <1>5, <1>6, <1>7

\* ... and of an occasional statement.
LEMMA SiteTypes ==
  ASSUME StatementsAssumption, TypeInv, NEW t \in Thread,
         \/ Occasional(t) \/ TestOccurrences(t) \/ LoadOccurrences(t)
         \/ StoreOccurrences(t) \/ LoadModulo(t) \/ StoreModulo(t)
         \/ LogOccurrence(t)
  PROVE  TypeInv'
<1> USE DEF TypeInv, Types, At, Goto
<1>1. CASE Occasional(t)
  <2>1. PICK c \in BOOLEAN :
          /\ statement # RAW_LOG /\ Begin(t)
          /\ condition' = [condition EXCEPT ![t] = c]
          /\ calls' = Append(calls, c)
          /\ pc' = [pc EXCEPT ![t] =
                      IF statement.kind = "first" THEN "test" ELSE "load"]
          /\ UNCHANGED <<statement, sev, line, reg, rawVars, occurrences,
                         occurrences_mod_n, logged, passed, refused>>
    BY <1>1 DEF Occasional
  <2>2. Types'
    <3>1. ops' = [ops EXCEPT ![t] = ops[t] + 1] /\ ops[t] + 1 \in Nat
      BY SMTT(60), <2>1 DEF Begin
    <3>2. pc' \in [Thread -> Labels]
      BY <2>1 DEF Labels, SitePC
    <3>3. ops' \in [Thread -> Nat] /\ condition' \in [Thread -> BOOLEAN]
          /\ calls' \in Seq(BOOLEAN)
      BY SMTT(60), <2>1, <3>1
    <3> QED
      BY <2>1, <3>2, <3>3 DEF rawVars
  <2>3. Places' /\ ModuloInv'
    BY <2>1 DEF Places, RawPC, SitePC, ModuloInv
  <2> QED
    BY <2>2, <2>3
<1>2. CASE TestOccurrences(t)
  <2>1. Types'
    <3>1. passed' \in {passed, passed + 1} /\ refused' \in {refused, refused + 1}
      BY <1>2 DEF TestOccurrences, Decide
    <3>2. passed' \in Nat /\ refused' \in Nat
      BY SMTT(60), <3>1
    <3>3. pc' \in [Thread -> Labels]
      BY <1>2 DEF TestOccurrences, Decide, Labels, SitePC
    <3> QED
      BY <1>2, <3>2, <3>3 DEF TestOccurrences, rawVars, locals
  <2>2. Places' /\ ModuloInv'
    BY <1>2
    DEF TestOccurrences, Decide, rawVars, locals, Places, RawPC, SitePC,
        ModuloInv
  <2> QED
    BY <2>1, <2>2
<1>3. CASE LoadOccurrences(t)
  <2>1. Types'
    BY <1>3 DEF LoadOccurrences, Loads, rawVars, siteVars, locals, Labels, SitePC
  <2>2. Places' /\ ModuloInv'
    BY <1>3
    DEF LoadOccurrences, Loads, rawVars, siteVars, locals, Places, RawPC,
        SitePC, ModuloInv
  <2> QED
    BY <2>1, <2>2
<1>4. CASE StoreOccurrences(t)
  <2>1. PICK to \in {"LogMessage", "modulo", "idle"} :
          /\ pc' = [pc EXCEPT ![t] = to]
          /\ to = "modulo" => statement.n > 0
    BY <1>4 DEF StoreOccurrences, Decide
  <2>2. statement \in Site
    BY <1>4 DEF StoreOccurrences, Places, SitePC
  <2>3. Types'
    <3>1. passed' \in {passed, passed + 1} /\ refused' \in {refused, refused + 1}
      BY <1>4 DEF StoreOccurrences, Decide
    <3>2. passed' \in Nat /\ refused' \in Nat
      BY SMTT(60), <3>1
    <3>3. pc' \in [Thread -> Labels]
      BY <2>1 DEF Labels, SitePC
    <3>4. occurrences' \in Nat
      BY <1>4 DEF StoreOccurrences
    <3> QED
      BY <1>4, <3>2, <3>3, <3>4 DEF StoreOccurrences, rawVars, locals
  <2>4. UNCHANGED <<statement, sev, line, reg, occurrences_mod_n>>
    BY <1>4 DEF StoreOccurrences, locals
  <2>5. Places' /\ ModuloInv'
    BY <2>1, <2>2, <2>4 DEF Places, RawPC, SitePC, ModuloInv
  <2> QED
    BY <2>3, <2>5
<1>5. CASE LoadModulo(t)
  <2>1. statement \in Site /\ statement.n > 0
    BY <1>5 DEF LoadModulo, Places, SitePC
  <2>2. statement.n \in Int
    BY <2>1 DEF StatementsAssumption
  <2> DEFINE v == (occurrences_mod_n + 1) % statement.n
  <2>3. v \in 0..(statement.n - 1) /\ v \in Nat
    BY SMTT(60), <2>1, <2>2
  <2>4. /\ pc[t] = "modulo" /\ pc' = [pc EXCEPT ![t] = "stored"]
        /\ reg' = [reg EXCEPT ![t] = v]
        /\ UNCHANGED <<locals, rawVars, siteVars>>
    BY <1>5 DEF LoadModulo, Loads
  <2> HIDE DEF v
  <2>5. Types'
    BY <2>3, <2>4 DEF rawVars, siteVars, locals, Labels, SitePC
  <2>6. Places' /\ ModuloInv'
    BY <2>1, <2>3, <2>4
    DEF rawVars, siteVars, locals, Places, RawPC, SitePC, ModuloInv
  <2> QED
    BY <2>5, <2>6
<1>6. CASE StoreModulo(t)
  <2>1. reg[t] \in 0..(statement.n - 1) /\ reg[t] \in Nat
    BY <1>6 DEF StoreModulo, Compared, Places
  <2>2. Types'
    BY <1>6, <2>1 DEF StoreModulo, Compared, rawVars, locals, Labels, SitePC
  <2>3. Places' /\ ModuloInv'
    BY <1>6, <2>1
    DEF StoreModulo, Compared, rawVars, locals, Places, RawPC, SitePC, ModuloInv
  <2> QED
    BY <2>2, <2>3
<1>7. CASE LogOccurrence(t)
  <2>1. Types'
    BY <1>7 DEF LogOccurrence, rawVars, locals, Labels
  <2>2. Places' /\ ModuloInv'
    BY <1>7
    DEF LogOccurrence, rawVars, locals, Places, RawPC, SitePC, ModuloInv
  <2> QED
    BY <2>1, <2>2
<1> QED
  BY <1>1, <1>2, <1>3, <1>4, <1>5, <1>6, <1>7

\* Every step keeps the types.
LEMMA NextTypes ==
  ASSUME StatementsAssumption, TypeInv, [Next]_vars
  PROVE  TypeInv'
<1>1. CASE UNCHANGED vars
  BY <1>1
  DEF vars, rawVars, siteVars, locals, TypeInv, Types, Places, ModuloInv
<1> QED
  BY <1>1, RawTypes, SiteTypes DEF Next, Step, Stop

-----------------------------------------------------------------------------
(* The counters: what is added to one is never more than what it counts,   *)
(* not even when loads and stores overlap.                                 *)

\* A set with one element more, or less.
LEMMA AddOne ==
  ASSUME NEW S, NEW x, NEW T, IsFiniteSet(S), x \notin S, T = S \cup {x}
  PROVE  /\ IsFiniteSet(T) /\ Cardinality(T) = Cardinality(S) + 1
         /\ Cardinality(S) \in Nat /\ Cardinality(T) \in Nat
BY FS_AddElement, FS_CardinalityType

\* A set without one of its elements has one element less.
LEMMA RemoveOne ==
  ASSUME NEW S, NEW x, NEW T, IsFiniteSet(S), x \in S, T = S \ {x}
  PROVE  /\ IsFiniteSet(T) /\ Cardinality(T) = Cardinality(S) - 1
         /\ Cardinality(S) \in Nat /\ Cardinality(T) \in Nat
BY FS_RemoveElement, FS_CardinalityType

\* The threads that have written a line of severity i and not counted it, and
\* what a count that was loaded may be.
Adding(i) == {t \in Thread : sev[t] = i /\ pc[t] \in {"count", "counted"}}
CountInv ==
  /\ \A i \in Severity :
       /\ IsFiniteSet(Adding(i))
       /\ raw_num_messages_[i] + Cardinality(Adding(i)) <= stderr[i]
       /\ ~counted => raw_num_messages_[i] + Cardinality(Adding(i)) = stderr[i]
  /\ \A t \in Thread : pc[t] = "counted" =>
       /\ reg[t] + Cardinality(Adding(sev[t])) <= stderr[sev[t]]
       /\ ~counted => reg[t] = raw_num_messages_[sev[t]]
  /\ ~counted => \A t, u \in Thread :
                   pc[t] = "counted" /\ pc[u] = "counted" => t = u

\* What does not count leaves the invariant.
LEMMA CountAside ==
  ASSUME CountInv, Types, Places, NEW t \in Thread,
         UNCHANGED <<raw_num_messages_, stderr, counted>>,
         pc[t] \notin {"count", "counted"}, pc'[t] \notin {"count", "counted"},
         \A u \in Thread \ {t} : /\ pc'[u] = pc[u] /\ sev'[u] = sev[u]
                                 /\ reg'[u] = reg[u]
  PROVE  CountInv'
<1>1. \A i : Adding(i)' = Adding(i)
  BY DEF Adding
<1>2. \A u \in Thread : pc'[u] = "counted" =>
        /\ pc[u] = "counted" /\ sev'[u] = sev[u] /\ reg'[u] = reg[u]
  OBVIOUS
<1> QED
  BY <1>1, <1>2 DEF CountInv

\* A line is written.
LEMMA CountWritten ==
  ASSUME CountInv, Types, Places, NEW t \in Thread, SafeWrite(t)
  PROVE  CountInv'
<1> DEFINE s == sev[t]
           A(i) == Adding(i)
           B(i) == Adding(i)'
<1>1. /\ s \in Severity /\ pc[t] = "write" /\ pc' = [pc EXCEPT ![t] = "count"]
      /\ stderr' = [stderr EXCEPT ![s] = stderr[s] + 1]
      /\ UNCHANGED <<sev, reg, raw_num_messages_, counted>>
  BY DEF SafeWrite, At, Goto, Places, RawPC
<1>2. /\ B(s) = A(s) \cup {t} /\ t \notin A(s)
      /\ \A i : i # s => B(i) = A(i)
  BY <1>1 DEF Adding, Types
<1>3. \A i \in Severity : IsFiniteSet(A(i)) /\ Cardinality(A(i)) \in Nat
  BY FS_CardinalityType DEF CountInv
<1>4. IsFiniteSet(B(s)) /\ Cardinality(B(s)) = Cardinality(A(s)) + 1
  BY <1>1, <1>2, <1>3, AddOne
<1>5. /\ stderr'[s] = stderr[s] + 1 /\ \A i \in Severity : stderr[i] \in Nat
      /\ \A i \in Severity : raw_num_messages_[i] \in Nat
      /\ \A i \in Severity : i # s => stderr'[i] = stderr[i]
  BY <1>1 DEF Types
<1>6. \A i \in Severity :
        /\ IsFiniteSet(B(i))
        /\ stderr'[i] - Cardinality(B(i)) = stderr[i] - Cardinality(A(i))
        /\ Cardinality(B(i)) \in Nat /\ stderr'[i] \in Nat
  <2> SUFFICES ASSUME NEW i \in Severity
               PROVE  /\ IsFiniteSet(B(i))
                      /\ stderr'[i] - Cardinality(B(i))
                           = stderr[i] - Cardinality(A(i))
                      /\ Cardinality(B(i)) \in Nat /\ stderr'[i] \in Nat
    OBVIOUS
  <2>1. Cardinality(A(i)) \in Nat /\ stderr[i] \in Nat /\ IsFiniteSet(A(i))
    BY <1>3, <1>5
  <2> HIDE DEF A, B, s
  <2>2. CASE i = s
    BY <1>4, <1>5, <2>1, <2>2
  <2>3. CASE i # s
    <3>1. B(i) = A(i) /\ stderr'[i] = stderr[i]
      BY <1>2, <1>5, <2>3
    <3> QED
      BY <2>1, <3>1
  <2> QED
    BY <2>2, <2>3
<1>7. \A u \in Thread : pc'[u] = "counted" =>
        u # t /\ pc[u] = "counted" /\ sev[u] \in Severity /\ reg[u] \in Nat
  BY <1>1 DEF Types, Places, RawPC
<1>8. \A i \in Severity :
        /\ raw_num_messages_[i] + Cardinality(A(i)) <= stderr[i]
        /\ ~counted => raw_num_messages_[i] + Cardinality(A(i)) = stderr[i]
  BY DEF CountInv
<1>9. \A u \in Thread : pc[u] = "counted" =>
        /\ reg[u] + Cardinality(A(sev[u])) <= stderr[sev[u]]
        /\ ~counted => reg[u] = raw_num_messages_[sev[u]]
  BY DEF CountInv
<1> HIDE DEF A, B, s
<1>10. \A i \in Severity :
         /\ IsFiniteSet(B(i))
         /\ raw_num_messages_[i] + Cardinality(B(i)) <= stderr'[i]
         /\ ~counted => raw_num_messages_[i] + Cardinality(B(i)) = stderr'[i]
  BY <1>3, <1>5, <1>6, <1>8
<1>11. \A u \in Thread : pc'[u] = "counted" =>
         /\ reg[u] + Cardinality(B(sev[u])) <= stderr'[sev[u]]
         /\ ~counted => reg[u] = raw_num_messages_[sev[u]]
  BY <1>3, <1>5, <1>6, <1>7, <1>9
<1>12. ~counted => \A x, u \in Thread :
         pc'[x] = "counted" /\ pc'[u] = "counted" => x = u
  BY <1>7 DEF CountInv
<1> QED
  BY <1>1, <1>10, <1>11, <1>12 DEF CountInv, B

\* The count is loaded.
LEMMA CountLoaded ==
  ASSUME CountInv, Types, Places, NEW t \in Thread, LoadCount(t)
  PROVE  CountInv'
<1>1. /\ sev[t] \in Severity /\ pc[t] = "count"
      /\ pc' = [pc EXCEPT ![t] = "counted"]
      /\ reg' = [reg EXCEPT ![t] = raw_num_messages_[sev[t]]]
      /\ counted' = (counted \/ \E u \in Thread \ {t} : pc[u] = "counted")
      /\ UNCHANGED <<sev, stderr, raw_num_messages_>>
  BY DEF LoadCount, Loads, locals, At, Goto, Places, RawPC
<1>2. \A i : Adding(i)' = Adding(i)
  BY <1>1 DEF Adding, Types
<1>3. \A u \in Thread : pc'[u] = "counted" =>
        \/ u = t /\ reg'[u] = raw_num_messages_[sev[u]]
        \/ u # t /\ pc[u] = "counted" /\ reg'[u] = reg[u]
  BY <1>1 DEF Types
<1>4. ~counted' => ~counted /\ \A u \in Thread : pc'[u] = "counted" => u = t
  BY <1>1, <1>3
<1> QED
  BY <1>1, <1>2, <1>3, <1>4 DEF CountInv

\* The count is stored, which forgets what others stored since.
LEMMA CountStored ==
  ASSUME CountInv, Types, Places, NEW t \in Thread, StoreCount(t)
  PROVE  CountInv'
<1> DEFINE s == sev[t]
           A(i) == Adding(i)
           B(i) == Adding(i)'
           raw == raw_num_messages_
<1>1. /\ s \in Severity /\ pc[t] = "counted"
      /\ pc' = [pc EXCEPT ![t] = IF s = FATAL THEN "crashed" ELSE "idle"]
      /\ raw' = [raw EXCEPT ![s] = reg[t] + 1]
      /\ UNCHANGED <<sev, reg, stderr, counted>>
  BY DEF StoreCount, AfterCount, locals, At, Goto, Places, RawPC
<1>2. /\ B(s) = A(s) \ {t} /\ t \in A(s)
      /\ \A i : i # s => B(i) = A(i)
  BY <1>1 DEF Adding, Types
<1>3. \A i \in Severity : IsFiniteSet(A(i)) /\ Cardinality(A(i)) \in Nat
  BY FS_CardinalityType DEF CountInv
<1>4. /\ IsFiniteSet(B(s)) /\ Cardinality(B(s)) = Cardinality(A(s)) - 1
      /\ Cardinality(B(s)) \in Nat
  BY <1>1, <1>2, <1>3, RemoveOne
<1>5. /\ \A i \in Severity : stderr[i] \in Nat /\ raw[i] \in Nat
      /\ raw'[s] = reg[t] + 1 /\ reg[t] \in Nat
      /\ \A i \in Severity : i # s => raw'[i] = raw[i]
  BY <1>1 DEF Types
<1>6. \A i \in Severity :
        /\ IsFiniteSet(B(i)) /\ Cardinality(B(i)) \in Nat
        /\ Cardinality(B(i)) <= Cardinality(A(i))
  <2> SUFFICES ASSUME NEW i \in Severity
               PROVE  /\ IsFiniteSet(B(i)) /\ Cardinality(B(i)) \in Nat
                      /\ Cardinality(B(i)) <= Cardinality(A(i))
    OBVIOUS
  <2>1. Cardinality(A(i)) \in Nat /\ IsFiniteSet(A(i))
    BY <1>3
  <2> HIDE DEF A, B, s
  <2>2. CASE i = s
    BY <1>4, <2>1, <2>2
  <2>3. CASE i # s
    <3>1. B(i) = A(i)
      BY <1>2, <2>3
    <3> QED
      BY <2>1, <3>1
  <2> QED
    BY <2>2, <2>3
<1>7. \A u \in Thread : pc'[u] = "counted" =>
        u # t /\ pc[u] = "counted" /\ sev[u] \in Severity /\ reg[u] \in Nat
  BY <1>1 DEF Types, Places, RawPC
<1>8. \A i \in Severity :
        /\ raw[i] + Cardinality(A(i)) <= stderr[i]
        /\ ~counted => raw[i] + Cardinality(A(i)) = stderr[i]
  BY DEF CountInv
<1>9. \A u \in Thread : pc[u] = "counted" =>
        /\ reg[u] + Cardinality(A(sev[u])) <= stderr[sev[u]]
        /\ ~counted => reg[u] = raw[sev[u]]
  BY DEF CountInv
<1>10. ~counted => \A u \in Thread : pc'[u] # "counted"
  BY <1>1, <1>7 DEF CountInv
<1> HIDE DEF A, B
<1>11. raw'[s] + Cardinality(B(s)) <= stderr[s]
       /\ (~counted => raw'[s] + Cardinality(B(s)) = stderr[s])
  BY <1>1, <1>3, <1>4, <1>5, <1>8, <1>9
<1> HIDE DEF s
<1>12. \A i \in Severity :
         /\ IsFiniteSet(B(i))
         /\ raw'[i] + Cardinality(B(i)) <= stderr[i]
         /\ ~counted => raw'[i] + Cardinality(B(i)) = stderr[i]
  BY <1>2, <1>5, <1>6, <1>8, <1>11
<1>13. \A u \in Thread : pc'[u] = "counted" =>
         reg[u] + Cardinality(B(sev[u])) <= stderr[sev[u]]
  BY <1>3, <1>5, <1>6, <1>7, <1>9
<1> QED
  BY <1>1, <1>10, <1>12, <1>13 DEF CountInv, B

\* The counter of the first statements, and the calls that were let through.
Passing == {t \in Thread : pc[t] \in {"load", "store"}}
Called == {t \in Thread : pc[t] \in {"test", "load", "store"}}

\* A counter n that the threads of S are about to add to, or not, is with all
\* of them no more than m.
Races(S, n, m) ==
  /\ IsFiniteSet(S) /\ n + Cardinality(S) <= m
  /\ \A t \in Thread : pc[t] = "store" => reg[t] + Cardinality(S) <= m

\* Each call that was begun, and each that was let through, counts once at
\* most, also those that have not counted yet.
OccurInv == Races(Called, occurrences, Len(calls))
FirstInv ==
  statement \in Site /\ statement.kind = "first" =>
    /\ Races(Passing, occurrences, passed)
    /\ refused > 0 => passed >= statement.n

\* A thread joins those that will count.
LEMMA RacesJoined ==
  ASSUME Types, NEW S, NEW T, NEW n \in Nat, NEW m \in Nat, NEW t \in Thread,
         Races(S, n, m), t \notin S, T = S \cup {t}, pc'[t] # "store",
         \A u \in Thread \ {t} : pc'[u] = pc[u], reg' = reg
  PROVE  /\ IsFiniteSet(T) /\ n + Cardinality(T) <= m + 1
         /\ \A u \in Thread :
              pc'[u] = "store" => reg'[u] + Cardinality(T) <= m + 1
<1> DEFINE c == Cardinality(S)
           d == Cardinality(T)
<1>1. IsFiniteSet(T) /\ d = c + 1 /\ c \in Nat
  BY AddOne DEF Races
<1>2. n + c <= m /\ \A u \in Thread : pc[u] = "store" => reg[u] + c <= m
  BY DEF Races
<1>3. \A u \in Thread : reg[u] \in Nat
  BY DEF Types
<1>4. \A u \in Thread : pc'[u] = "store" => pc[u] = "store" /\ reg'[u] = reg[u]
  OBVIOUS
<1> HIDE DEF c, d
<1>5. n + d <= m + 1
  BY <1>1, <1>2
<1>6. \A u \in Thread : pc'[u] = "store" => reg'[u] + d <= m + 1
  BY <1>1, <1>2, <1>3, <1>4
<1> QED
  BY <1>1, <1>5, <1>6 DEF d

\* A thread loads the counter.
LEMMA RacesLoaded ==
  ASSUME NEW S, NEW n, NEW m, NEW t \in Thread, Races(S, n, m),
         \A u \in Thread : \/ pc'[u] # "store"
                           \/ pc[u] = "store" /\ reg'[u] = reg[u]
                           \/ reg'[u] = n
  PROVE  \A u \in Thread : pc'[u] = "store" => reg'[u] + Cardinality(S) <= m
BY DEF Races

\* A thread stores what it loaded and one more.
LEMMA RacesStored ==
  ASSUME Types, NEW S, NEW T, NEW n \in Nat, NEW m \in Nat, NEW t \in Thread,
         Races(S, n, m), t \in S, T = S \ {t}, pc[t] = "store",
         \A u \in Thread : pc'[u] = "store" => pc[u] = "store", reg' = reg
  PROVE  /\ IsFiniteSet(T) /\ reg[t] + 1 + Cardinality(T) <= m
         /\ \A u \in Thread :
              pc'[u] = "store" => reg'[u] + Cardinality(T) <= m
<1> DEFINE c == Cardinality(S)
           d == Cardinality(T)
<1>1. IsFiniteSet(T) /\ d = c - 1 /\ c \in Nat /\ d \in Nat
  BY RemoveOne DEF Races
<1>2. \A u \in Thread : pc[u] = "store" => reg[u] + c <= m
  BY DEF Races
<1>3. \A u \in Thread : reg[u] \in Nat
  BY DEF Types
<1> HIDE DEF c, d
<1>4. reg[t] + 1 + d <= m
  BY <1>1, <1>2, <1>3
<1>5. \A u \in Thread : pc'[u] = "store" => reg'[u] + d <= m
  BY <1>1, <1>2, <1>3
<1> QED
  BY <1>1, <1>4, <1>5 DEF d

\* A thread leaves without having counted.
LEMMA RacesLeft ==
  ASSUME Types, NEW S, NEW T, NEW n \in Nat, NEW m \in Nat, NEW t \in Thread,
         Races(S, n, m), t \in S, T = S \ {t},
         \A u \in Thread : pc'[u] = "store" => pc[u] = "store", reg' = reg
  PROVE  /\ IsFiniteSet(T) /\ n + Cardinality(T) <= m
         /\ \A u \in Thread :
              pc'[u] = "store" => reg'[u] + Cardinality(T) <= m
<1> DEFINE c == Cardinality(S)
           d == Cardinality(T)
<1>1. IsFiniteSet(T) /\ d = c - 1 /\ c \in Nat /\ d \in Nat
  BY RemoveOne DEF Races
<1>2. n + c <= m /\ \A u \in Thread : pc[u] = "store" => reg[u] + c <= m
  BY DEF Races
<1>3. \A u \in Thread : reg[u] \in Nat
  BY DEF Types
<1> HIDE DEF c, d
<1>4. n + d <= m
  BY <1>1, <1>2
<1>5. \A u \in Thread : pc'[u] = "store" => reg'[u] + d <= m
  BY <1>1, <1>2, <1>3
<1> QED
  BY <1>1, <1>4, <1>5 DEF d

\* What does not count leaves the invariants.
LEMMA OccurAside ==
  ASSUME OccurInv, FirstInv, Types, NEW t \in Thread,
         UNCHANGED <<occurrences, calls, passed, refused, statement>>,
         pc[t] \notin {"test", "load", "store"},
         pc'[t] \notin {"test", "load", "store"},
         \A u \in Thread \ {t} : pc'[u] = pc[u] /\ reg'[u] = reg[u]
  PROVE  OccurInv' /\ FirstInv'
<1>1. Called' = Called /\ Passing' = Passing
  BY DEF Called, Passing
<1>2. \A u \in Thread : pc'[u] = "store" => pc[u] = "store" /\ reg'[u] = reg[u]
  OBVIOUS
<1> QED
  BY <1>1, <1>2 DEF OccurInv, FirstInv, Races

\* A call begins.
LEMMA OccurBegun ==
  ASSUME OccurInv, FirstInv, TypeInv, NEW t \in Thread, Occasional(t)
  PROVE  OccurInv' /\ FirstInv'
<1> USE DEF TypeInv, Types
<1>1. PICK c \in BOOLEAN :
        /\ pc[t] = "idle" /\ calls' = Append(calls, c)
        /\ pc' = [pc EXCEPT ![t] =
                    IF statement.kind = "first" THEN "test" ELSE "load"]
        /\ UNCHANGED <<statement, reg, occurrences, passed, refused>>
  BY DEF Occasional, Begin, At, Goto
<1>2. Len(calls) \in Nat /\ Len(calls') = Len(calls) + 1
  BY <1>1
<1>3. /\ Called' = Called \cup {t} /\ t \notin Called
      /\ pc'[t] # "store" /\ \A u \in Thread \ {t} : pc'[u] = pc[u]
  BY <1>1 DEF Called
<1>4. OccurInv'
  <2>1. Races(Called, occurrences, Len(calls))
    BY DEF OccurInv
  <2>2. /\ IsFiniteSet(Called')
        /\ occurrences + Cardinality(Called') <= Len(calls) + 1
        /\ \A u \in Thread : pc'[u] = "store" =>
             reg'[u] + Cardinality(Called') <= Len(calls) + 1
    BY <1>1, <1>2, <1>3, <2>1, RacesJoined
  <2> QED
    BY <1>1, <1>2, <2>2 DEF OccurInv, Races
<1>5. FirstInv'
  <2> SUFFICES ASSUME statement.kind = "first", statement \in Site
               PROVE  FirstInv'
    BY <1>1 DEF FirstInv
  <2>1. Passing' = Passing
    BY <1>1 DEF Passing
  <2>2. \A u \in Thread : pc'[u] = "store" => pc[u] = "store"
    BY <1>1
  <2> QED
    BY <1>1, <2>1, <2>2 DEF FirstInv, Races
<1> QED
  BY <1>4, <1>5

\* A call of LOG_FIRST_N is let through, or refused.
LEMMA OccurTested ==
  ASSUME OccurInv, FirstInv, TypeInv, NEW t \in Thread, TestOccurrences(t),
         StatementsAssumption
  PROVE  OccurInv' /\ FirstInv'
<1> USE DEF TypeInv, Types
<1>1. /\ pc[t] = "test"
      /\ UNCHANGED <<statement, reg, occurrences, calls>>
  BY DEF TestOccurrences, At, locals
<1>2. Len(calls) \in Nat
  OBVIOUS
<1>3. CASE occurrences < statement.n
  <2>1. /\ pc' = [pc EXCEPT ![t] = "load"] /\ passed' = passed + 1
        /\ refused' = refused
    BY <1>3 DEF TestOccurrences, Decide, Goto
  <2>2. /\ Called' = Called
        /\ Passing' = Passing \cup {t} /\ t \notin Passing
        /\ pc'[t] # "store" /\ \A u \in Thread \ {t} : pc'[u] = pc[u]
        /\ \A u \in Thread : pc'[u] = "store" => pc[u] = "store"
    BY <1>1, <2>1 DEF Called, Passing
  <2>3. OccurInv'
    BY <1>1, <2>2 DEF OccurInv, Races
  <2>4. FirstInv'
    <3> SUFFICES ASSUME statement.kind = "first", statement \in Site
                 PROVE  FirstInv'
      BY <1>1 DEF FirstInv
    <3>1. Races(Passing, occurrences, passed)
      BY DEF FirstInv
    <3>2. /\ IsFiniteSet(Passing')
          /\ occurrences + Cardinality(Passing') <= passed + 1
          /\ \A u \in Thread : pc'[u] = "store" =>
               reg'[u] + Cardinality(Passing') <= passed + 1
      BY <1>1, <2>2, <3>1, RacesJoined
    <3>3. refused' > 0 => passed' >= statement.n
      <4>1. statement.n \in Int
        BY DEF StatementsAssumption
      <4> QED
        BY SMTT(60), <2>1, <4>1 DEF FirstInv
    <3> QED
      BY <1>1, <2>1, <3>2, <3>3 DEF FirstInv, Races
  <2> QED
    BY <2>3, <2>4
<1>4. CASE ~(occurrences < statement.n)
  <2>1. /\ pc' = [pc EXCEPT ![t] = "idle"] /\ passed' = passed
        /\ refused' = refused + 1
    BY <1>4 DEF TestOccurrences, Decide, Goto
  <2>2. /\ Called' = Called \ {t} /\ t \in Called
        /\ Passing' = Passing
        /\ \A u \in Thread : pc'[u] = "store" => pc[u] = "store"
    BY <1>1, <2>1 DEF Called, Passing
  <2>3. OccurInv'
    BY <1>1, <1>2, <2>2, RacesLeft DEF OccurInv, Races
  <2>4. FirstInv'
    <3> SUFFICES ASSUME statement.kind = "first", statement \in Site
                 PROVE  FirstInv'
      BY <1>1 DEF FirstInv
    <3>1. Races(Passing, occurrences, passed)
      BY DEF FirstInv
    <3>2. passed >= statement.n
      <4>1. statement.n \in Int
        BY DEF StatementsAssumption
      <4>2. occurrences + Cardinality(Passing) <= passed
            /\ Cardinality(Passing) \in Nat
        BY <3>1, FS_CardinalityType DEF Races
      <4> QED
        BY SMTT(60), <1>4, <4>1, <4>2
    <3> QED
      BY <1>1, <2>1, <2>2, <3>1, <3>2 DEF FirstInv, Races
  <2> QED
    BY <2>3, <2>4
<1> QED
  BY <1>3, <1>4

\* The counter is loaded.
LEMMA OccurLoaded ==
  ASSUME OccurInv, FirstInv, TypeInv, NEW t \in Thread, LoadOccurrences(t)
  PROVE  OccurInv' /\ FirstInv'
<1> USE DEF TypeInv, Types
<1>1. /\ pc[t] = "load" /\ pc' = [pc EXCEPT ![t] = "store"]
      /\ reg' = [reg EXCEPT ![t] = occurrences]
      /\ UNCHANGED <<statement, occurrences, calls, passed, refused>>
  BY DEF LoadOccurrences, At, Goto, Loads, locals, siteVars
<1>2. Called' = Called /\ Passing' = Passing
  BY <1>1 DEF Called, Passing
<1>3. \A u \in Thread : \/ pc'[u] # "store"
                        \/ pc[u] = "store" /\ reg'[u] = reg[u]
                        \/ reg'[u] = occurrences
  BY <1>1
<1>4. OccurInv'
  BY <1>1, <1>2, <1>3, RacesLoaded DEF OccurInv, Races
<1>5. FirstInv'
  BY <1>1, <1>2, <1>3, RacesLoaded DEF FirstInv, Races
<1> QED
  BY <1>4, <1>5

\* The counter is stored.
LEMMA OccurStored ==
  ASSUME OccurInv, FirstInv, TypeInv, NEW t \in Thread, StoreOccurrences(t)
  PROVE  OccurInv' /\ FirstInv'
<1> USE DEF TypeInv, Types
<1>1. PICK to \in {"LogMessage", "modulo", "idle"} :
        pc' = [pc EXCEPT ![t] = to]
  BY DEF StoreOccurrences, Decide, Goto
<1>2. /\ pc[t] = "store" /\ occurrences' = reg[t] + 1
      /\ UNCHANGED <<statement, reg, calls>>
      /\ statement.kind = "first" => UNCHANGED <<passed, refused>>
  BY DEF StoreOccurrences, At, locals
<1>3. /\ Called' = Called \ {t} /\ t \in Called
      /\ Passing' = Passing \ {t} /\ t \in Passing
      /\ \A u \in Thread : pc'[u] = "store" => pc[u] = "store"
  BY <1>1, <1>2 DEF Called, Passing
<1>4. Len(calls) \in Nat
  OBVIOUS
<1>5. OccurInv'
  BY <1>2, <1>3, <1>4, RacesStored DEF OccurInv, Races
<1>6. FirstInv'
  <2> SUFFICES ASSUME statement.kind = "first", statement \in Site
               PROVE  FirstInv'
    BY <1>2 DEF FirstInv
  <2>1. Races(Passing, occurrences, passed)
        /\ (refused > 0 => passed >= statement.n)
    BY DEF FirstInv
  <2>2. /\ IsFiniteSet(Passing')
        /\ reg[t] + 1 + Cardinality(Passing') <= passed
        /\ \A u \in Thread : pc'[u] = "store" =>
             reg'[u] + Cardinality(Passing') <= passed
    BY <1>2, <1>3, <2>1, RacesStored
  <2> QED
    BY <1>2, <2>1, <2>2 DEF FirstInv, Races
<1> QED
  BY <1>5, <1>6

-----------------------------------------------------------------------------
(* The election of the first crash.                                        *)

\* While no two messages met in the election there is one winner, which fills
\* the reason on its way from "set" to "SetCrashReason".
Electing == {"set", "reason", "memcpy"}
ReasonInv ==
  ~raced =>
    /\ winners = <<>> =>
         /\ ~crashed /\ \A t \in Thread : pc[t] \notin Electing
         /\ crash_reason = [where |-> NoOne, message |-> NoOne]
    /\ winners # <<>> =>
         /\ \A t \in Thread : pc[t] \in Electing => Id(t) = winners[1]
         /\ crashed \/ \E t \in Thread : pc[t] = "set"
         /\ crash_reason.where =
              IF \E t \in Thread : pc[t] \in {"set", "reason"} THEN NoOne
              ELSE winners[1]
         /\ crash_reason.message =
              IF \E t \in Thread : pc[t] \in Electing THEN NoOne
              ELSE winners[1]

\* A reason is handed over, or about to be, when nobody fills it any more.
HandedInv ==
  (/\ ~raced
   /\ g_reason # NoOne \/ \E t \in Thread : pc[t] = "SetCrashReason")
    => winners # <<>> /\ \A t \in Thread : pc[t] \notin Electing

\* What does not elect leaves the invariant.
LEMMA ReasonAside ==
  ASSUME ReasonInv, Types, NEW t \in Thread,
         UNCHANGED <<crashed, crash_reason, winners, raced>>,
         pc[t] \notin Electing, pc'[t] \notin Electing,
         \A u \in Thread \ {t} : pc'[u] = pc[u] /\ ops'[u] = ops[u]
  PROVE  ReasonInv'
<1>1. \A u \in Thread : \/ pc'[u] = pc[u] /\ Id(u)' = Id(u)
                        \/ pc[u] \notin Electing /\ pc'[u] \notin Electing
  BY DEF Id
<1>2. {"set", "reason"} \subseteq Electing /\ "set" \in Electing
  BY DEF Electing
<1>3. (\E u \in Thread : pc'[u] \in {"set", "reason"})
        = (\E u \in Thread : pc[u] \in {"set", "reason"})
  BY <1>1, <1>2
<1>4. (\E u \in Thread : pc'[u] \in Electing)
        = (\E u \in Thread : pc[u] \in Electing)
  BY <1>1
<1>5. (\E u \in Thread : pc[u] = "set") => \E u \in Thread : pc'[u] = "set"
  BY <1>1, <1>2
<1>6. \A u \in Thread : pc'[u] \in Electing =>
        pc[u] \in Electing /\ Id(u)' = Id(u)
  BY <1>1
<1> QED
  BY <1>3, <1>4, <1>5, <1>6 DEF ReasonInv

\* A message finds crashed FALSE and wins, or goes on.
LEMMA ReasonLoaded ==
  ASSUME ReasonInv, Types, NEW t \in Thread, LoadCrashed(t)
  PROVE  ReasonInv'
<1>1. /\ pc[t] = "crashed"
      /\ pc' = [pc EXCEPT ![t] = IF ~crashed THEN "set" ELSE "Crash"]
      /\ winners' = IF ~crashed THEN Append(winners, Id(t)) ELSE winners
      /\ raced' = (raced \/ \E u \in Thread \ {t} : pc[u] = "set")
      /\ UNCHANGED <<ops, crashed, crash_reason>>
  BY DEF LoadCrashed, Won, At, Goto, locals
<1> SUFFICES ASSUME ~raced'
             PROVE  ReasonInv'
  BY DEF ReasonInv
<1>2. ~raced /\ \A u \in Thread : pc[u] # "set"
  BY <1>1
<1>3. \A u \in Thread : Id(u)' = Id(u)
  BY <1>1 DEF Id
<1>4. CASE crashed
  <2>1. winners' = winners /\ winners # <<>>
    BY <1>1, <1>2, <1>4 DEF ReasonInv
  <2>2. \A u \in Thread : \/ pc'[u] = pc[u]
                          \/ pc[u] \notin Electing /\ pc'[u] \notin Electing
    BY <1>1, <1>4 DEF Electing, Types
  <2>3. {"set", "reason"} \subseteq Electing
    BY DEF Electing
  <2>4. (\E u \in Thread : pc'[u] \in {"set", "reason"})
          = (\E u \in Thread : pc[u] \in {"set", "reason"})
    BY <2>2, <2>3
  <2>5. (\E u \in Thread : pc'[u] \in Electing)
          = (\E u \in Thread : pc[u] \in Electing)
    BY <2>2
  <2>6. \A u \in Thread : pc'[u] \in Electing => pc[u] \in Electing
    BY <2>2
  <2> QED
    BY <1>1, <1>2, <1>3, <1>4, <2>1, <2>4, <2>5, <2>6 DEF ReasonInv
<1>5. CASE ~crashed
  <2>1. winners = <<>>
    BY <1>2, <1>5 DEF ReasonInv
  <2>2. /\ crash_reason = [where |-> NoOne, message |-> NoOne]
        /\ \A u \in Thread : pc[u] \notin Electing
    BY <1>2, <2>1 DEF ReasonInv
  <2>3. winners' = <<Id(t)>> /\ winners' # <<>> /\ winners'[1] = Id(t)
    BY <1>1, <1>5, <2>1
  <2>4. /\ pc'[t] = "set" /\ pc'[t] \in {"set", "reason"}
        /\ pc'[t] \in Electing
        /\ \A u \in Thread : pc'[u] \in Electing => u = t
    BY <1>1, <1>5, <2>2 DEF Electing, Types
  <2> QED
    BY <1>1, <1>3, <2>2, <2>3, <2>4 DEF ReasonInv
<1> QED
  BY <1>4, <1>5

\* The winner goes on.
LEMMA ReasonFilled ==
  ASSUME ReasonInv, Types, NEW t \in Thread,
         StoreCrashed(t) \/ FillReason(t) \/ CopyMessage(t)
  PROVE  ReasonInv'
<1> SUFFICES ASSUME ~raced
             PROVE  ReasonInv'
  BY DEF ReasonInv, StoreCrashed, FillReason, CopyMessage, RawFatal
<1>1. /\ pc[t] \in Electing /\ UNCHANGED <<ops, winners, raced>>
      /\ \A u \in Thread \ {t} : pc'[u] = pc[u]
  BY DEF StoreCrashed, FillReason, CopyMessage, RawFatal, At, Goto, locals,
         Electing, Types
<1>2. /\ winners # <<>> /\ Id(t) = winners[1]
      /\ \A u \in Thread : pc[u] \in Electing => Id(u) = winners[1]
  BY <1>1 DEF ReasonInv
<1>3. \A u \in Thread : pc[u] \in Electing => u = t
  BY <1>2 DEF Id
<1>4. \A u \in Thread : Id(u)' = Id(u)
  BY <1>1 DEF Id
<1>5. \A u \in Thread : u # t => pc'[u] \notin Electing
  BY <1>1, <1>3
<1>6. CASE StoreCrashed(t)
  <2>1. /\ pc[t] = "set" /\ pc'[t] = "reason" /\ crashed' = TRUE
        /\ UNCHANGED crash_reason
    BY <1>6 DEF StoreCrashed, RawFatal, At, Goto, Types
  <2>2. crash_reason.where = NoOne /\ crash_reason.message = NoOne
    BY <1>2, <2>1 DEF ReasonInv, Electing
  <2>3. pc'[t] \in {"set", "reason"} /\ pc'[t] \in Electing
    BY <2>1 DEF Electing
  <2> QED
    BY <1>1, <1>2, <1>4, <1>5, <2>1, <2>2, <2>3 DEF ReasonInv
<1>7. CASE FillReason(t)
  <2>1. /\ pc[t] = "reason" /\ pc'[t] = "memcpy" /\ UNCHANGED crashed
        /\ crash_reason' = [crash_reason EXCEPT !.where = Id(t)]
    BY <1>7 DEF FillReason, RawFatal, At, Goto, Types
  <2>2. crash_reason.message = NoOne
    BY <1>2, <2>1 DEF ReasonInv, Electing
  <2>3. crashed
    BY <1>2, <1>3, <2>1 DEF ReasonInv, Electing
  <2>4. crash_reason'.where = Id(t) /\ crash_reason'.message = NoOne
    BY <2>1, <2>2 DEF Types
  <2>5. /\ pc'[t] \in Electing
        /\ \A u \in Thread : pc'[u] \notin {"set", "reason"}
    BY <1>5, <2>1 DEF Electing
  <2> QED
    BY <1>1, <1>2, <1>4, <1>5, <2>1, <2>3, <2>4, <2>5 DEF ReasonInv
<1>8. CASE CopyMessage(t)
  <2>1. /\ pc[t] = "memcpy" /\ pc'[t] = "SetCrashReason" /\ UNCHANGED crashed
        /\ crash_reason' = [crash_reason EXCEPT !.message = Id(t)]
    BY <1>8 DEF CopyMessage, RawFatal, At, Goto, Types
  <2>2. \A u \in Thread : pc[u] \notin {"set", "reason"}
    BY <1>3, <2>1 DEF Electing
  <2>3. crashed /\ crash_reason.where = winners[1]
    BY <1>2, <2>2 DEF ReasonInv
  <2>4. crash_reason'.where = winners[1] /\ crash_reason'.message = winners[1]
    BY <1>2, <2>1, <2>3 DEF Types
  <2>5. \A u \in Thread : pc'[u] \notin Electing
    BY <1>5, <2>1 DEF Electing
  <2>6. \A u \in Thread : pc'[u] \notin {"set", "reason"}
    BY <2>5 DEF Electing
  <2> QED
    BY <1>1, <1>2, <2>1, <2>3, <2>4, <2>5, <2>6 DEF ReasonInv
<1> QED
  BY <1>6, <1>7, <1>8

\* What goes on outside of the election, and hands nothing over.
LEMMA HandedAside ==
  ASSUME HandedInv, Types, NEW t \in Thread,
         UNCHANGED <<g_reason, winners, raced>>,
         pc'[t] \notin Electing \cup {"SetCrashReason"},
         \A u \in Thread \ {t} : pc'[u] = pc[u]
  PROVE  HandedInv'
<1>1. \A u \in Thread : pc'[u] = pc[u] \/ pc'[u] \notin Electing
  OBVIOUS
<1>2. (\E u \in Thread : pc'[u] = "SetCrashReason")
        => \E u \in Thread : pc[u] = "SetCrashReason"
  OBVIOUS
<1> QED
  BY <1>1, <1>2 DEF HandedInv

\* The steps of the election.
LEMMA HandedElecting ==
  ASSUME ReasonInv, HandedInv, Types, NEW t \in Thread,
         \/ LoadCrashed(t) \/ StoreCrashed(t) \/ FillReason(t)
         \/ CopyMessage(t) \/ SetCrashReason(t)
  PROVE  HandedInv'
<1> SUFFICES ASSUME ~raced'
             PROVE  HandedInv'
  BY DEF HandedInv
<1>1. CASE LoadCrashed(t)
  <2>1. /\ pc' = [pc EXCEPT ![t] = IF ~crashed THEN "set" ELSE "Crash"]
        /\ winners' = IF ~crashed THEN Append(winners, Id(t)) ELSE winners
        /\ ~raced /\ \A u \in Thread \ {t} : pc[u] # "set"
        /\ pc[t] = "crashed" /\ UNCHANGED g_reason
    BY <1>1 DEF LoadCrashed, Won, At, Goto
  <2>2. CASE crashed
    <3>1. \A u \in Thread : \/ pc'[u] = pc[u]
                            \/ pc'[u] \notin Electing \cup {"SetCrashReason"}
      BY <2>1, <2>2 DEF Types, Electing
    <3>2. winners' = winners
      BY <2>1, <2>2
    <3> QED
      BY <2>1, <3>1, <3>2 DEF HandedInv
  <2>3. CASE ~crashed
    <3>1. winners = <<>>
      BY <2>1, <2>3 DEF ReasonInv
    <3>2. /\ g_reason = NoOne
          /\ \A u \in Thread : pc[u] # "SetCrashReason"
      BY <2>1, <3>1 DEF HandedInv
    <3>3. \A u \in Thread : pc'[u] # "SetCrashReason"
      BY <2>1, <2>3, <3>2 DEF Types
    <3> QED
      BY <2>1, <3>2, <3>3 DEF HandedInv
  <2> QED
    BY <2>2, <2>3
<1>2. CASE StoreCrashed(t) \/ FillReason(t)
  <2>1. /\ pc[t] \in Electing /\ pc'[t] # "SetCrashReason"
        /\ \A u \in Thread \ {t} : pc'[u] = pc[u]
        /\ ~raced /\ UNCHANGED g_reason
    BY <1>2
    DEF StoreCrashed, FillReason, RawFatal, At, Goto, Types, Electing
  <2>2. g_reason = NoOne /\ \A u \in Thread : pc'[u] # "SetCrashReason"
    BY <2>1 DEF HandedInv
  <2> QED
    BY <2>1, <2>2 DEF HandedInv
<1>3. CASE CopyMessage(t)
  <2>1. /\ pc[t] \in Electing /\ pc'[t] \notin Electing
        /\ \A u \in Thread \ {t} : pc'[u] = pc[u]
        /\ ~raced /\ UNCHANGED winners
    BY <1>3 DEF CopyMessage, RawFatal, At, Goto, Types, Electing
  <2>2. /\ winners # <<>>
        /\ \A u \in Thread : pc[u] \in Electing => Id(u) = Id(t)
    BY <2>1 DEF ReasonInv
  <2>3. \A u \in Thread : pc[u] \in Electing => u = t
    BY <2>2 DEF Id
  <2> QED
    BY <2>1, <2>2, <2>3 DEF HandedInv
<1>4. CASE SetCrashReason(t)
  <2>1. /\ pc[t] = "SetCrashReason" /\ pc'[t] \notin Electing
        /\ \A u \in Thread \ {t} : pc'[u] = pc[u]
        /\ ~raced /\ UNCHANGED winners
    BY <1>4 DEF SetCrashReason, RawFatal, At, Goto, Types, Electing
  <2> QED
    BY <2>1 DEF HandedInv
<1> QED
  BY <1>1, <1>2, <1>3, <1>4

-----------------------------------------------------------------------------
(* The inductive invariant.                                                *)

StatementsInv ==
  TypeInv /\ CountInv /\ OccurInv /\ FirstInv /\ ReasonInv /\ HandedInv

\* It holds at the start.
LEMMA InitStatements ==
  ASSUME StatementsAssumption, Init
  PROVE  StatementsInv
<1>1. /\ \A t \in Thread : pc[t] = "idle"
      /\ raw_num_messages_ = [i \in Severity |-> 0]
      /\ stderr = [i \in Severity |-> 0] /\ occurrences = 0 /\ passed = 0
      /\ refused = 0 /\ calls = <<>> /\ winners = <<>> /\ crashed = FALSE
      /\ crash_reason = [where |-> NoOne, message |-> NoOne]
  BY DEF Init
<1>2. IsFiniteSet({}) /\ Cardinality({}) = 0
  BY FS_EmptySet
<1>3. (\A i : Adding(i) = {}) /\ Called = {} /\ Passing = {}
  BY <1>1 DEF Adding, Called, Passing
<1>4. \A i \in Severity : raw_num_messages_[i] = 0 /\ stderr[i] = 0
  BY <1>1
<1>5. CountInv
  <2>1. ASSUME NEW i \in Severity
        PROVE  /\ IsFiniteSet(Adding(i))
               /\ raw_num_messages_[i] + Cardinality(Adding(i)) <= stderr[i]
               /\ raw_num_messages_[i] + Cardinality(Adding(i)) = stderr[i]
    <3>1. Adding(i) = {}
      BY <1>3
    <3>2. IsFiniteSet(Adding(i)) /\ Cardinality(Adding(i)) = 0
      BY <1>2, <3>1
    <3>3. raw_num_messages_[i] = 0 /\ stderr[i] = 0
      BY <1>4
    <3> QED
      BY <3>2, <3>3
  <2>2. \A t \in Thread : pc[t] # "counted"
    BY <1>1
  <2> QED
    BY <2>1, <2>2 DEF CountInv
<1>6. Len(calls) = 0
  BY <1>1
<1>7. OccurInv /\ FirstInv
  BY <1>1, <1>2, <1>3, <1>6 DEF OccurInv, FirstInv, Races
<1>8. ReasonInv
  BY <1>1 DEF ReasonInv, Electing
<1>9. HandedInv
  BY <1>1 DEF Init, HandedInv
<1> QED
  BY <1>5, <1>7, <1>8, <1>9, InitTypes DEF StatementsInv

\* A step of RAW_LOG keeps it ...
LEMMA RawStep ==
  ASSUME StatementsAssumption, StatementsInv, NEW t \in Thread,
         \/ RawLog(t) \/ RawLogSuppressed(t)
         \/ SafeWrite(t) \/ LoadCount(t) \/ StoreCount(t)
         \/ LoadCrashed(t) \/ StoreCrashed(t) \/ FillReason(t)
         \/ CopyMessage(t) \/ SetCrashReason(t) \/ Crash(t)
  PROVE  StatementsInv'
<1>1. TypeInv'
  BY RawTypes DEF StatementsInv
<1>2. Types /\ Places
  BY DEF StatementsInv, TypeInv
<1>3. OccurInv' /\ FirstInv'
  <2>1. /\ UNCHANGED <<occurrences, calls, passed, refused, statement>>
        /\ pc[t] \notin {"test", "load", "store"}
        /\ pc'[t] \notin {"test", "load", "store"}
        /\ \A u \in Thread \ {t} : pc'[u] = pc[u] /\ reg'[u] = reg[u]
    BY <1>2
    DEF RawLog, RawLogSuppressed, SafeWrite, LoadCount, StoreCount, AfterCount,
        LoadCrashed, Won, StoreCrashed, FillReason, CopyMessage, SetCrashReason,
        Crash, RawFatal, Begin, At, Goto, Loads, siteVars, locals, Types
  <2> QED
    BY <1>2, <2>1, OccurAside DEF StatementsInv
<1>4. CountInv'
  <2>1. CASE \/ RawLog(t) \/ RawLogSuppressed(t)
             \/ LoadCrashed(t) \/ StoreCrashed(t) \/ FillReason(t)
             \/ CopyMessage(t) \/ SetCrashReason(t) \/ Crash(t)
    <3>1. /\ UNCHANGED <<raw_num_messages_, stderr, counted>>
          /\ pc[t] \notin {"count", "counted"}
          /\ pc'[t] \notin {"count", "counted"}
          /\ \A u \in Thread \ {t} : /\ pc'[u] = pc[u] /\ sev'[u] = sev[u]
                                     /\ reg'[u] = reg[u]
      BY <1>2, <2>1
      DEF RawLog, RawLogSuppressed, LoadCrashed, Won, StoreCrashed, FillReason,
          CopyMessage, SetCrashReason, Crash, RawFatal, Begin, At, Goto,
          rawVars, locals, Types
    <3> QED
      BY <1>2, <3>1, CountAside DEF StatementsInv
  <2> QED
    BY <1>2, <2>1, CountWritten, CountLoaded, CountStored DEF StatementsInv
<1>5. ReasonInv'
  <2>1. CASE \/ RawLog(t) \/ RawLogSuppressed(t)
             \/ SafeWrite(t) \/ LoadCount(t) \/ StoreCount(t)
             \/ SetCrashReason(t) \/ Crash(t)
    <3>1. /\ UNCHANGED <<crashed, crash_reason, winners, raced>>
          /\ pc[t] \notin Electing /\ pc'[t] \notin Electing
          /\ \A u \in Thread \ {t} : pc'[u] = pc[u] /\ ops'[u] = ops[u]
      BY <1>2, <2>1
      DEF RawLog, RawLogSuppressed, SafeWrite, LoadCount, StoreCount, AfterCount,
          SetCrashReason, Crash, RawFatal, Begin, At, Goto, Loads, rawVars,
          locals, Types, Electing
    <3> QED
      BY <1>2, <3>1, ReasonAside DEF StatementsInv
  <2> QED
    BY <1>2, <2>1, ReasonLoaded, ReasonFilled DEF StatementsInv
<1>6. HandedInv'
  <2>1. CASE \/ RawLog(t) \/ RawLogSuppressed(t)
             \/ SafeWrite(t) \/ LoadCount(t) \/ StoreCount(t) \/ Crash(t)
    <3>1. /\ UNCHANGED <<g_reason, winners, raced>>
          /\ pc'[t] \notin Electing \cup {"SetCrashReason"}
          /\ \A u \in Thread \ {t} : pc'[u] = pc[u]
      BY <1>2, <2>1
      DEF RawLog, RawLogSuppressed, SafeWrite, LoadCount, StoreCount, AfterCount,
          Crash, RawFatal, Begin, At, Goto, rawVars, Types, Electing
    <3> QED
      BY <1>2, <3>1, HandedAside DEF StatementsInv
  <2> QED
    BY <1>2, <2>1, HandedElecting DEF StatementsInv
<1> QED
  BY <1>1, <1>3, <1>4, <1>5, <1>6 DEF StatementsInv

\* ... and so does a step of an occasional statement.
LEMMA SiteStep ==
  ASSUME StatementsAssumption, StatementsInv, NEW t \in Thread,
         \/ Occasional(t) \/ TestOccurrences(t) \/ LoadOccurrences(t)
         \/ StoreOccurrences(t) \/ LoadModulo(t) \/ StoreModulo(t)
         \/ LogOccurrence(t)
  PROVE  StatementsInv'
<1>1. TypeInv'
  BY SiteTypes DEF StatementsInv
<1>2. Types /\ Places
  BY DEF StatementsInv, TypeInv
<1>3. /\ UNCHANGED <<raw_num_messages_, stderr, counted, crashed, crash_reason,
                     g_reason, winners, raced>>
      /\ pc[t] \notin {"count", "counted"} \cup Electing
      /\ pc'[t] \notin {"count", "counted", "SetCrashReason"} \cup Electing
      /\ \A u \in Thread \ {t} : /\ pc'[u] = pc[u] /\ sev'[u] = sev[u]
                                 /\ reg'[u] = reg[u] /\ ops'[u] = ops[u]
  <2> USE <1>2 DEF At, Goto, Types, Electing
  <2>1. CASE Occasional(t)
    BY <2>1 DEF Occasional, Begin, rawVars
  <2>2. CASE TestOccurrences(t) \/ LoadOccurrences(t) \/ StoreOccurrences(t)
    BY <2>2
    DEF TestOccurrences, LoadOccurrences, StoreOccurrences, Decide, Loads,
        rawVars, locals
  <2>3. CASE LoadModulo(t) \/ StoreModulo(t) \/ LogOccurrence(t)
    BY <2>3
    DEF LoadModulo, StoreModulo, Compared, LogOccurrence, Loads, rawVars, locals
  <2> QED
    BY <2>1, <2>2, <2>3
<1>4. CountInv' /\ ReasonInv' /\ HandedInv'
  BY <1>2, <1>3, CountAside, ReasonAside, HandedAside DEF StatementsInv
<1>5. OccurInv' /\ FirstInv'
  <2>1. CASE LoadModulo(t) \/ StoreModulo(t) \/ LogOccurrence(t)
    <3>1. /\ UNCHANGED <<occurrences, calls, passed, refused, statement>>
          /\ pc[t] \notin {"test", "load", "store"}
          /\ pc'[t] \notin {"test", "load", "store"}
      BY <1>2, <2>1
      DEF LoadModulo, StoreModulo, Compared, LogOccurrence, At, Goto, Loads,
          siteVars, locals, Types
    <3> QED
      BY <1>2, <1>3, <3>1, OccurAside DEF StatementsInv
  <2> QED
    BY <2>1, OccurBegun, OccurTested, OccurLoaded, OccurStored DEF StatementsInv
<1> QED
  BY <1>1, <1>4, <1>5 DEF StatementsInv

\* Every step keeps it.
LEMMA NextStatements ==
  ASSUME StatementsAssumption, StatementsInv, [Next]_vars
  PROVE  StatementsInv'
<1>1. CASE UNCHANGED vars
  <2>1. TypeInv'
    BY <1>1, NextTypes DEF StatementsInv
  <2>2. /\ \A i : Adding(i)' = Adding(i)
        /\ Called' = Called /\ Passing' = Passing
        /\ \A t : Id(t)' = Id(t)
    BY <1>1 DEF vars, locals, Adding, Called, Passing, Id
  <2>3. CountInv'
    BY <1>1, <2>2 DEF StatementsInv, CountInv, vars, rawVars, locals
  <2>4. OccurInv' /\ FirstInv'
    BY <1>1, <2>2
    DEF StatementsInv, OccurInv, FirstInv, Races, vars, siteVars, locals
  <2>5. ReasonInv' /\ HandedInv'
    BY <1>1, <2>2 DEF StatementsInv, ReasonInv, HandedInv, vars, rawVars
  <2> QED
    BY <2>1, <2>3, <2>4, <2>5 DEF StatementsInv
<1> QED
  BY <1>1, RawStep, SiteStep DEF Next, Step, Stop

\* The invariant holds of any threads, statements, buffers and messages.
THEOREM StatementsInvariance == Spec => []StatementsInv
<1>1. Init => StatementsInv
  BY InitStatements, StatementsAssumption
<1>2. StatementsInv /\ [Next]_vars => StatementsInv'
  BY NextStatements, StatementsAssumption
<1> QED
  BY <1>1, <1>2, PTL DEF Spec

-----------------------------------------------------------------------------
(* The theorems.                                                           *)

\* The variables have their types; LOG_OCCURRENCES is never more than the
\* calls, and LOG_OCCURRENCES_MOD_N below n (logging.h:150-174).
THEOREM StatementsTypeCorrect == Spec => []TypeOK
<1>1. StatementsInv => TypeOK
  <2> SUFFICES ASSUME StatementsInv
               PROVE  TypeOK
    OBVIOUS
  <2>1. occurrences \in 0..Len(calls)
    <3>1. /\ occurrences \in Nat /\ Len(calls) \in Nat
          /\ Cardinality(Called) \in Nat
          /\ occurrences + Cardinality(Called) <= Len(calls)
      BY FS_CardinalityType
      DEF StatementsInv, TypeInv, Types, OccurInv, Races
    <3> QED
      BY <3>1
  <2> QED
    BY <2>1 DEF StatementsInv, TypeInv, Types, ModuloInv, Labels, TypeOK
<1> QED
  BY <1>1, StatementsInvariance, PTL

\* raw_num_messages_ counts every line written, and never more, as long as no
\* two threads add to it at once (raw_logging.cc:152-153).
THEOREM RawLinesCounted == Spec => []CountsRaw
<1>1. StatementsInv => CountsRaw
  <2> SUFFICES ASSUME StatementsInv, NEW i \in Severity
               PROVE  /\ raw_num_messages_[i] <= stderr[i]
                      /\ ~counted => raw_num_messages_[i]
                                       = stderr[i] - Cardinality(Adding(i))
    BY DEF CountsRaw, Adding
  <2>1. /\ raw_num_messages_[i] \in Nat /\ stderr[i] \in Nat
        /\ Cardinality(Adding(i)) \in Nat
        /\ raw_num_messages_[i] + Cardinality(Adding(i)) <= stderr[i]
        /\ ~counted => raw_num_messages_[i] + Cardinality(Adding(i)) = stderr[i]
    BY FS_CardinalityType DEF StatementsInv, TypeInv, Types, CountInv
  <2> QED
    BY <2>1
<1> QED
  BY <1>1, StatementsInvariance, PTL

\* The crash reason is that of the first FATAL message, position and text, and
\* complete when it is handed over, unless two messages met in the election
\* (raw_logging.cc:155-167).
THEOREM FirstReasonStays == Spec => []ReasonOfOne
<1>1. StatementsInv => ReasonOfOne
  <2> DEFINE ofFirst == [where |-> winners[1], message |-> winners[1]]
             still == \A t \in Thread : pc[t] \notin Electing
  <2> SUFFICES ASSUME StatementsInv, ~raced
               PROVE  /\ winners # <<>> =>
                           /\ crash_reason.where \in {NoOne, winners[1]}
                           /\ crash_reason.message \in {NoOne, winners[1]}
                           /\ still => crash_reason = ofFirst
                      /\ g_reason # NoOne =>
                           winners # <<>> /\ crash_reason = ofFirst
    BY DEF ReasonOfOne, Electing
  <2>3. g_reason # NoOne => winners # <<>> /\ still
    BY DEF StatementsInv, HandedInv
  <2> SUFFICES ASSUME winners # <<>>
               PROVE  /\ crash_reason.where \in {NoOne, winners[1]}
                      /\ crash_reason.message \in {NoOne, winners[1]}
                      /\ still => crash_reason = ofFirst
    BY <2>3
  <2>1. /\ crash_reason.where =
              IF \E t \in Thread : pc[t] \in {"set", "reason"} THEN NoOne
              ELSE winners[1]
        /\ crash_reason.message =
              IF \E t \in Thread : pc[t] \in Electing THEN NoOne
              ELSE winners[1]
    BY DEF StatementsInv, ReasonInv
  <2>2. ASSUME still
        PROVE  crash_reason = ofFirst
    <3>1. \A t \in Thread : pc[t] \notin {"set", "reason"}
      BY <2>2 DEF Electing
    <3>2. crash_reason.where = winners[1] /\ crash_reason.message = winners[1]
      BY <2>1, <2>2, <3>1
    <3> QED
      BY <3>2 DEF StatementsInv, TypeInv, Types
  <2> QED
    BY <2>1, <2>2
<1> QED
  BY <1>1, StatementsInvariance, PTL

\* However its calls overlap, LOG_FIRST_N lets n of them through before it
\* refuses one (logging.h:150-154).
THEOREM FirstAreLogged == Spec => []NeverFewer
<1>1. StatementsInv => NeverFewer
  BY DEF StatementsInv, TypeInv, Types, FirstInv, NeverFewer
<1> QED
  BY <1>1, StatementsInvariance, PTL

\* There is room for something of the notice after the prefix, which a buffer
\* of 3000 characters has.
RoomForNotice == Notice >= 1 /\ Prefix + 1 < BufSize

\* What vsnprintf writes: the buffer's size and its argument bound it.
LEMMA VsnprintfProperties ==
  ASSUME NEW n \in Nat, NEW size \in Nat
  PROVE  Vsnprintf(n, size) = IF size = 0 THEN 0
                              ELSE IF n <= size - 1 THEN n ELSE size - 1
<1>1. CASE size = 0
  BY <1>1 DEF Vsnprintf
<1>2. CASE size # 0
  <2> DEFINE m == size - 1
             k == IF n <= m THEN n ELSE m
  <2>1. m \in Nat
    BY <1>2
  <2>2. k \in {n, m} /\ \A x \in {n, m} : k <= x
    BY <2>1
  <2>3. \A y \in {n, m} : (\A x \in {n, m} : y <= x) => y = k
    BY <2>1
  <2>4. Min({n, m}) = k
    BY <2>2, <2>3 DEF Min
  <2> QED
    BY <1>2, <2>4 DEF Vsnprintf
<1> QED
  BY <1>1, <1>2

\* What may be missing in a line.
Noted(l) ==
  LET size == BufSize - Prefix IN
  \/ l.notice > 0
  \/ l.text = l.of /\ l.newline = 1
  \/ l.of = size - 1 /\ l.text = l.of
  \/ l.of = size /\ l.text = l.of - 1

\* A line of RAW_LOG fits its buffer, and lacks nothing that is not noted, but
\* for the newline of a message that all but fills the buffer and the last
\* character of one that fills it (raw_logging.cc:85-106, 122-147).
THEOREM LinesFit ==
  ASSUME RoomForNotice
  PROVE  Spec => []LongIsNoted
<1>1. ASSUME NEW n \in Length
      PROVE  /\ Prefix + Format(n).text + Format(n).newline + Format(n).notice
                  < BufSize
             /\ Noted(Format(n))
  <2> DEFINE size == BufSize - Prefix
  <2>1. /\ size \in Nat /\ size > 1 /\ n \in Nat /\ Notice \in Nat
        /\ Notice >= 1 /\ Prefix \in Nat /\ BufSize \in Nat
        /\ BufSize = Prefix + size
    BY StatementsAssumption DEF RoomForNotice, StatementsAssumption
  <2>2. CASE n <= size
    <3>1. Format(n) = [text |-> Vsnprintf(n, size),
                       newline |-> Vsnprintf(1, size - n),
                       notice |-> 0, of |-> n]
      BY <2>2 DEF Format, Fits
    <3> HIDE DEF size
    <3>2. size - n \in Nat
      BY <2>1, <2>2
    <3>3. /\ Vsnprintf(n, size) = IF n <= size - 1 THEN n ELSE size - 1
          /\ Vsnprintf(1, size - n) = IF size - n = 0 THEN 0
                                      ELSE IF 1 <= size - n - 1 THEN 1
                                      ELSE size - n - 1
      BY <2>1, <3>2, VsnprintfProperties
    <3> DEFINE a == Vsnprintf(n, size)
               b == Vsnprintf(1, size - n)
    <3>4. /\ Format(n).text = a /\ Format(n).newline = b
          /\ Format(n).notice = 0 /\ Format(n).of = n
      BY <3>1
    <3> HIDE DEF a, b
    <3>5. /\ a = IF n <= size - 1 THEN n ELSE size - 1
          /\ b = IF size - n = 0 THEN 0
                 ELSE IF 1 <= size - n - 1 THEN 1 ELSE size - n - 1
      BY <3>3 DEF a, b
    <3>6. /\ Prefix + a + b + 0 < BufSize
          /\ \/ a = n /\ b = 1
             \/ n = size - 1 /\ a = n
             \/ n = size /\ a = n - 1
      BY <2>1, <2>2, <3>5
    <3> QED
      BY <3>4, <3>6 DEF Noted, size
  <2>3. CASE ~(n <= size)
    <3>1. Format(n) = [text |-> 0, newline |-> 0,
                       notice |-> Vsnprintf(Notice, size), of |-> n]
      BY <2>3 DEF Format, Fits
    <3> HIDE DEF size
    <3>2. Vsnprintf(Notice, size) =
            IF Notice <= size - 1 THEN Notice ELSE size - 1
      BY <2>1, VsnprintfProperties
    <3> DEFINE c == Vsnprintf(Notice, size)
    <3>3. /\ Format(n).text = 0 /\ Format(n).newline = 0
          /\ Format(n).notice = c
      BY <3>1
    <3> HIDE DEF c
    <3>4. Prefix + 0 + 0 + c < BufSize /\ c > 0
      BY <2>1, <3>2 DEF c
    <3> QED
      BY <3>3, <3>4 DEF Noted
  <2> QED
    BY <2>2, <2>3
<1>2. StatementsInv => LongIsNoted
  <2> SUFFICES ASSUME StatementsInv, NEW t \in Thread, pc[t] = "write"
               PROVE  /\ Prefix + line[t].text + line[t].newline
                           + line[t].notice < BufSize
                      /\ Noted(line[t])
    BY DEF LongIsNoted, Noted
  <2>1. PICK n \in Length : line[t] = Format(n)
    BY DEF StatementsInv, TypeInv, Places
  <2> QED
    BY <1>1, <2>1
<1> QED
  BY <1>2, StatementsInvariance, PTL

-----------------------------------------------------------------------------
(* Calls that do not overlap: which of them are logged.                    *)

\* The first m calls have been seen to: those due are logged, in their order,
\* and the counters are where these calls have left them.
Logged(m) ==
  /\ {logged[i] : i \in DOMAIN logged} = {k \in 1..m : Due(k)}
  /\ \A i, j \in DOMAIN logged : i < j => logged[i] < logged[j]
Counted(m) ==
  IF statement.kind = "first"
  THEN occurrences = IF m <= statement.n THEN m
                     ELSE IF statement.n >= 0 THEN statement.n ELSE 0
  ELSE occurrences = m
Cycled(m) ==
  statement.kind # "first" /\ statement.n > 0 =>
    occurrences_mod_n = Nth(m) % statement.n
Settled(m) == Logged(m) /\ Counted(m) /\ Cycled(m)

\* A thread is in the k-th call, all earlier ones have ended.
FirstCall(t, k) ==
  /\ pc[t] \in {"test", "load", "store", "LogMessage"}
  /\ pc[t] # "test" => k <= statement.n
  /\ Counted(IF pc[t] = "LogMessage" THEN k ELSE k - 1)
  /\ pc[t] = "store" => reg[t] = occurrences
EveryCall(t, k) ==
  /\ pc[t] \in SitePC \ {"test"}
  /\ Counted(IF pc[t] \in {"load", "store"} THEN k - 1 ELSE k)
  /\ pc[t] = "store" => reg[t] = occurrences
  /\ Cycled(IF pc[t] = "LogMessage" THEN k ELSE k - 1)
  /\ pc[t] \notin {"load", "store"} => statement.n > 0 /\ calls[k]
  /\ pc[t] = "stored" => reg[t] = Nth(k) % statement.n
  /\ pc[t] = "LogMessage" => Due(k)
InCall(t, k) ==
  /\ k > 0 /\ condition[t] = calls[k] /\ Logged(k - 1)
  /\ IF statement.kind = "first" THEN FirstCall(t, k) ELSE EveryCall(t, k)

Busy(t) == pc[t] # "idle"
SiteInv ==
  /\ logged \in Seq(Nat)
  /\ statement # RAW_LOG /\ ~overlap =>
       /\ \A t, u \in Thread : Busy(t) /\ Busy(u) => t = u
       /\ Quiescent => Settled(Len(calls))
       /\ \A t \in Thread : Busy(t) => InCall(t, Len(calls))

\* n * q + s leaves s ...
LEMMA Remainder ==
  ASSUME NEW q \in Int, NEW s \in Nat, NEW n \in Nat, s < n
  PROVE  (n * q + s) % n = s
BY SMTT(30)

\* ... and to count in a circle is to count and to divide in the end.
LEMMA NextRemainder ==
  ASSUME NEW a \in Nat, NEW n \in Nat, n > 0
  PROVE  ((a % n) + 1) % n = (a + 1) % n
<1> DEFINE q == a \div n
           r == a % n
<1>1. a = (n * q) + r
  BY SMTT(30)
<1>2. q \in Nat /\ r \in 0..(n - 1)
  BY SMTT(30)
<1> HIDE DEF q, r
<1>3. CASE r + 1 < n
  <2>1. a + 1 = n * q + (r + 1) /\ r + 1 = n * 0 + (r + 1)
    BY <1>1, <1>2
  <2>2. (n * q + (r + 1)) % n = r + 1 /\ (n * 0 + (r + 1)) % n = r + 1
    BY <1>2, <1>3, Remainder
  <2> QED
    BY <2>1, <2>2 DEF r
<1>4. CASE r + 1 = n
  <2>1. a + 1 = n * (q + 1) + 0 /\ r + 1 = n * 1 + 0
    BY <1>1, <1>2, <1>4
  <2>2. (n * (q + 1) + 0) % n = 0 /\ (n * 1 + 0) % n = 0
    BY <1>2, Remainder
  <2> QED
    BY <2>1, <2>2 DEF r
<1> QED
  BY <1>2, <1>3, <1>4

\* How many of the first k conditions held, call by call.
LEMMA NthNext ==
  ASSUME calls \in Seq(BOOLEAN), NEW k \in 1..Len(calls)
  PROVE  /\ Nth(k - 1) \in Nat
         /\ Nth(k) = IF calls[k] THEN Nth(k - 1) + 1 ELSE Nth(k - 1)
<1> DEFINE A == {j \in 1..(k - 1) : calls[j]}
           B == {j \in 1..k : calls[j]}
<1>1. k \in Nat /\ 1..k = 1..(k - 1) \cup {k} /\ k \notin 1..(k - 1)
  BY LenProperties
<1>2. IsFiniteSet(A)
  <2>1. IsFiniteSet(1..(k - 1))
    BY <1>1, FS_Interval
  <2> QED
    BY <2>1, FS_Subset
<1>3. Cardinality(A) \in Nat
  BY <1>2, FS_CardinalityType
<1>4. Nth(k - 1) = Cardinality(A) /\ Nth(k) = Cardinality(B)
  BY DEF Nth
<1>5. CASE calls[k]
  <2>1. B = A \cup {k} /\ k \notin A
    BY <1>1, <1>5
  <2> HIDE DEF A, B
  <2>2. Cardinality(B) = Cardinality(A) + 1
    BY <1>2, <2>1, AddOne
  <2> QED
    BY <1>3, <1>4, <1>5, <2>2
<1>6. CASE ~calls[k]
  <2>1. B = A
    BY <1>1, <1>6
  <2> QED
    BY <1>3, <1>4, <1>6, <2>1
<1> QED
  BY <1>5, <1>6

\* Before the first call it is none.
LEMMA NthNone == Nth(0) = 0
<1>1. {j \in 1..0 : calls[j]} = {}
  OBVIOUS
<1> QED
  BY <1>1, FS_EmptySet DEF Nth

\* A further call leaves what was said of the earlier ones.
LEMMA NthKept ==
  ASSUME calls \in Seq(BOOLEAN), NEW c \in BOOLEAN, calls' = Append(calls, c),
         UNCHANGED statement
  PROVE  /\ Len(calls') = Len(calls) + 1 /\ calls'[Len(calls) + 1] = c
         /\ \A k \in 0..Len(calls) : Nth(k)' = Nth(k)
         /\ \A k \in 1..Len(calls) : Due(k)' = Due(k)
<1>1. /\ Len(calls) \in Nat /\ Len(calls') = Len(calls) + 1
      /\ calls'[Len(calls) + 1] = c
      /\ \A k \in 1..Len(calls) : calls'[k] = calls[k]
  BY AppendProperties, LenProperties
<1>2. ASSUME NEW k \in 0..Len(calls) PROVE Nth(k)' = Nth(k)
  <2>1. \A j \in 1..k : j \in 1..Len(calls)
    BY <1>1
  <2>2. {j \in 1..k : calls'[j]} = {j \in 1..k : calls[j]}
    BY <1>1, <2>1
  <2> QED
    BY <2>2 DEF Nth
<1>3. ASSUME NEW k \in 1..Len(calls) PROVE Due(k)' = Due(k)
  <2>1. k \in 0..Len(calls)
    BY <1>1
  <2>2. Nth(k)' = Nth(k)
    BY <1>2, <2>1
  <2> QED
    BY <1>1, <2>2 DEF Due
<1> QED
  BY <1>1, <1>2, <1>3

\* One more call has been seen to, and was not due ...
LEMMA LoggedNot ==
  ASSUME NEW k \in Nat, k > 0, Logged(k - 1), ~Due(k)
  PROVE  Logged(k)
<1>1. 1..k = 1..(k - 1) \cup {k}
  OBVIOUS
<1>2. {j \in 1..k : Due(j)} = {j \in 1..(k - 1) : Due(j)}
  BY <1>1
<1> QED
  BY <1>2 DEF Logged

\* ... or was, and is logged.
LEMMA LoggedOne ==
  ASSUME NEW k \in Nat, k > 0, Logged(k - 1), Due(k), logged \in Seq(Nat),
         logged' = Append(logged, k), UNCHANGED <<calls, statement>>
  PROVE  Logged(k)'
<1> DEFINE n == Len(logged)
<1>1. /\ n \in Nat /\ Len(logged') = n + 1 /\ logged'[n + 1] = k
      /\ \A i \in 1..n : logged'[i] = logged[i]
      /\ DOMAIN logged = 1..n /\ DOMAIN logged' = 1..(n + 1)
  <2>1. /\ n \in Nat /\ DOMAIN logged = 1..n
        /\ Append(logged, k) \in Seq(Nat)
    BY LenProperties
  <2> QED
    BY <2>1, AppendProperties, LenProperties
<1>2. \A j : Due(j)' = Due(j)
  BY DEF Due, Nth
<1>3. {logged[i] : i \in DOMAIN logged} = {j \in 1..(k - 1) : Due(j)}
  BY DEF Logged
<1>4. \A i, j \in DOMAIN logged : i < j => logged[i] < logged[j]
  BY DEF Logged
<1> HIDE DEF n
<1>5. 1..(n + 1) = 1..n \cup {n + 1} /\ 1..k = 1..(k - 1) \cup {k}
  BY <1>1
<1>6. {logged'[i] : i \in DOMAIN logged'} = {j \in 1..k : Due(j)'}
  <2>1. {logged'[i] : i \in DOMAIN logged'}
          = {logged[i] : i \in DOMAIN logged} \cup {k}
    BY <1>1, <1>5
  <2>2. {j \in 1..k : Due(j)'} = {j \in 1..(k - 1) : Due(j)} \cup {k}
    BY <1>2, <1>5
  <2> QED
    BY <1>3, <2>1, <2>2
<1>7. \A i \in 1..n : logged[i] < k
  <2>1. \A i \in 1..n : logged[i] \in 1..(k - 1)
    BY <1>1, <1>3
  <2> QED
    BY <2>1
<1>8. \A i, j \in DOMAIN logged' : i < j => logged'[i] < logged'[j]
  <2> SUFFICES ASSUME NEW i \in 1..(n + 1), NEW j \in 1..(n + 1), i < j
               PROVE  logged'[i] < logged'[j]
    BY <1>1
  <2>1. i \in 1..n
    BY <1>1
  <2>2. CASE j = n + 1
    BY <1>1, <1>7, <2>1, <2>2
  <2>3. CASE j # n + 1
    <3>1. j \in 1..n
      BY <1>5, <2>3
    <3> QED
      BY <1>1, <1>4, <2>1, <3>1
  <2> QED
    BY <2>2, <2>3
<1> QED
  BY <1>6, <1>8 DEF Logged

\* When at most one thread is in the statement, it is enough to look at it.
LEMMA OneThread ==
  ASSUME NEW t \in Thread, \A u \in Thread \ {t} : pc'[u] = "idle",
         logged' \in Seq(Nat),
         ~Busy(t)' => Settled(Len(calls))',
         Busy(t)' => InCall(t, Len(calls))'
  PROVE  SiteInv'
BY DEF SiteInv, Busy, Quiescent

\* A call begins.
LEMMA SiteBegun ==
  ASSUME Types, SiteInv, NEW t \in Thread, Occasional(t)
  PROVE  SiteInv'
<1>0. PICK K \in Nat : K = Len(calls)
  BY LenProperties DEF Types
<1>1. PICK c \in BOOLEAN :
        /\ statement # RAW_LOG /\ pc[t] = "idle"
        /\ condition' = [condition EXCEPT ![t] = c]
        /\ calls' = Append(calls, c)
        /\ overlap' = (overlap \/ \E u \in Thread \ {t} : pc[u] # "idle")
        /\ pc' = [pc EXCEPT ![t] =
                    IF statement.kind = "first" THEN "test" ELSE "load"]
        /\ UNCHANGED <<statement, reg, occurrences, occurrences_mod_n, logged>>
  BY DEF Occasional, Begin, At, Goto
<1>2. CASE overlap'
  BY <1>1, <1>2 DEF SiteInv
<1>3. CASE ~overlap'
  <2>1. ~overlap /\ \A u \in Thread : pc[u] = "idle"
    BY <1>1, <1>3
  <2>2. Settled(K) /\ logged \in Seq(Nat)
    BY <1>0, <1>1, <2>1 DEF SiteInv, Quiescent
  <2>3. /\ Len(calls') = K + 1 /\ calls'[K + 1] = c
        /\ \A k \in 0..K : Nth(k)' = Nth(k)
        /\ \A k \in 1..K : Due(k)' = Due(k)
    BY <1>0, <1>1, NthKept DEF Types
  <2>4. Settled(K)'
    <3>1. K \in 0..K
      BY <2>3
    <3>2. {k \in 1..K : Due(k)'} = {k \in 1..K : Due(k)}
      BY <2>3
    <3> QED
      BY <1>1, <2>2, <2>3, <3>1, <3>2 DEF Settled, Logged, Counted, Cycled
  <2>5. condition'[t] = c /\ pc'[t] = IF statement.kind = "first" THEN "test"
                                      ELSE "load"
    BY <1>1 DEF Types
  <2>6. K + 1 - 1 = K /\ K + 1 > 0
    OBVIOUS
  <2>7. InCall(t, K + 1)'
    <3>1. CASE statement.kind = "first"
      BY <1>1, <2>3, <2>4, <2>5, <2>6, <3>1
      DEF InCall, FirstCall, Settled
    <3>2. CASE statement.kind # "first"
      BY <1>1, <2>3, <2>4, <2>5, <2>6, <3>2
      DEF InCall, EveryCall, Settled, SitePC
    <3> QED
      BY <3>1, <3>2
  <2>8. \A u \in Thread \ {t} : pc'[u] = "idle"
    BY <1>1, <2>1 DEF Types
  <2> QED
    BY <1>1, <2>2, <2>3, <2>5, <2>7, <2>8, OneThread DEF Busy
<1> QED
  BY <1>2, <1>3

\* The other steps of a statement: one thread is in the last of the calls,
\* and what is to be shown is about it alone.
LEMMA SiteOf ==
  ASSUME TypeInv, SiteInv, NEW t \in Thread, pc[t] \in SitePC, NEW l \in Labels,
         pc' = [pc EXCEPT ![t] = l],
         UNCHANGED <<statement, condition, calls, overlap>>,
         logged' \in Seq(Nat),
         ASSUME InCall(t, Len(calls)), statement \in Site, calls \in Seq(BOOLEAN),
                Len(calls) \in Nat, Len(calls) > 0, pc'[t] = l
         PROVE  IF l = "idle" THEN Settled(Len(calls))'
                ELSE InCall(t, Len(calls))'
  PROVE  SiteInv'
<1>1. statement \in Site /\ statement # RAW_LOG /\ pc[t] # "idle"
  BY StatementsAssumption DEF TypeInv, Places, SitePC, StatementsAssumption
<1>2. CASE overlap
  BY <1>2 DEF SiteInv
<1>3. CASE ~overlap
  <2>1. /\ \A u \in Thread \ {t} : pc[u] = "idle"
        /\ InCall(t, Len(calls))
    BY <1>1, <1>3 DEF SiteInv, Busy
  <2>2. pc'[t] = l /\ \A u \in Thread \ {t} : pc'[u] = "idle"
    BY <2>1 DEF TypeInv, Types
  <2>3. calls \in Seq(BOOLEAN) /\ Len(calls) \in Nat /\ Len(calls) > 0
    BY <2>1, LenProperties DEF TypeInv, Types, InCall
  <2>4. IF l = "idle" THEN Settled(Len(calls))' ELSE InCall(t, Len(calls))'
    BY <1>1, <2>1, <2>2, <2>3
  <2> QED
    BY <2>2, <2>4, OneThread DEF Busy
<1> QED
  BY <1>2, <1>3

\* LOG_FIRST_N tests.
LEMMA SiteTested ==
  ASSUME TypeInv, SiteInv, NEW t \in Thread, TestOccurrences(t)
  PROVE  SiteInv'
<1> DEFINE l == IF occurrences < statement.n THEN "load" ELSE "idle"
<1>1. /\ pc[t] = "test" /\ pc' = [pc EXCEPT ![t] = l]
      /\ l \in Labels /\ pc[t] \in SitePC
      /\ UNCHANGED <<statement, condition, calls, overlap, logged, occurrences,
                     occurrences_mod_n, reg>>
  BY DEF TestOccurrences, Decide, At, Goto, locals, Labels, SitePC
<1>2. logged' \in Seq(Nat)
  BY <1>1 DEF SiteInv
<1>3. ASSUME InCall(t, Len(calls)), statement \in Site, calls \in Seq(BOOLEAN),
             Len(calls) \in Nat, Len(calls) > 0, pc'[t] = l
      PROVE  IF l = "idle" THEN Settled(Len(calls))' ELSE InCall(t, Len(calls))'
  <2>1. PICK K \in Nat : K = Len(calls) /\ K > 0
    BY <1>3
  <2>2. statement.n \in Int
    BY <1>3, StatementsAssumption DEF StatementsAssumption
  <2>3. statement.kind = "first" /\ Counted(K - 1) /\ Logged(K - 1)
    BY <1>1, <1>3, <2>1 DEF InCall, FirstCall, EveryCall
  <2>4. CASE occurrences < statement.n
    <3>1. K <= statement.n
      BY <2>1, <2>2, <2>3, <2>4 DEF Counted
    <3>2. InCall(t, K)'
      BY <1>1, <1>3, <2>1, <2>3, <2>4, <3>1
      DEF InCall, FirstCall, Counted, Logged, Due, Nth
    <3> QED
      BY <1>1, <2>1, <2>4, <3>2
  <2>5. CASE ~(occurrences < statement.n)
    <3>1. ~(K <= statement.n) /\ occurrences = IF statement.n >= 0
                                               THEN statement.n ELSE 0
      BY <2>1, <2>2, <2>3, <2>5 DEF Counted
    <3>2. ~Due(K)
      BY <2>3, <3>1 DEF Due
    <3>3. Logged(K)
      BY <2>1, <2>3, <3>2, LoggedNot
    <3>4. Settled(K)'
      BY <1>1, <2>3, <3>1, <3>3 DEF Settled, Logged, Counted, Cycled, Due, Nth
    <3> QED
      BY <1>1, <2>1, <2>5, <3>4
  <2> QED
    BY <2>4, <2>5
<1> HIDE DEF l
<1> QED
  BY <1>1, <1>2, <1>3, SiteOf

\* A counter is loaded.
LEMMA SiteLoaded ==
  ASSUME TypeInv, SiteInv, NEW t \in Thread, LoadOccurrences(t)
  PROVE  SiteInv'
<1>1. /\ pc[t] = "load" /\ pc' = [pc EXCEPT ![t] = "store"]
      /\ reg' = [reg EXCEPT ![t] = occurrences]
      /\ "store" \in Labels /\ pc[t] \in SitePC
      /\ UNCHANGED <<statement, condition, calls, overlap, logged, occurrences,
                     occurrences_mod_n>>
  BY DEF LoadOccurrences, Loads, At, Goto, locals, siteVars, Labels, SitePC
<1>2. logged' \in Seq(Nat)
  BY <1>1 DEF SiteInv
<1>3. ASSUME InCall(t, Len(calls)), statement \in Site, calls \in Seq(BOOLEAN),
             Len(calls) \in Nat, Len(calls) > 0, pc'[t] = "store"
      PROVE  InCall(t, Len(calls))'
  <2>1. PICK K \in Nat : K = Len(calls) /\ K > 0
    BY <1>3
  <2>2. reg'[t] = occurrences
    BY <1>1 DEF TypeInv, Types
  <2>3. /\ Logged(K - 1) => Logged(K - 1)'
        /\ Counted(K - 1) => Counted(K - 1)'
        /\ Cycled(K - 1) => Cycled(K - 1)'
    BY <1>1 DEF Logged, Counted, Cycled, Due, Nth
  <2>4. condition'[t] = calls'[K] /\ Logged(K - 1)'
    BY <1>1, <1>3, <2>1, <2>3 DEF InCall
  <2>5. CASE statement.kind = "first"
    BY <1>1, <1>3, <2>1, <2>2, <2>3, <2>4, <2>5 DEF InCall, FirstCall
  <2>6. CASE statement.kind # "first"
    BY <1>1, <1>3, <2>1, <2>2, <2>3, <2>4, <2>6 DEF InCall, EveryCall, SitePC
  <2> QED
    BY <1>1, <2>1, <2>5, <2>6
<1>4. ASSUME InCall(t, Len(calls)), statement \in Site, calls \in Seq(BOOLEAN),
             Len(calls) \in Nat, Len(calls) > 0, pc'[t] = "store"
      PROVE  IF "store" = "idle" THEN Settled(Len(calls))'
             ELSE InCall(t, Len(calls))'
  BY <1>3, <1>4
<1> QED
  BY <1>1, <1>2, <1>4, SiteOf

\* LOG_OCCURRENCES is stored: LOG_FIRST_N goes on, the others decide.
LEMMA SiteStored ==
  ASSUME TypeInv, SiteInv, NEW t \in Thread, StoreOccurrences(t)
  PROVE  SiteInv'
<1> DEFINE l == IF statement.kind = "first" THEN "LogMessage"
                ELSE IF statement.n > 0 /\ condition[t] THEN "modulo" ELSE "idle"
<1>1. /\ pc[t] = "store" /\ pc' = [pc EXCEPT ![t] = l]
      /\ occurrences' = reg[t] + 1
      /\ l \in Labels /\ pc[t] \in SitePC
      /\ UNCHANGED <<statement, condition, calls, overlap, logged,
                     occurrences_mod_n, reg>>
  BY DEF StoreOccurrences, Decide, At, Goto, locals, Labels, SitePC
<1>2. logged' \in Seq(Nat)
  BY <1>1 DEF SiteInv
<1>3. ASSUME InCall(t, Len(calls)), statement \in Site, calls \in Seq(BOOLEAN),
             Len(calls) \in Nat, Len(calls) > 0, pc'[t] = l
      PROVE  IF l = "idle" THEN Settled(Len(calls))' ELSE InCall(t, Len(calls))'
  <2>1. PICK K \in Nat : K = Len(calls) /\ K > 0
    BY <1>3
  <2>2. statement.n \in Int /\ condition[t] = calls[K] /\ Logged(K - 1)
    BY <1>3, <2>1, StatementsAssumption DEF StatementsAssumption, InCall
  <2>3. Logged(K - 1)'
    <3>1. \A k : Due(k)' = Due(k)
      BY <1>1 DEF Due, Nth
    <3> QED
      BY <1>1, <2>2, <3>1 DEF Logged
  <2>4. CASE statement.kind = "first"
    <3>1. K <= statement.n /\ Counted(K - 1) /\ reg[t] = occurrences
      BY <1>1, <1>3, <2>1, <2>4 DEF InCall, FirstCall
    <3>2. occurrences' = K
      BY <1>1, <2>1, <2>2, <2>4, <3>1 DEF Counted
    <3>3. Counted(K)'
      BY <1>1, <3>1, <3>2, <2>4 DEF Counted
    <3>4. InCall(t, K)'
      BY <1>1, <1>3, <2>1, <2>2, <2>3, <2>4, <3>1, <3>3 DEF InCall, FirstCall
    <3> QED
      BY <1>1, <2>1, <2>4, <3>4
  <2>5. CASE statement.kind # "first"
    <3>1. Counted(K - 1) /\ Cycled(K - 1) /\ reg[t] = occurrences
      BY <1>1, <1>3, <2>1, <2>5 DEF InCall, EveryCall
    <3>2. occurrences' = K
      BY <1>1, <2>1, <2>5, <3>1 DEF Counted
    <3>3. Counted(K)' /\ Cycled(K - 1)'
      BY <1>1, <2>5, <3>1, <3>2 DEF Counted, Cycled, Nth
    <3>4. CASE statement.n > 0 /\ calls[K]
      <4>1. InCall(t, K)'
        BY <1>1, <1>3, <2>1, <2>2, <2>3, <2>5, <3>3, <3>4
        DEF InCall, EveryCall, SitePC
      <4> QED
        BY <1>1, <2>1, <2>2, <2>5, <3>4, <4>1
    <3>5. CASE ~(statement.n > 0 /\ calls[K])
      <4>1. ~Due(K)
        BY <2>5, <3>5 DEF Due
      <4>2. Logged(K)
        BY <2>1, <2>2, <4>1, LoggedNot
      <4>3. Logged(K)'
        BY <1>1, <4>2 DEF Logged, Due, Nth
      <4>4. Cycled(K)'
        <5>1. CASE statement.n > 0
          <6>1. K \in 1..Len(calls) /\ ~calls[K]
            BY <2>1, <3>5, <5>1
          <6>2. Nth(K) = Nth(K - 1)
            BY <1>3, <6>1, NthNext
          <6>3. Nth(K)' = Nth(K)
            BY <1>1 DEF Nth
          <6> QED
            BY <1>1, <3>1, <6>2, <6>3 DEF Cycled
        <5>2. CASE ~(statement.n > 0)
          BY <1>1, <5>2 DEF Cycled
        <5> QED
          BY <5>1, <5>2
      <4> QED
        BY <1>1, <2>1, <2>2, <2>5, <3>3, <3>5, <4>3, <4>4 DEF Settled
    <3> QED
      BY <3>4, <3>5
  <2> QED
    BY <2>4, <2>5
<1> HIDE DEF l
<1> QED
  BY <1>1, <1>2, <1>3, SiteOf

\* LOG_OCCURRENCES_MOD_N: the next value in its circle ...
LEMMA SiteModulo ==
  ASSUME TypeInv, SiteInv, NEW t \in Thread, LoadModulo(t)
  PROVE  SiteInv'
<1> DEFINE v == (occurrences_mod_n + 1) % statement.n
<1>1. /\ pc[t] = "modulo" /\ pc' = [pc EXCEPT ![t] = "stored"]
      /\ reg' = [reg EXCEPT ![t] = v]
      /\ "stored" \in Labels /\ pc[t] \in SitePC
      /\ UNCHANGED <<statement, condition, calls, overlap, logged, occurrences,
                     occurrences_mod_n>>
  BY DEF LoadModulo, Loads, At, Goto, locals, siteVars, Labels, SitePC
<1>2. logged' \in Seq(Nat)
  BY <1>1 DEF SiteInv
<1>3. ASSUME InCall(t, Len(calls)), statement \in Site, calls \in Seq(BOOLEAN),
             Len(calls) \in Nat, Len(calls) > 0, pc'[t] = "stored"
      PROVE  InCall(t, Len(calls))'
  <2>1. PICK K \in Nat : K = Len(calls) /\ K > 0
    BY <1>3
  <2>2. statement.n \in Int
    BY <1>3, StatementsAssumption DEF StatementsAssumption
  <2>3. /\ statement.kind # "first" /\ statement.n > 0 /\ calls[K]
        /\ condition[t] = calls[K]
        /\ Logged(K - 1) /\ Counted(K) /\ Cycled(K - 1)
    BY <1>1, <1>3, <2>1 DEF InCall, FirstCall, EveryCall
  <2>4. K \in 1..Len(calls)
    BY <2>1
  <2>5. Nth(K - 1) \in Nat /\ Nth(K) = Nth(K - 1) + 1
    BY <1>3, <2>3, <2>4, NthNext
  <2>6. statement.n \in Nat /\ statement.n > 0
    BY <2>2, <2>3
  <2>7. v = Nth(K) % statement.n
    <3>1. v = ((Nth(K - 1) % statement.n) + 1) % statement.n
      BY <2>3 DEF Cycled
    <3> HIDE DEF v
    <3> QED
      BY <2>5, <2>6, <3>1, NextRemainder
  <2> HIDE DEF v
  <2>8. reg'[t] = Nth(K) % statement.n
    BY <1>1, <2>7 DEF TypeInv, Types
  <2>9. Logged(K - 1)' /\ Counted(K)' /\ Cycled(K - 1)' /\ Nth(K)' = Nth(K)
    BY <1>1, <2>3 DEF Logged, Counted, Cycled, Due, Nth
  <2>10. InCall(t, K)'
    BY <1>1, <1>3, <2>1, <2>3, <2>8, <2>9 DEF InCall, EveryCall, SitePC
  <2> QED
    BY <1>1, <2>1, <2>10
<1>4. ASSUME InCall(t, Len(calls)), statement \in Site, calls \in Seq(BOOLEAN),
             Len(calls) \in Nat, Len(calls) > 0, pc'[t] = "stored"
      PROVE  IF "stored" = "idle" THEN Settled(Len(calls))'
             ELSE InCall(t, Len(calls))'
  BY <1>3, <1>4
<1> QED
  BY <1>1, <1>2, <1>4, SiteOf

\* ... is stored, and compared with that of the first.
LEMMA SiteCompared ==
  ASSUME TypeInv, SiteInv, NEW t \in Thread, StoreModulo(t)
  PROVE  SiteInv'
<1> DEFINE one == 1 % statement.n
           l == IF reg[t] = one THEN "LogMessage" ELSE "idle"
<1>1. /\ pc[t] = "stored" /\ pc' = [pc EXCEPT ![t] = l]
      /\ occurrences_mod_n' = reg[t]
      /\ l \in Labels /\ pc[t] \in SitePC
      /\ UNCHANGED <<statement, condition, calls, overlap, logged, occurrences,
                     reg>>
  BY DEF StoreModulo, Compared, At, Goto, locals, Labels, SitePC
<1>2. logged' \in Seq(Nat)
  BY <1>1 DEF SiteInv
<1>3. ASSUME InCall(t, Len(calls)), statement \in Site, calls \in Seq(BOOLEAN),
             Len(calls) \in Nat, Len(calls) > 0, pc'[t] = l
      PROVE  IF l = "idle" THEN Settled(Len(calls))' ELSE InCall(t, Len(calls))'
  <2>1. PICK K \in Nat : K = Len(calls) /\ K > 0
    BY <1>3
  <2>2. /\ statement.kind # "first" /\ statement.n > 0 /\ calls[K]
        /\ condition[t] = calls[K]
        /\ Logged(K - 1) /\ Counted(K)
        /\ reg[t] = Nth(K) % statement.n
    BY <1>1, <1>3, <2>1 DEF InCall, FirstCall, EveryCall
  <2>3. Due(K) <=> reg[t] = one
    BY <2>2 DEF Due
  <2> HIDE DEF one
  <2>4. /\ Logged(K - 1)' /\ Counted(K)' /\ Cycled(K)'
        /\ Due(K)' = Due(K) /\ (Logged(K) => Logged(K)')
    <3>1. Nth(K)' = Nth(K) /\ \A k : Due(k)' = Due(k)
      BY <1>1 DEF Due, Nth
    <3>2. Logged(K - 1)' /\ (Logged(K) => Logged(K)')
      BY <1>1, <2>2, <3>1 DEF Logged
    <3>3. Counted(K)'
      BY <1>1, <2>2 DEF Counted
    <3>4. Cycled(K)'
      BY <1>1, <2>2, <3>1 DEF Cycled
    <3> QED
      BY <3>1, <3>2, <3>3, <3>4
  <2>5. CASE reg[t] = one
    <3>1. InCall(t, K)'
      BY <1>1, <1>3, <2>1, <2>2, <2>3, <2>4, <2>5 DEF InCall, EveryCall, SitePC
    <3> QED
      BY <1>1, <2>1, <2>5, <3>1
  <2>6. CASE reg[t] # one
    <3>1. Logged(K)
      BY <2>1, <2>2, <2>3, <2>6, LoggedNot
    <3> QED
      BY <1>1, <2>1, <2>4, <2>6, <3>1 DEF Settled
  <2> QED
    BY <2>5, <2>6
<1> HIDE DEF l
<1> QED
  BY <1>1, <1>2, <1>3, SiteOf

\* A call that is due is logged.
LEMMA SiteLogged ==
  ASSUME TypeInv, SiteInv, NEW t \in Thread, LogOccurrence(t)
  PROVE  SiteInv'
<1>1. /\ pc[t] = "LogMessage" /\ pc' = [pc EXCEPT ![t] = "idle"]
      /\ logged' = Append(logged, occurrences)
      /\ "idle" \in Labels /\ pc[t] \in SitePC
      /\ UNCHANGED <<statement, condition, calls, overlap, occurrences,
                     occurrences_mod_n, reg>>
  BY DEF LogOccurrence, At, Goto, locals, Labels, SitePC
<1>2. logged' \in Seq(Nat)
  <2>1. logged \in Seq(Nat) /\ occurrences \in Nat
    BY DEF SiteInv, TypeInv, Types
  <2> QED
    BY <1>1, <2>1
<1>3. ASSUME InCall(t, Len(calls)), statement \in Site, calls \in Seq(BOOLEAN),
             Len(calls) \in Nat, Len(calls) > 0, pc'[t] = "idle"
      PROVE  Settled(Len(calls))'
  <2>1. PICK K \in Nat : K = Len(calls) /\ K > 0
    BY <1>3
  <2>2. /\ Logged(K - 1) /\ Counted(K) /\ Cycled(K) /\ Due(K)
        /\ occurrences = K
    <3>1. CASE statement.kind = "first"
      <4>1. K <= statement.n /\ Counted(K) /\ Logged(K - 1)
        BY <1>1, <1>3, <2>1, <3>1 DEF InCall, FirstCall
      <4> QED
        BY <3>1, <4>1 DEF Counted, Cycled, Due
    <3>2. CASE statement.kind # "first"
      <4>1. Due(K) /\ Counted(K) /\ Logged(K - 1) /\ Cycled(K)
        BY <1>1, <1>3, <2>1, <3>2 DEF InCall, EveryCall
      <4> QED
        BY <3>2, <4>1 DEF Counted
    <3> QED
      BY <3>1, <3>2
  <2>3. Logged(K)'
    BY <1>1, <2>1, <2>2, LoggedOne DEF SiteInv
  <2>4. Counted(K)' /\ Cycled(K)'
    BY <1>1, <2>2 DEF Counted, Cycled, Nth
  <2> QED
    BY <1>1, <2>1, <2>3, <2>4 DEF Settled
<1>4. ASSUME InCall(t, Len(calls)), statement \in Site, calls \in Seq(BOOLEAN),
             Len(calls) \in Nat, Len(calls) > 0, pc'[t] = "idle"
      PROVE  IF "idle" = "idle" THEN Settled(Len(calls))'
             ELSE InCall(t, Len(calls))'
  BY <1>3, <1>4
<1> QED
  BY <1>1, <1>2, <1>4, SiteOf

\* RAW_LOG is another statement.
LEMMA SiteRaw ==
  ASSUME TypeInv, SiteInv, NEW t \in Thread,
         \/ RawLog(t) \/ RawLogSuppressed(t)
         \/ SafeWrite(t) \/ LoadCount(t) \/ StoreCount(t)
         \/ LoadCrashed(t) \/ StoreCrashed(t) \/ FillReason(t)
         \/ CopyMessage(t) \/ SetCrashReason(t) \/ Crash(t)
  PROVE  SiteInv'
<1>1. statement = RAW_LOG /\ UNCHANGED <<statement, logged>>
  BY DEF TypeInv, Places, RawPC, RawLog, RawLogSuppressed, SafeWrite,
         LoadCount, StoreCount, AfterCount, LoadCrashed, Won, StoreCrashed, FillReason, CopyMessage,
         SetCrashReason, Crash, RawFatal, At, locals, siteVars
<1> QED
  BY <1>1 DEF SiteInv

\* The calls of one site that did not overlap, by whichever threads: those that
\* are due are logged, in their order and with their numbers, and no others
\* (logging.h:150-174).
THEOREM DueAreLogged == Spec => []LogsTheRightOnes
<1>1. Init => SiteInv
  <2> SUFFICES ASSUME Init
               PROVE  SiteInv
    OBVIOUS
  <2>1. logged = <<>> /\ calls = <<>> /\ \A t \in Thread : ~Busy(t)
    BY DEF Init, Busy
  <2>2. Len(calls) = 0 /\ DOMAIN logged = {} /\ logged \in Seq(Nat)
    BY <2>1
  <2>3. Logged(0)
    BY <2>2 DEF Logged
  <2>4. ASSUME statement # RAW_LOG
        PROVE  Counted(0) /\ Cycled(0)
    <3>1. occurrences = 0 /\ occurrences_mod_n = 0 /\ statement.n \in Int
      BY <2>4, StatementsAssumption DEF Init, StatementsAssumption
    <3>2. ASSUME statement.n > 0 PROVE 0 % statement.n = 0
      BY <3>1, <3>2
    <3>3. Counted(0)
      BY <3>1 DEF Counted
    <3>4. Cycled(0)
      BY <3>1, <3>2, NthNone DEF Cycled
    <3> QED
      BY <3>3, <3>4
  <2> QED
    BY <2>1, <2>2, <2>3, <2>4 DEF SiteInv, Settled
<1>2. StatementsInv /\ SiteInv /\ [Next]_vars => SiteInv'
  <2> SUFFICES ASSUME StatementsInv, SiteInv, [Next]_vars
               PROVE  SiteInv'
    OBVIOUS
  <2>1. TypeInv /\ Types
    BY DEF StatementsInv, TypeInv
  <2>2. CASE UNCHANGED vars
    <3>1. UNCHANGED <<statement, overlap, pc, calls, logged, occurrences,
                      occurrences_mod_n, reg, condition>>
      BY <2>2 DEF vars, siteVars, locals
    <3>2. \A m : /\ Nth(m)' = Nth(m) /\ Due(m)' = Due(m)
                 /\ Counted(m)' = Counted(m)
      BY <3>1 DEF Due, Nth, Counted
    <3>3. \A m : Logged(m)' = Logged(m) /\ Cycled(m)' = Cycled(m)
      BY <3>1, <3>2 DEF Logged, Cycled
    <3>4. \A t, m : InCall(t, m)' = InCall(t, m)
      BY <3>1, <3>2, <3>3 DEF InCall, FirstCall, EveryCall
    <3> QED
      BY <3>1, <3>2, <3>3, <3>4 DEF SiteInv, Busy, Quiescent, Settled
  <2> QED
    BY <2>1, <2>2, SiteRaw, SiteBegun, SiteTested, SiteLoaded, SiteStored,
       SiteModulo, SiteCompared, SiteLogged
    DEF Next, Step, Stop
<1>3. StatementsInv /\ SiteInv => LogsTheRightOnes
  <2> SUFFICES ASSUME StatementsInv, SiteInv, statement # RAW_LOG, ~overlap,
                      Quiescent
               PROVE  /\ {logged[i] : i \in DOMAIN logged}
                           = {k \in DOMAIN calls : Due(k)}
                      /\ \A i, j \in DOMAIN logged :
                           i < j => logged[i] < logged[j]
    BY DEF LogsTheRightOnes
  <2>1. Logged(Len(calls)) /\ DOMAIN calls = 1..Len(calls)
    BY LenProperties DEF SiteInv, Settled, StatementsInv, TypeInv, Types
  <2> QED
    BY <2>1 DEF Logged
<1> QED
  BY <1>1, <1>2, <1>3, StatementsInvariance, PTL DEF Spec
=============================================================================
