----------------------------- MODULE VLogProofs -----------------------------
(***************************************************************************)
(* Proofs about verbose logging: the list of modules only grows, every     *)
(* entry of the flag gets into it before a statement is left to --v, a     *)
(* level that was looked at is one that the statement pointed to during    *)
(* the call, and an exact pattern reaches every statement it controls.     *)
(***************************************************************************)
EXTENDS VLogProps, FiniteSetTheorems, SequenceTheorems, WellFoundedInduction,
        TLAPS

-----------------------------------------------------------------------------
(* The entries of the flag.                                                *)

\* A set of naturals has a least element, which CHOOSE picks.
LEMMA Least ==
  ASSUME NEW S, S \subseteq Nat, S # {}
  PROVE  LET l == CHOOSE i \in S : \A j \in S : i <= j
         IN  l \in S /\ \A j \in S : l <= j
<1>1. PICK i \in S : \A j \in S : ~(<<j, i>> \in OpToRel(<, Nat))
  BY NatLessThanWellFounded, WFMin
<1>2. \A j \in S : ~(j < i)
  BY <1>1 DEF OpToRel
<1>3. \A j \in S : i <= j
  BY <1>2
<1> QED
  BY <1>3

\* A set of naturals up to a bound has a greatest element.
LEMMA Greatest ==
  ASSUME NEW b \in Nat, NEW S, S \subseteq 1..b, S # {}
  PROVE  \E m \in S : \A j \in S : j <= m
<1> DEFINE R == {b - j : j \in S}
           l == CHOOSE i \in R : \A j \in R : i <= j
<1>1. R \subseteq Nat /\ R # {}
  <2>1. \A j \in S : j \in Nat /\ j <= b /\ b - j \in Nat
    OBVIOUS
  <2> QED
    BY <2>1
<1>2. l \in R /\ \A j \in R : l <= j
  <2> HIDE DEF R
  <2> QED
    BY <1>1, Least
<1>3. PICK m \in S : l = b - m
  BY <1>2
<1>4. ASSUME NEW j \in S PROVE j <= m
  <2>1. b - m <= b - j
    BY <1>2, <1>3
  <2>2. j \in Nat /\ m \in Nat
    OBVIOUS
  <2> QED
    BY <2>1, <2>2
<1> QED
  BY <1>4

\* A finite set of naturals can be put in order: otherwise there would be a
\* smallest one that cannot, which is some set and one greater element.
LEMMA Enumeration ==
  ASSUME NEW b \in Nat, NEW S \in SUBSET (1..b)
  PROVE  /\ Cardinality(S) \in Nat
         /\ \E f \in [1..Cardinality(S) -> S] : Ordered(f, Cardinality(S))
<1>1. \A T \in SUBSET (1..b) : IsFiniteSet(T) /\ Cardinality(T) \in Nat
  <2>1. IsFiniteSet(1..b)
    BY FS_Interval
  <2>2. \A T \in SUBSET (1..b) : IsFiniteSet(T)
    BY <2>1, FS_Subset
  <2> QED
    BY <2>2, FS_CardinalityType
<1> DEFINE CanBe(T) == \E f \in [1..Cardinality(T) -> T] :
                          Ordered(f, Cardinality(T))
           Bad == {Cardinality(T) : T \in {T \in SUBSET (1..b) : ~CanBe(T)}}
           l == CHOOSE i \in Bad : \A j \in Bad : i <= j
<1>2. ASSUME NEW U \in SUBSET (1..b), ~CanBe(U)
      PROVE  FALSE
  <2>1. Bad \subseteq Nat /\ Bad # {}
    BY <1>1, <1>2
  <2>2. l \in Bad /\ \A j \in Bad : l <= j
    <3> HIDE DEF Bad
    <3> QED
      BY <2>1, Least
  <2>3. PICK T \in SUBSET (1..b) : ~CanBe(T) /\ l = Cardinality(T)
    BY <2>2
  <2>4. T # {}
    <3> SUFFICES ASSUME T = {} PROVE FALSE
      OBVIOUS
    <3>1. Cardinality(T) = 0
      BY FS_EmptySet
    <3>2. [i \in 1..0 |-> 1] \in [1..0 -> T] /\ Ordered([i \in 1..0 |-> 1], 0)
      BY DEF Ordered
    <3> QED
      BY <2>3, <3>1, <3>2
  <2>5. PICK m \in T : \A j \in T : j <= m
    BY <2>4, Greatest
  <2> DEFINE V == T \ {m}
             n == Cardinality(V)
  <2>6. /\ V \in SUBSET (1..b) /\ n \in Nat /\ Cardinality(T) = n + 1
    BY <1>1, <2>5, FS_RemoveElement
  <2>7. CanBe(V)
    <3>1. ~(n \in Bad)
      <4> HIDE DEF n, Bad, l
      <4>1. n \in Bad => l <= n
        BY <2>2
      <4> QED
        BY <2>3, <2>6, <4>1
    <3> QED
      BY <2>6, <3>1
  <2>8. PICK f \in [1..n -> V] : Ordered(f, n)
    BY <2>7
  <2> DEFINE g == [i \in 1..(n + 1) |-> IF i = n + 1 THEN m ELSE f[i]]
  <2> HIDE DEF n
  <2>9. g \in [1..(n + 1) -> T]
    <3>1. ASSUME NEW i \in 1..(n + 1), i # n + 1
          PROVE  f[i] \in T
      <4>1. i \in 1..n
        BY <2>6, <3>1
      <4> QED
        BY <2>8, <4>1
    <3> QED
      BY <3>1
  <2>10. Ordered(g, n + 1)
    <3> SUFFICES ASSUME NEW i \in 1..(n + 1), NEW j \in 1..(n + 1), i < j
                 PROVE  g[i] < g[j]
      BY DEF Ordered
    <3>1. i \in 1..n /\ i # n + 1
      BY <2>6
    <3>4. f[i] \in V /\ g[i] = f[i]
      BY <2>8, <3>1
    <3>2. CASE j = n + 1
      <4>1. f[i] <= m /\ f[i] # m /\ f[i] \in Nat /\ m \in Nat
        <5>1. f[i] \in T /\ f[i] # m /\ m \in T
          BY <3>4
        <5>2. f[i] <= m
          BY <2>5, <5>1
        <5>3. \A k \in T : k \in Nat
          BY <2>3
        <5>4. f[i] \in Nat /\ m \in Nat
          BY <5>1, <5>3
        <5> QED
          BY <5>1, <5>2, <5>4
      <4> QED
        BY <3>2, <3>4, <4>1
    <3>3. CASE j # n + 1
      <4>1. j \in 1..n /\ g[j] = f[j]
        BY <2>6, <3>3
      <4> QED
        BY <2>8, <3>1, <3>4, <4>1 DEF Ordered
    <3> QED
      BY <3>2, <3>3
  <2> QED
    BY <2>3, <2>6, <2>9, <2>10
<1> QED
  BY <1>1, <1>2

\* What the flag's entries become is a sequence of modules and levels.
LEMMA ParsedType == Parsed \in Seq(VModuleInfo)
<1> DEFINE n == Cardinality(Parses)
           entry == CHOOSE f \in [1..n -> Parses] : Ordered(f, n)
<1>1. Len(Flag) \in Nat /\ Parses \in SUBSET (1..Len(Flag))
  BY VLogAssumption DEF VLogAssumption, Parses
<1>2. n \in Nat /\ entry \in [1..n -> Parses]
  BY <1>1, Enumeration
<1>3. \A k \in Parses : Flag[k].pattern \in Pattern /\ Flag[k].level \in Level
  <2> SUFFICES ASSUME NEW k \in 1..Len(Flag)
               PROVE  Flag[k].pattern \in Pattern /\ Flag[k].level \in Level
    BY DEF Parses
  <2>1. Flag[k] \in [pattern : Seq(STRING), level : Level, parses : BOOLEAN]
    <3>1. Flag \in Seq([pattern : Seq(STRING), level : Level,
                        parses : BOOLEAN])
      BY VLogAssumption DEF VLogAssumption
    <3> QED
      BY <3>1, ElementOfSeq
  <2> QED
    BY <2>1 DEF Pattern
<1> HIDE DEF n, entry
<1>4. [i \in 1..n |-> [module_pattern |-> Flag[entry[i]].pattern,
                       vlog_level |-> Flag[entry[i]].level]]
        \in [1..n -> VModuleInfo]
  BY <1>2, <1>3 DEF VModuleInfo
<1> QED
  <2>1. Parsed \in [1..n -> VModuleInfo]
    BY <1>4 DEF Parsed, n, entry
  <2> QED
    BY <1>2, <2>1, IsASeq
-----------------------------------------------------------------------------
(* The invariant.                                                          *)

\* The types; what a thread keeps of a statement and of the arguments of a
\* call is one once there was a call.
AnySite == CHOOSE s \in Site : TRUE
AnyArg == CHOOSE a \in [pattern : SetPattern, level : {0}] : TRUE
Argument == [pattern : SetPattern, level : Level]
Types ==
  /\ info \in Seq(VModuleInfo)
  /\ vmodule_list \in Seq(1..Len(info))
  /\ inited_vmodule \in BOOLEAN
  /\ vmodule_lock \in Thread \cup {NoThread}
  /\ FLAGS_v \in Level
  /\ vlocal \in [Site -> Pointer]
  /\ pc \in [Thread -> PC]
  /\ calls \in 0..MaxCalls
  /\ site \in [Thread -> Site \cup {AnySite}]
  /\ want \in [Thread -> Level]
  /\ ptr \in [Thread -> Pointer]
  /\ arg \in [Thread -> Argument \cup {AnyArg}]
  /\ idx \in [Thread -> 1..(Len(vmodule_list) + 1)]
  /\ found \in [Thread -> BOOLEAN]
  /\ answer \in [Thread -> BOOLEAN]
  /\ \A t \in Thread :
       /\ pc[t] \in InVLOG_IS_ON => site[t] \in Site
       /\ pc[t] \in {"SetVLOGLevel", "loop"} => arg[t] \in Argument

\* What was observed is a pointer and a level.
SeenTypes == seen \in [Thread -> SUBSET [ptr : Pointer, level : Level]]

\* The list has everything there is, once.
ListInv ==
  /\ Len(vmodule_list) = Len(info)
  /\ \A i \in 1..Len(info) : \E k \in 1..Len(vmodule_list) : vmodule_list[k] = i

\* A thread that walks over the list, or has found its level there, holds the
\* lock.
LockInv == \A t \in Thread : pc[t] \in {"loop", "return"} => vmodule_lock = t

\* Once the flag is parsed its patterns are in the list, and no statement was
\* left to --v before.
FlagInv ==
  /\ inited_vmodule => \A i \in 1..Len(Parsed) : \E k \in 1..Len(vmodule_list) :
       info[vmodule_list[k]].module_pattern = Parsed[i].module_pattern
  /\ FlagApplies

\* The part of the list that SetVLOGLevel has been through has the level.
LoopInv ==
  \A t \in Thread : pc[t] = "loop" =>
    \A k \in 1..Len(vmodule_list) :
      /\ k < idx[t]
      /\ info[vmodule_list[k]].module_pattern = arg[t].pattern
      => info[vmodule_list[k]].vlog_level = arg[t].level

\* A thread in VLOG_IS_ON has observed the pointer it uses, and whatever was
\* observed of a pointer, its level now was.
SeenInv ==
  \A t \in Thread : pc[t] \in InVLOG_IS_ON =>
    /\ \A o \in seen[t] : o.ptr # Uninitialized =>
         [ptr |-> o.ptr, level |-> Deref(o.ptr)] \in seen[t]
    /\ ptr[t] # Uninitialized => \E o \in seen[t] : o.ptr = ptr[t]

\* The inductive invariant.
VLogInv ==
  Types /\ SeenTypes /\ ListInv /\ LockInv /\ FlagInv /\ LoopInv /\ SeenInv

\* The least index of a set is the one that CHOOSE takes from it.
LEMMA FirstIndex ==
  ASSUME NEW b \in Nat, NEW S, S \subseteq 1..b, S # {}
  PROVE  (CHOOSE i \in S : \A j \in S : i <= j) \in S
<1>1. S \subseteq Nat
  OBVIOUS
<1> QED
  BY <1>1, Least

\* The list with the flag's entries: what is added comes first and refers to
\* what is added at the end; nothing that was there moves.
LEMMA ListProperties ==
  ASSUME Types, ListInv
  PROVE  /\ Infos \in Seq(VModuleInfo) /\ Len(Infos) >= Len(info)
         /\ \A i \in 1..Len(info) : Infos[i] = info[i]
         /\ List \in Seq(1..Len(Infos)) /\ Len(List) = Len(Infos)
         /\ \A i \in 1..Len(Infos) : \E k \in 1..Len(List) : List[k] = i
         /\ ~inited_vmodule => \A i \in 1..Len(Parsed) :
              i \in 1..Len(List) /\ Infos[List[i]] = Parsed[i]
<1>1. /\ info \in Seq(VModuleInfo) /\ vmodule_list \in Seq(1..Len(info))
      /\ Len(info) \in Nat /\ Len(vmodule_list) = Len(info)
      /\ Parsed \in Seq(VModuleInfo) /\ Len(Parsed) \in Nat
  BY ParsedType, LenProperties DEF Types, ListInv
<1>2. CASE inited_vmodule
  <2>1. Infos = info /\ List = vmodule_list
    BY <1>2 DEF Infos, List
  <2> QED
    BY <1>1, <1>2, <2>1 DEF ListInv
<1>3. CASE ~inited_vmodule
  <2> DEFINE m == Len(info)
             n == Len(Parsed)
             new == [i \in 1..n |-> m + i]
  <2>1. Infos = info \o Parsed /\ List = new \o vmodule_list
    BY <1>3 DEF Infos, List
  <2>2. /\ Infos \in Seq(VModuleInfo) /\ Len(Infos) = m + n
        /\ \A i \in 1..(m + n) :
             Infos[i] = IF i <= m THEN info[i] ELSE Parsed[i - m]
    BY <1>1, <2>1, ConcatProperties
  <2>3. /\ new \in Seq(1..(m + n)) /\ Len(new) = n
        /\ \A i \in 1..n : new[i] = m + i
    <3>1. new \in [1..n -> 1..(m + n)]
      BY <1>1
    <3> QED
      BY <1>1, <3>1
  <2>4. vmodule_list \in Seq(1..(m + n))
    <3>1. vmodule_list \in [1..m -> 1..(m + n)]
      BY <1>1
    <3> QED
      BY <1>1, <3>1
  <2>5. /\ List \in Seq(1..(m + n)) /\ Len(List) = n + m
        /\ \A i \in 1..(n + m) :
             List[i] = IF i <= n THEN new[i] ELSE vmodule_list[i - n]
    <3> HIDE DEF new
    <3> QED
      BY <1>1, <2>1, <2>3, <2>4, ConcatProperties
  <2> HIDE DEF new, m, n
  <2>6. m \in Nat /\ n \in Nat
    BY <1>1 DEF m, n
  <2>7. \A i \in 1..n : i \in 1..(n + m) /\ Infos[List[i]] = Parsed[i]
    <3> SUFFICES ASSUME NEW i \in 1..n
                 PROVE  i \in 1..(n + m) /\ Infos[List[i]] = Parsed[i]
      OBVIOUS
    <3>1. i \in 1..(n + m) /\ m + i \in 1..(m + n) /\ (m + i) - m = i
          /\ ~(m + i <= m)
      BY <2>6
    <3>2. List[i] = m + i
      BY <2>3, <2>5, <3>1
    <3> QED
      BY <2>2, <3>1, <3>2
  <2>8. \A i \in 1..(m + n) : \E k \in 1..(n + m) : List[k] = i
    <3> SUFFICES ASSUME NEW i \in 1..(m + n)
                 PROVE  \E k \in 1..(n + m) : List[k] = i
      OBVIOUS
    <3>1. CASE i <= m
      <4>1. PICK k \in 1..m : vmodule_list[k] = i
        BY <1>1, <2>6, <3>1 DEF ListInv, m
      <4>2. n + k \in 1..(n + m) /\ ~(n + k <= n) /\ (n + k) - n = k
        BY <2>6
      <4> QED
        BY <2>5, <4>1, <4>2
    <3>2. CASE ~(i <= m)
      <4>1. i - m \in 1..n /\ i - m \in 1..(n + m) /\ m + (i - m) = i
        BY <2>6, <3>2
      <4> QED
        BY <2>3, <2>5, <4>1
    <3> QED
      BY <3>1, <3>2
  <2>9. m + n >= m /\ \A i \in 1..m : i \in 1..(m + n) /\ i <= m
    BY <2>6
  <2>10. Len(Infos) = m + n /\ Len(List) = m + n /\ n + m = m + n
    BY <2>2, <2>5, <2>6
  <2>11. Infos \in Seq(VModuleInfo) /\ List \in Seq(1..Len(Infos))
    BY <2>2, <2>5, <2>10
  <2>12. \A i \in 1..m : Infos[i] = info[i]
    BY <2>2, <2>9
  <2>13. \A i \in 1..Len(Infos) : \E k \in 1..Len(List) : List[k] = i
    BY <2>8, <2>10
  <2>14. \A i \in 1..n : i \in 1..Len(List) /\ Infos[List[i]] = Parsed[i]
    BY <2>7, <2>10
  <2>15. Len(Infos) >= m
    BY <2>9, <2>10
  <2> QED
    BY <2>10, <2>11, <2>12, <2>13, <2>14, <2>15 DEF m, n
<1> QED
  BY <1>2, <1>3

\* What InitVLOG3__ finds is a level of the list, of the first module that
\* matches, or --v if none does.
LEMMA FindProperties ==
  ASSUME Types, ListInv, NEW s \in Site
  PROVE  /\ Find(s) \in 0..Len(Infos)
         /\ Find(s) = 0 => \A k \in 1..Len(List) :
              ~MatchesFile[Infos[List[k]].module_pattern, s]
<1> DEFINE at == {i \in 1..Len(List) :
                    MatchesFile[Infos[List[i]].module_pattern, s]}
           first == CHOOSE i \in at : \A j \in at : i <= j
<1>1. /\ List \in Seq(1..Len(Infos)) /\ Len(Infos) \in Nat
      /\ Len(List) \in Nat
  BY ListProperties, LenProperties
<1>2. Find(s) = IF at = {} THEN 0 ELSE List[first]
  BY DEF Find
<1>3. at # {} => first \in at
  <2>1. at \subseteq 1..Len(List)
    OBVIOUS
  <2> HIDE DEF at
  <2> QED
    BY <1>1, <2>1, FirstIndex
<1>4. at # {} => List[first] \in 1..Len(Infos)
  BY <1>1, <1>3, ElementOfSeq
<1>5. /\ 0 \notin 1..Len(Infos) /\ 0 \in 0..Len(Infos)
      /\ \A i \in 1..Len(Infos) : i \in 0..Len(Infos)
  BY <1>1
<1>6. at = {} => \A k \in 1..Len(List) :
                   ~MatchesFile[Infos[List[k]].module_pattern, s]
  OBVIOUS
<1> HIDE DEF at, first
<1>7. CASE at = {}
  BY <1>2, <1>5, <1>6, <1>7
<1>8. CASE at # {}
  <2>1. Find(s) = List[first]
    BY <1>2, <1>8
  <2>2. Find(s) \in 1..Len(Infos)
    BY <1>4, <1>8, <2>1
  <2> QED
    BY <1>5, <2>2
<1> QED
  BY <1>7, <1>8

-----------------------------------------------------------------------------
(* The steps keep it.                                                      *)

\* The invariant holds at the start.
LEMMA InitVLog ==
  ASSUME Init
  PROVE  VLogInv
<1> USE VLogAssumption DEF VLogAssumption, Init
<1>1. Types
  <2>1. <<>> \in Seq(VModuleInfo) /\ <<>> \in Seq(1..Len(info))
    OBVIOUS
  <2>2. Uninitialized \in Pointer /\ "idle" \in PC /\ 0 \in Level
    BY DEF Pointer, PC
  <2>3. site \in [Thread -> Site \cup {AnySite}]
    BY DEF AnySite
  <2>4. arg \in [Thread -> Argument \cup {AnyArg}]
    BY DEF AnyArg
  <2>5. idx \in [Thread -> 1..(Len(vmodule_list) + 1)]
    OBVIOUS
  <2>6. calls \in 0..MaxCalls
    OBVIOUS
  <2> QED
    BY <2>1, <2>2, <2>3, <2>4, <2>5, <2>6 DEF Types, InVLOG_IS_ON
<1>2. SeenTypes
  BY DEF SeenTypes
<1>3. ListInv /\ LockInv /\ LoopInv
  BY DEF ListInv, LockInv, LoopInv
<1>4. FlagInv
  BY DEF FlagInv, FlagApplies, Uninitialized
<1>5. SeenInv
  BY DEF SeenInv, InVLOG_IS_ON
<1> QED
  BY <1>1, <1>2, <1>3, <1>4, <1>5 DEF VLogInv

\* The steps that leave the list alone.
Aside(t) ==
  \/ \E s \in Site, level \in Level : VLOG_IS_ON(t, s, level)
  \/ Compare(t) \/ CheckInitialized(t) \/ ReturnLevel(t)
  \/ \E pattern \in SetPattern, level \in Level : SetVLOGLevel(t, pattern, level)
  \/ Lock(t) \/ \E level \in Level : SetFlag(t, level)

\* The types ...
LEMMA AsideTypes ==
  ASSUME Types, NEW t \in Thread, Aside(t)
  PROVE  Types'
<1> USE VLogAssumption DEF VLogAssumption, Types, shared, Goto, Call, Return
<1>1. /\ UNCHANGED <<info, vmodule_list, inited_vmodule, vlocal>>
      /\ Pointer' = Pointer
  BY DEF Aside, VLOG_IS_ON, Compare, CheckInitialized, ReturnLevel,
         SetVLOGLevel, Lock, SetFlag, Pointer
<1>2. ASSUME NEW s \in Site, NEW level \in Level, VLOG_IS_ON(t, s, level)
      PROVE  Types'
  BY <1>1, <1>2 DEF VLOG_IS_ON, PC, InVLOG_IS_ON
<1>3. CASE Compare(t)
  BY ZenonT(60), <1>1, <1>3 DEF Compare, PC, InVLOG_IS_ON
<1>4. CASE CheckInitialized(t)
  <2>1. Uninitialized \in Pointer
    BY DEF Pointer
  <2> QED
    BY ZenonT(60), <1>1, <1>4, <2>1 DEF CheckInitialized, PC, InVLOG_IS_ON
<1>5. CASE ReturnLevel(t)
  BY <1>1, <1>5 DEF ReturnLevel, PC, InVLOG_IS_ON
<1>6. ASSUME NEW pattern \in SetPattern, NEW level \in Level,
             SetVLOGLevel(t, pattern, level)
      PROVE  Types'
  BY <1>1, <1>6 DEF SetVLOGLevel, PC, InVLOG_IS_ON, Argument
<1>7. CASE Lock(t)
  <2>1. 1 \in 1..(Len(vmodule_list) + 1)
    BY LenProperties
  <2> QED
    BY <1>1, <1>7, <2>1 DEF Lock, PC, InVLOG_IS_ON
<1>8. ASSUME NEW level \in Level, SetFlag(t, level)
      PROVE  Types'
  BY <1>1, <1>8 DEF SetFlag
<1> QED
  BY <1>2, <1>3, <1>4, <1>5, <1>6, <1>7, <1>8 DEF Aside

\* ... and the list and what is in it are as they were ...
LEMMA AsideKeeps ==
  ASSUME Types, ListInv, LockInv, FlagInv, LoopInv, NEW t \in Thread, Aside(t)
  PROVE  ListInv' /\ LockInv' /\ FlagInv' /\ LoopInv'
<1> USE DEF Types, shared, Goto, Call, Return
<1>1. UNCHANGED <<info, vmodule_list, inited_vmodule, vlocal>>
  BY DEF Aside, VLOG_IS_ON, Compare, CheckInitialized, ReturnLevel,
         SetVLOGLevel, Lock, SetFlag
<1>2. ListInv' /\ FlagInv'
  BY <1>1 DEF ListInv, FlagInv, FlagApplies
<1>3. LockInv'
  <2>1. CASE Lock(t)
    BY <2>1, VLogAssumption DEF Lock, LockInv, VLogAssumption
  <2>2. CASE ReturnLevel(t)
    BY <2>2 DEF ReturnLevel, LockInv
  <2>3. CASE /\ UNCHANGED vmodule_lock
             /\ \A u \in Thread : pc'[u] \in {"loop", "return"} => pc'[u] = pc[u]
    BY <2>3 DEF LockInv
  <2>4. \/ Lock(t) \/ ReturnLevel(t)
        \/ /\ UNCHANGED vmodule_lock
           /\ \A u \in Thread : pc'[u] \in {"loop", "return"} => pc'[u] = pc[u]
    BY DEF Aside, VLOG_IS_ON, Compare, CheckInitialized, SetVLOGLevel, SetFlag
  <2> QED
    BY <2>1, <2>2, <2>3, <2>4
<1>4. LoopInv'
  <2> SUFFICES ASSUME NEW u \in Thread, pc'[u] = "loop",
                      NEW k \in 1..Len(vmodule_list), k < idx'[u],
                      info[vmodule_list[k]].module_pattern = arg'[u].pattern
               PROVE  info[vmodule_list[k]].vlog_level = arg'[u].level
    BY <1>1 DEF LoopInv
  <2>1. CASE Lock(t) /\ u = t
    <3>1. idx'[u] = 1 /\ k >= 1
      BY <2>1 DEF Lock
    <3> QED
      BY <3>1
  <2>2. CASE ~(Lock(t) /\ u = t)
    <3>1. pc[u] = "loop" /\ idx'[u] = idx[u] /\ arg'[u] = arg[u]
      BY <2>2 DEF Aside, VLOG_IS_ON, Compare, CheckInitialized, ReturnLevel,
                  SetVLOGLevel, Lock, SetFlag
    <3> QED
      BY <3>1 DEF LoopInv
  <2> QED
    BY <2>1, <2>2
<1> QED
  BY <1>2, <1>3, <1>4

\* InitVLOG3__ parses the flag and leaves the statement to --v only if nothing
\* in the list matches.
LEMMA InitStep ==
  ASSUME Types, ListInv, LockInv, FlagInv, LoopInv, NEW t \in Thread,
         InitVLOG3__(t)
  PROVE  Types' /\ ListInv' /\ LockInv' /\ FlagInv' /\ LoopInv'
<1> USE DEF Types, Goto
<1>1. /\ site[t] \in Site /\ pc[t] = "InitVLOG3__" /\ vmodule_lock = NoThread
      /\ info' = Infos /\ vmodule_list' = List /\ inited_vmodule' = TRUE
      /\ vmodule_lock' = t /\ pc' = [pc EXCEPT ![t] = "return"]
      /\ ptr' = [ptr EXCEPT ![t] = Find(site[t])]
      /\ vlocal' = [vlocal EXCEPT ![site[t]] = Find(site[t])]
      /\ UNCHANGED <<FLAGS_v, calls, site, want, arg, idx, found, answer>>
  BY DEF InitVLOG3__, InVLOG_IS_ON
<1>2. /\ Infos \in Seq(VModuleInfo) /\ Len(Infos) >= Len(info)
      /\ \A i \in 1..Len(info) : Infos[i] = info[i]
      /\ List \in Seq(1..Len(Infos)) /\ Len(List) = Len(Infos)
      /\ \A i \in 1..Len(Infos) : \E k \in 1..Len(List) : List[k] = i
  BY ListProperties
<1>3. /\ Len(info) \in Nat /\ Len(Infos) \in Nat /\ Len(vmodule_list) = Len(info)
  BY <1>2, LenProperties DEF ListInv
<1>4. \A u \in Thread : pc[u] \notin {"loop", "return"}
  BY <1>1, VLogAssumption DEF LockInv, VLogAssumption
<1>5. Find(site[t]) \in Pointer' /\ Pointer \subseteq Pointer'
  <2>1. Find(site[t]) \in 0..Len(Infos)
    BY <1>1, FindProperties
  <2> QED
    BY <1>1, <1>2, <1>3, <2>1 DEF Pointer
<1>6. Types'
  <2>1. ptr' \in [Thread -> Pointer'] /\ vlocal' \in [Site -> Pointer']
    BY <1>1, <1>5
  <2>2. idx' \in [Thread -> 1..(Len(vmodule_list') + 1)]
    <3>1. \A u \in Thread : idx[u] \in 1..(Len(List) + 1)
      BY <1>2, <1>3
    <3> QED
      BY <1>1, <3>1
  <2>3. pc' \in [Thread -> PC]
    BY <1>1 DEF PC
  <2>4. \A u \in Thread :
          /\ pc'[u] \in InVLOG_IS_ON => site'[u] \in Site
          /\ pc'[u] \in {"SetVLOGLevel", "loop"} => arg'[u] \in Argument
    BY <1>1
  <2> HIDE DEF InVLOG_IS_ON
  <2> QED
    BY <1>1, <1>2, <2>1, <2>2, <2>3, <2>4
<1>7. ListInv'
  BY <1>1, <1>2 DEF ListInv
<1>8. LockInv' /\ LoopInv'
  BY <1>1, <1>4 DEF LockInv, LoopInv
<1>9. \A i \in 1..Len(Parsed) : \E k \in 1..Len(List) :
        Infos[List[k]].module_pattern = Parsed[i].module_pattern
  <2>1. CASE inited_vmodule
    BY <2>1 DEF FlagInv, Infos, List
  <2>2. CASE ~inited_vmodule
    BY <2>2, ListProperties
  <2> QED
    BY <2>1, <2>2
<1>10. FlagApplies'
  <2> SUFFICES ASSUME NEW s \in Site, vlocal'[s] = 0, NEW i \in 1..Len(Parsed)
               PROVE  ~MatchesFile[Parsed[i].module_pattern, s]
    BY DEF FlagApplies
  <2>1. CASE s = site[t]
    <3>1. Find(s) = 0
      BY <1>1, <2>1
    <3> QED
      BY <1>9, <3>1, FindProperties
  <2>2. CASE s # site[t]
    <3>1. vlocal[s] = 0
      BY <1>1, <2>2
    <3> QED
      BY <3>1 DEF FlagInv, FlagApplies
  <2> QED
    BY <2>1, <2>2
<1>11. FlagInv'
  BY <1>1, <1>9, <1>10 DEF FlagInv
<1> QED
  BY <1>6, <1>7, <1>8, <1>11

\* An iteration of SetVLOGLevel sets the level of what has the pattern.
LEMMA SetStep ==
  ASSUME Types, ListInv, LockInv, FlagInv, LoopInv, NEW t \in Thread, SetLevel(t)
  PROVE  Types' /\ ListInv' /\ LockInv' /\ FlagInv' /\ LoopInv'
<1> USE DEF Types
<1> DEFINE i == vmodule_list[idx[t]]
           new == [info EXCEPT ![i].vlog_level = arg[t].level]
<1>1. /\ pc[t] = "loop" /\ idx[t] <= Len(vmodule_list)
      /\ idx' = [idx EXCEPT ![t] = idx[t] + 1]
      /\ UNCHANGED <<vmodule_list, inited_vmodule, vmodule_lock, vlocal, FLAGS_v,
                     pc, calls, site, want, ptr, arg, answer>>
      /\ info' = IF info[i].module_pattern = arg[t].pattern THEN new ELSE info
  BY DEF SetLevel
<1>2. /\ Len(info) \in Nat /\ Len(vmodule_list) = Len(info)
      /\ arg[t] \in Argument /\ idx[t] \in 1..Len(vmodule_list)
  BY <1>1, LenProperties DEF ListInv
<1>3. i \in 1..Len(info) /\ info[i] \in VModuleInfo
  BY SMTT(60), <1>2
<1>4. /\ new \in Seq(VModuleInfo) /\ Len(new) = Len(info)
      /\ \A k \in 1..Len(info) :
           /\ new[k].module_pattern = info[k].module_pattern
           /\ new[k].vlog_level = IF k = i THEN arg[t].level ELSE info[k].vlog_level
  <2> DEFINE e == [info[i] EXCEPT !.vlog_level = arg[t].level]
  <2>1. e \in VModuleInfo /\ e.module_pattern = info[i].module_pattern
        /\ e.vlog_level = arg[t].level
    BY <1>2, <1>3 DEF VModuleInfo, Argument
  <2>2. new = [info EXCEPT ![i] = e]
    OBVIOUS
  <2> HIDE DEF e, new, i
  <2>3. /\ new \in Seq(VModuleInfo) /\ Len(new) = Len(info)
        /\ \A k \in 1..Len(info) : new[k] = IF k = i THEN e ELSE info[k]
    BY <1>3, <2>1, <2>2
  <2> QED
    BY <2>1, <2>3
<1> HIDE DEF new, i
<1>5. /\ info' \in Seq(VModuleInfo) /\ Len(info') = Len(info)
      /\ \A k \in 1..Len(info) :
           info'[k].module_pattern = info[k].module_pattern
  BY <1>1, <1>4
<1>6. \A k \in 1..Len(vmodule_list) : vmodule_list[k] \in 1..Len(info)
  OBVIOUS
<1>7. Types'
  <2>1. found' \in [Thread -> BOOLEAN]
    BY DEF SetLevel
  <2>2. idx' \in [Thread -> 1..(Len(vmodule_list) + 1)]
    <3>1. idx[t] + 1 \in 1..(Len(vmodule_list) + 1)
      BY SMTT(60), <1>2
    <3> QED
      BY <1>1, <3>1
  <2>3. Pointer' = Pointer
    BY <1>5 DEF Pointer
  <2> QED
    BY <1>1, <1>5, <2>1, <2>2, <2>3
<1>8. ListInv' /\ LockInv'
  BY <1>1, <1>5 DEF ListInv, LockInv
<1>9. FlagInv'
  <2>1. \A k \in 1..Len(vmodule_list) :
          info'[vmodule_list[k]].module_pattern =
            info[vmodule_list[k]].module_pattern
    BY <1>5, <1>6
  <2>2. FlagApplies'
    BY <1>1 DEF FlagInv, FlagApplies
  <2> QED
    BY <1>1, <2>1, <2>2 DEF FlagInv
<1>10. LoopInv'
  <2> SUFFICES ASSUME NEW u \in Thread, pc[u] = "loop",
                      NEW k \in 1..Len(vmodule_list), k < idx'[u],
                      info'[vmodule_list[k]].module_pattern = arg[u].pattern
               PROVE  info'[vmodule_list[k]].vlog_level = arg[u].level
    BY <1>1 DEF LoopInv
  <2>1. u = t
    BY <1>1 DEF LockInv
  <2> DEFINE j == vmodule_list[k]
  <2>2. j \in 1..Len(info) /\ info[j].module_pattern = arg[t].pattern
    BY <1>5, <1>6, <2>1
  <2>3. CASE j = i
    BY <1>1, <1>4, <2>1, <2>2, <2>3
  <2>4. CASE j # i
    <3>1. k < idx[t]
      <4>1. k # idx[t]
        BY <2>4 DEF i
      <4>2. k < idx[t] + 1
        BY <1>1, <2>1
      <4> QED
        BY <1>2, <4>1, <4>2
    <3>2. info[j].vlog_level = arg[t].level
      BY <1>1, <2>2, <3>1 DEF LoopInv
    <3> QED
      BY <1>1, <1>4, <2>1, <2>2, <2>4, <3>2
  <2> QED
    BY <2>3, <2>4
<1> QED
  BY <1>7, <1>8, <1>9, <1>10

\* What SetVLOGLevel adds comes first in the list and last in info.
LEMMA AddStep ==
  ASSUME Types, ListInv, LockInv, FlagInv, LoopInv, NEW t \in Thread, AddModule(t)
  PROVE  Types' /\ ListInv' /\ LockInv' /\ FlagInv' /\ LoopInv'
<1> USE DEF Types, Goto
<1> DEFINE m == Len(info)
           e == [module_pattern |-> arg[t].pattern, vlog_level |-> arg[t].level]
<1>1. /\ pc[t] = "loop" /\ vmodule_lock' = NoThread
      /\ idx' = [idx EXCEPT ![t] = 1] /\ pc' = [pc EXCEPT ![t] = "idle"]
      /\ UNCHANGED <<inited_vmodule, vlocal, FLAGS_v, calls, site, want, ptr, arg,
                     found, answer>>
      /\ \/ UNCHANGED <<info, vmodule_list>>
         \/ /\ info' = Append(info, e)
            /\ vmodule_list' = <<m + 1>> \o vmodule_list
  BY DEF AddModule
<1>2. /\ m \in Nat /\ Len(vmodule_list) = m /\ arg[t] \in Argument
      /\ e \in VModuleInfo
  BY <1>1, LenProperties DEF ListInv, Argument, VModuleInfo, Pattern
<1> HIDE DEF e
<1>3. /\ info' \in Seq(VModuleInfo) /\ Len(info') \in {m, m + 1}
      /\ \A k \in 1..m : info'[k] = info[k]
  <2>1. CASE info' = info
    BY <2>1
  <2>2. CASE info' = Append(info, e)
    BY <1>2, <2>2, AppendProperties
  <2> QED
    BY <1>1, <2>1, <2>2
<1> DEFINE old == vmodule_list
<1>4. \/ UNCHANGED <<info, vmodule_list>>
      \/ /\ Len(info') = m + 1 /\ Len(vmodule_list') = m + 1
         /\ vmodule_list' \in Seq(1..(m + 1))
         /\ vmodule_list'[1] = m + 1
         /\ \A k \in 1..m : vmodule_list'[k + 1] = vmodule_list[k]
  <2> SUFFICES ASSUME info' = Append(info, e),
                      vmodule_list' = <<m + 1>> \o vmodule_list
               PROVE  /\ Len(info') = m + 1 /\ Len(vmodule_list') = m + 1
                      /\ vmodule_list' \in Seq(1..(m + 1))
                      /\ vmodule_list'[1] = m + 1
                      /\ \A k \in 1..m : vmodule_list'[k + 1] = vmodule_list[k]
    BY <1>1
  <2>1. Len(info') = m + 1
    BY <1>2
  <2>2. /\ <<m + 1>> \in Seq(1..(m + 1)) /\ Len(<<m + 1>>) = 1
        /\ <<m + 1>>[1] = m + 1
    BY <1>2
  <2>3. vmodule_list \in Seq(1..(m + 1))
    <3>1. vmodule_list \in [1..m -> 1..(m + 1)]
      BY SMTT(60), <1>2
    <3> QED
      BY <1>2, <3>1
  <2>4. /\ vmodule_list' \in Seq(1..(m + 1)) /\ Len(vmodule_list') = 1 + m
        /\ \A k \in 1..(1 + m) : vmodule_list'[k] =
             IF k <= 1 THEN <<m + 1>>[k] ELSE vmodule_list[k - 1]
    BY <1>2, <2>2, <2>3, ConcatProperties
  <2>5. /\ 1 \in 1..(1 + m) /\ 1 + m = m + 1
        /\ \A k \in 1..m : /\ k + 1 \in 1..(1 + m) /\ ~(k + 1 <= 1)
                           /\ (k + 1) - 1 = k
    BY <1>2
  <2> QED
    BY <2>1, <2>2, <2>4, <2>5
<1>5. Types'
  <2>1. Pointer \subseteq Pointer'
    BY <1>2, <1>3 DEF Pointer
  <2>2. vmodule_list' \in Seq(1..Len(info'))
    BY <1>4
  <2>3. idx' \in [Thread -> 1..(Len(vmodule_list') + 1)]
    <3>1. \A u \in Thread : idx[u] \in 1..(Len(vmodule_list') + 1)
      BY <1>2, <1>4
    <3>2. 1 \in 1..(Len(vmodule_list') + 1)
      BY <1>2, <1>4
    <3> QED
      BY <1>1, <3>1, <3>2
  <2>4. vmodule_lock' \in Thread \cup {NoThread} /\ pc' \in [Thread -> PC]
    BY <1>1 DEF PC
  <2>5. \A u \in Thread :
          /\ pc'[u] \in InVLOG_IS_ON => site'[u] \in Site
          /\ pc'[u] \in {"SetVLOGLevel", "loop"} => arg'[u] \in Argument
    BY <1>1 DEF InVLOG_IS_ON
  <2>6. ptr' \in [Thread -> Pointer'] /\ vlocal' \in [Site -> Pointer']
    BY <1>1, <2>1
  <2> QED
    BY <1>1, <1>3, <2>2, <2>3, <2>4, <2>5, <2>6
<1>6. ListInv'
  <2>1. CASE UNCHANGED <<info, vmodule_list>>
    BY <2>1 DEF ListInv
  <2>2. CASE ~UNCHANGED <<info, vmodule_list>>
    <3> SUFFICES ASSUME NEW i \in 1..(m + 1)
                 PROVE  \E k \in 1..(m + 1) : vmodule_list'[k] = i
      BY <1>4, <2>2 DEF ListInv
    <3>1. CASE i = m + 1
      BY <1>2, <1>4, <2>2, <3>1
    <3>2. CASE i # m + 1
      <4>1. i \in 1..m
        BY <1>2, <3>2
      <4>2. PICK k \in 1..m : vmodule_list[k] = i
        BY <1>2, <4>1 DEF ListInv
      <4>3. k + 1 \in 1..(m + 1)
        BY <1>2
      <4> QED
        BY <1>4, <2>2, <4>2, <4>3
    <3> QED
      BY <3>1, <3>2
  <2> QED
    BY <2>1, <2>2
<1>7. \A u \in Thread : pc'[u] \notin {"loop", "return"}
  <2> SUFFICES ASSUME NEW u \in Thread, pc'[u] \in {"loop", "return"}
               PROVE  FALSE
    OBVIOUS
  <2>1. u # t /\ pc[u] \in {"loop", "return"}
    BY <1>1
  <2> QED
    BY <1>1, <2>1 DEF LockInv
<1>8. LockInv' /\ LoopInv'
  BY <1>7 DEF LockInv, LoopInv
<1>9. FlagInv'
  <2>1. FlagApplies'
    BY <1>1 DEF FlagInv, FlagApplies
  <2>2. ASSUME inited_vmodule, NEW i \in 1..Len(Parsed)
        PROVE  \E k \in 1..Len(vmodule_list') :
                 info'[vmodule_list'[k]].module_pattern = Parsed[i].module_pattern
    <3>1. PICK k \in 1..m :
            info[vmodule_list[k]].module_pattern = Parsed[i].module_pattern
      BY <1>2, <2>2 DEF FlagInv
    <3>2. vmodule_list[k] \in 1..m
      <4>1. vmodule_list \in [1..m -> 1..m]
        BY <1>2, LenProperties
      <4> HIDE DEF m
      <4> QED
        BY <4>1
    <3>3. CASE UNCHANGED <<info, vmodule_list>>
      BY <1>2, <3>1, <3>3
    <3>4. CASE ~UNCHANGED <<info, vmodule_list>>
      <4>1. k + 1 \in 1..(m + 1) /\ vmodule_list'[k + 1] = vmodule_list[k]
        BY <1>2, <1>4, <3>4
      <4> QED
        <5>1. info'[vmodule_list'[k + 1]] = info[vmodule_list[k]]
          BY <1>3, <3>2, <4>1
        <5>2. Len(vmodule_list') = m + 1
          BY <1>4, <3>4
        <5> HIDE DEF m
        <5> QED
          BY <3>1, <4>1, <5>1, <5>2
    <3> QED
      BY <3>3, <3>4
  <2> QED
    BY <1>1, <2>1, <2>2 DEF FlagInv
<1> QED
  BY <1>5, <1>6, <1>8, <1>9

-----------------------------------------------------------------------------
(* What the statements observe.                                            *)

\* What a pointer leads to is a level, and once there is one it does not
\* depend on whether the flag is parsed.
Levels ==
  /\ \A p \in Pointer, s \in Site : LevelOf(p, s) \in Level
  /\ \A p \in Pointer : \A s : p # Uninitialized => LevelOf(p, s) = Deref(p)

\* In every state that has the types, ...
LEMMA LevelProperties ==
  ASSUME Types, ListInv
  PROVE  Levels
<1>1. /\ Infos \in Seq(VModuleInfo) /\ Len(Infos) \in Nat /\ Len(info) \in Nat
      /\ Len(Infos) >= Len(info)
      /\ \A i \in 1..Len(info) : Infos[i] = info[i]
  BY ListProperties, LenProperties DEF Types
<1>2. \A i \in 1..Len(Infos) : Infos[i].vlog_level \in Level
  <2>1. \A i \in 1..Len(Infos) : Infos[i] \in VModuleInfo
    BY <1>1, ElementOfSeq
  <2> HIDE DEF Infos
  <2> QED
    BY <2>1 DEF VModuleInfo
<1>3. FLAGS_v \in Level
  BY DEF Types
<1>4. ASSUME NEW p \in Pointer, NEW s \in Site
      PROVE  LevelOf(p, s) \in Level
  <2>1. CASE p = Uninitialized
    <3>1. Find(s) = 0 \/ Find(s) \in 1..Len(Infos)
      <4>1. Find(s) \in 0..Len(Infos)
        BY FindProperties
      <4> QED
        BY <1>1, <4>1
    <3>2. LevelOf(p, s) = IF Find(s) = 0 THEN FLAGS_v ELSE Infos[Find(s)].vlog_level
      BY <2>1 DEF LevelOf
    <3> QED
      BY <1>2, <1>3, <3>1, <3>2
  <2>2. CASE p # Uninitialized
    <3>1. p = 0 \/ p \in 1..Len(Infos)
      BY <1>1, <2>2 DEF Pointer
    <3>2. LevelOf(p, s) = IF p = 0 THEN FLAGS_v ELSE Infos[p].vlog_level
      BY <2>2 DEF LevelOf
    <3> QED
      BY <1>2, <1>3, <3>1, <3>2
  <2> QED
    BY <2>1, <2>2
<1>5. ASSUME NEW p \in Pointer, NEW s, p # Uninitialized
      PROVE  LevelOf(p, s) = Deref(p)
  <2>1. p = 0 \/ p \in 1..Len(info)
    BY <1>1, <1>5 DEF Pointer
  <2>2. /\ LevelOf(p, s) = IF p = 0 THEN FLAGS_v ELSE Infos[p].vlog_level
        /\ Deref(p) = IF p = 0 THEN FLAGS_v ELSE info[p].vlog_level
    BY <1>5 DEF LevelOf, Deref
  <2> QED
    BY <1>1, <2>1, <2>2
<1> QED
  BY <1>4, <1>5 DEF Levels

\* ... and so in the one after a step.
LEMMA LevelAfter == Types' /\ ListInv' => Levels'
<1>1. Types /\ ListInv => Levels
  BY LevelProperties
<1> QED
  BY <1>1, PTL

\* What is observed covers every pointer that the statement has had, and the
\* level there, after every step.
LEMMA Observed ==
  ASSUME Types, ListInv, SeenTypes, SeenInv, Types', ListInv',
         \A p \in Pointer : p \in Pointer',
         Observe, NEW u \in Thread, pc'[u] \in InVLOG_IS_ON,
         \/ ptr'[u] = Uninitialized
         \/ ptr'[u] = vlocal'[site'[u]]
         \/ pc[u] \in InVLOG_IS_ON /\ ptr'[u] = ptr[u]
  PROVE  /\ seen'[u] \in SUBSET [ptr : Pointer', level : Level]
         /\ \A o \in seen'[u] : o.ptr # Uninitialized =>
              [ptr |-> o.ptr, level |-> Deref(o.ptr)'] \in seen'[u]
         /\ ptr'[u] # Uninitialized => \E o \in seen'[u] : o.ptr = ptr'[u]
<1> DEFINE old == {o.ptr : o \in seen[u]} \ {Uninitialized}
           P == old \cup {vlocal'[site'[u]]}
           L(p) == LevelOf(p, site[u])'
<1>1. seen'[u] = seen[u] \cup {[ptr |-> p, level |-> L(p)] : p \in P}
  BY DEF Observe
<1>2. Levels'
  BY LevelAfter
<1>3. seen[u] \in SUBSET [ptr : Pointer, level : Level]
  BY DEF SeenTypes
<1>4. site'[u] \in Site /\ vlocal'[site'[u]] \in Pointer'
  BY DEF Types
<1>5. P \subseteq Pointer'
  BY <1>3, <1>4
<1>6. \A p \in P : L(p) \in Level
  BY <1>2, <1>4, <1>5 DEF Levels
<1>7. \A p \in P : p # Uninitialized => L(p) = Deref(p)'
  BY <1>2, <1>5 DEF Levels
<1>8. \A o \in seen[u] : o.ptr # Uninitialized => o.ptr \in P
  OBVIOUS
<1>9. vlocal'[site'[u]] \in P
  OBVIOUS
<1> HIDE DEF P, L
<1>10. seen'[u] \in SUBSET [ptr : Pointer', level : Level]
  BY <1>1, <1>3, <1>5, <1>6
<1>11. ASSUME NEW o \in seen'[u], o.ptr # Uninitialized
       PROVE  [ptr |-> o.ptr, level |-> Deref(o.ptr)'] \in seen'[u]
  <2>1. o.ptr \in P
    BY <1>1, <1>8, <1>11
  <2>2. [ptr |-> o.ptr, level |-> L(o.ptr)] \in seen'[u]
    BY <1>1, <2>1
  <2> QED
    BY <1>7, <1>11, <2>1, <2>2
<1>12. ASSUME ptr'[u] # Uninitialized
       PROVE  \E o \in seen'[u] : o.ptr = ptr'[u]
  <2>1. CASE ptr'[u] = vlocal'[site'[u]]
    <3>1. PICK p \in P : p = ptr'[u]
      BY <1>9, <2>1
    <3>2. [ptr |-> p, level |-> L(p)] \in seen'[u]
      BY <1>1
    <3> QED
      BY <3>1, <3>2
  <2>2. CASE pc[u] \in InVLOG_IS_ON /\ ptr'[u] = ptr[u]
    <3>1. \E o \in seen[u] : o.ptr = ptr[u]
      BY <1>12, <2>2 DEF SeenInv
    <3> QED
      BY <1>1, <2>2, <3>1
  <2> QED
    BY <1>12, <2>1, <2>2
<1> QED
  BY <1>10, <1>11, <1>12

\* A step keeps what is observed up to date.
LEMMA SeenStep ==
  ASSUME Types, ListInv, SeenTypes, SeenInv, Types', ListInv',
         NEW t \in Thread, Step(t), Observe
  PROVE  SeenTypes' /\ SeenInv'
<1>1. \A p \in Pointer : p \in Pointer'
  <2>1. /\ Len(info) \in Nat /\ Len(Infos) \in Nat /\ Len(Infos) >= Len(info)
        /\ Infos \in Seq(VModuleInfo)
    BY ListProperties, LenProperties DEF Types
  <2>2. Len(info') >= Len(info) /\ Len(info') \in Nat
    <3>1. Len(info') \in Nat
      BY LenProperties DEF Types
    <3>2. \/ info' = info \/ info' = Infos \/ \E e : info' = Append(info, e)
          \/ \E i, e : info' = [info EXCEPT ![i] = e]
      <4>1. CASE SetLevel(t)
        <5> DEFINE i == vmodule_list[idx[t]]
        <5>1. \/ info' = info
              \/ info' = [info EXCEPT ![i] =
                           [info[i] EXCEPT !.vlog_level = arg[t].level]]
          BY <4>1 DEF SetLevel
        <5> HIDE DEF i
        <5> QED
          BY <5>1
      <4>2. CASE ~SetLevel(t)
        BY <4>2 DEF Step, VLOG_IS_ON, Compare, CheckInitialized, InitVLOG3__,
                    ReturnLevel, SetVLOGLevel, Lock, AddModule, SetFlag, shared
      <4> QED
        BY <4>1, <4>2
    <3>3. CASE \E e : info' = Append(info, e)
      BY <2>1, <3>3 DEF Types
    <3>4. CASE \E i, e : info' = [info EXCEPT ![i] = e]
      BY <2>1, <3>4 DEF Types
    <3> QED
      BY <2>1, <3>1, <3>2, <3>3, <3>4
  <2> QED
    BY <2>1, <2>2 DEF Pointer
<1>2. ASSUME NEW u \in Thread, pc'[u] \in InVLOG_IS_ON
      PROVE  \/ ptr'[u] = Uninitialized
             \/ ptr'[u] = vlocal'[site'[u]]
             \/ pc[u] \in InVLOG_IS_ON /\ ptr'[u] = ptr[u]
  <2> USE DEF Types, Goto, Call, Return, shared
  <2>1. CASE u # t
    <3>1. pc'[u] = pc[u] /\ ptr'[u] = ptr[u]
      <4>1. (\E l : pc' = [pc EXCEPT ![t] = l]) \/ pc' = pc
        BY DEF Step, VLOG_IS_ON, Compare, CheckInitialized, InitVLOG3__,
               ReturnLevel, SetVLOGLevel, Lock, SetLevel, AddModule, SetFlag
      <4>2. (\E p : ptr' = [ptr EXCEPT ![t] = p]) \/ ptr' = ptr
        BY DEF Step, VLOG_IS_ON, Compare, CheckInitialized, InitVLOG3__,
               ReturnLevel, SetVLOGLevel, Lock, SetLevel, AddModule, SetFlag
      <4> QED
        BY <2>1, <4>1, <4>2
    <3> QED
      BY <1>2, <3>1
  <2>2. CASE u = t
    <3>1. ASSUME NEW s \in Site, NEW level \in Level, VLOG_IS_ON(t, s, level)
          PROVE  ptr'[t] = vlocal'[site'[t]]
      BY <3>1 DEF VLOG_IS_ON
    <3>2. CASE Compare(t)
      BY <2>2, <3>2 DEF Compare, InVLOG_IS_ON
    <3>3. CASE CheckInitialized(t)
      BY <2>2, <3>3 DEF CheckInitialized
    <3>4. CASE InitVLOG3__(t)
      BY <2>2, <3>4 DEF InitVLOG3__, InVLOG_IS_ON
    <3>5. CASE ReturnLevel(t) \/ Lock(t) \/ SetLevel(t) \/ AddModule(t)
      BY <1>2, <2>2, <3>5 DEF ReturnLevel, Lock, SetLevel, AddModule, InVLOG_IS_ON
    <3>6. ASSUME NEW pattern \in SetPattern, NEW level \in Level,
                 SetVLOGLevel(t, pattern, level)
          PROVE  FALSE
      BY <1>2, <2>2, <3>6 DEF SetVLOGLevel, InVLOG_IS_ON
    <3>7. ASSUME NEW level \in Level, SetFlag(t, level)
          PROVE  FALSE
      BY <1>2, <2>2, <3>7 DEF SetFlag, InVLOG_IS_ON
    <3> QED
      BY <2>2, <3>1, <3>2, <3>3, <3>4, <3>5, <3>6, <3>7 DEF Step
  <2> QED
    BY <2>1, <2>2
<1>3. ASSUME NEW u \in Thread, pc'[u] \in InVLOG_IS_ON
      PROVE  /\ seen'[u] \in SUBSET [ptr : Pointer', level : Level]
             /\ \A o \in seen'[u] : o.ptr # Uninitialized =>
                  [ptr |-> o.ptr, level |-> Deref(o.ptr)'] \in seen'[u]
             /\ ptr'[u] # Uninitialized => \E o \in seen'[u] : o.ptr = ptr'[u]
  BY <1>1, <1>2, <1>3, Observed
<1>4. SeenTypes'
  <2>1. \A u \in Thread : pc'[u] \notin InVLOG_IS_ON => seen'[u] = {}
    BY DEF Observe
  <2>2. DOMAIN seen' = Thread /\ seen' = [u \in Thread |-> seen'[u]]
    BY DEF Observe
  <2>3. \A u \in Thread : seen'[u] \in SUBSET [ptr : Pointer', level : Level]
    BY <1>3, <2>1
  <2> QED
    BY <2>2, <2>3 DEF SeenTypes
<1>5. SeenInv'
  BY <1>3 DEF SeenInv
<1> QED
  BY <1>4, <1>5

-----------------------------------------------------------------------------
(* The theorems.                                                           *)

\* Any step keeps the invariant.
LEMMA VLogStep ==
  ASSUME VLogInv, [Next]_vars
  PROVE  VLogInv'
<1> USE DEF VLogInv
<1>1. CASE UNCHANGED vars
  <2>1. UNCHANGED <<info, vmodule_list, inited_vmodule, vmodule_lock, vlocal,
                    FLAGS_v, calls, pc, site, want, ptr, arg, idx, found,
                    answer, seen>>
    BY <1>1 DEF vars, shared
  <2>2. Pointer' = Pointer /\ \A p : Deref(p)' = Deref(p)
    BY <2>1 DEF Pointer, Deref
  <2>3. Types' /\ SeenTypes'
    BY <2>1, <2>2 DEF Types, SeenTypes
  <2>4. ListInv' /\ LockInv' /\ LoopInv'
    BY <2>1 DEF ListInv, LockInv, LoopInv
  <2>5. FlagInv'
    BY <2>1 DEF FlagInv, FlagApplies
  <2>6. SeenInv'
    BY <2>1, <2>2 DEF SeenInv
  <2> QED
    BY <2>3, <2>4, <2>5, <2>6
<1>2. ASSUME NEW t \in Thread, Step(t), Observe
      PROVE  VLogInv'
  <2>1. Aside(t) \/ InitVLOG3__(t) \/ SetLevel(t) \/ AddModule(t)
    BY <1>2 DEF Step, Aside
  <2>2. Types' /\ ListInv' /\ LockInv' /\ FlagInv' /\ LoopInv'
    BY <2>1, AsideTypes, AsideKeeps, InitStep, SetStep, AddStep
  <2>3. SeenTypes' /\ SeenInv'
    BY <1>2, <2>2, SeenStep
  <2> QED
    BY <2>2, <2>3
<1> QED
  BY <1>1, <1>2 DEF Next, Stop

\* The invariant holds of any threads, statements, patterns and flag.
THEOREM VLogInvariance == Spec => []VLogInv
<1>1. Init => VLogInv
  BY InitVLog
<1>2. VLogInv /\ [Next]_vars => VLogInv'
  BY VLogStep
<1> QED
  BY <1>1, <1>2, PTL DEF Spec

\* The variables have their types, where there is a statement and a pattern to
\* begin with.
THEOREM VLogTypeCorrect ==
  ASSUME Site # {}, SetPattern # {}
  PROVE  Spec => []TypeOK
<1>1. AnySite \in Site /\ AnyArg \in Argument
  <2>1. AnySite \in Site
    BY DEF AnySite
  <2>2. PICK p \in SetPattern : TRUE
    OBVIOUS
  <2>3. [module_pattern |-> p, vlog_level |-> 0].vlog_level = 0
    OBVIOUS
  <2>4. [pattern |-> p, level |-> 0] \in [pattern : SetPattern, level : {0}]
    BY <2>2
  <2>5. AnyArg \in [pattern : SetPattern, level : {0}]
    BY <2>4 DEF AnyArg
  <2> QED
    BY <2>1, <2>5, VLogAssumption DEF Argument, VLogAssumption
<1>2. Site \cup {AnySite} = Site /\ Argument \cup {AnyArg} = Argument
  BY <1>1
<1>3. VLogInv => TypeOK
  BY <1>2 DEF VLogInv, Types, SeenTypes, TypeOK, Argument
<1> QED
  BY <1>3, VLogInvariance, PTL

\* No module is ever lost or listed twice: a level that a statement has cached
\* a pointer to stays where SetVLOGLevel finds it (vlog_is_on.cc:75-132).
THEOREM NoModuleLost == Spec => []ListComplete
<1>1. ASSUME VLogInv
      PROVE  ListComplete
  <2>1. \A k \in 1..Len(vmodule_list) : vmodule_list[k] \in 1..Len(info)
    BY <1>1 DEF VLogInv, Types
  <2>2. /\ Len(vmodule_list) = Len(info)
        /\ \A i \in 1..Len(info) :
             \E k \in 1..Len(vmodule_list) : vmodule_list[k] = i
    BY <1>1 DEF VLogInv, ListInv
  <2>3. {vmodule_list[k] : k \in 1..Len(vmodule_list)} = 1..Len(info)
    BY <2>1, <2>2
  <2> QED
    BY <2>2, <2>3 DEF ListComplete
<1> QED
  BY <1>1, VLogInvariance, PTL

\* A statement is left to --v only if no entry of --vmodule matches its file,
\* whatever was called before the flag was parsed (vlog_is_on.cc:170-214).
THEOREM FlagOverrides == Spec => []FlagApplies
<1>1. VLogInv => FlagApplies
  BY DEF VLogInv, FlagInv
<1> QED
  BY <1>1, VLogInvariance, PTL

\* A statement is silent only if some level that it pointed to during the call
\* was too low then, however many threads use and change it without a lock
\* (vlog_is_on.h:77-84).
THEOREM SilenceHasAReason == Spec => SilentForAReason
<1> DEFINE A == \A t \in Thread :
                  pc[t] \in InVLOG_IS_ON /\ pc'[t] = "idle" /\ ~answer'[t]
                    => \E o \in seen[t] : o.level < want[t]
<1>1. ASSUME VLogInv, [Next]_vars
      PROVE  [A]_vars
  <2> SUFFICES ASSUME NEW u \in Thread, Step(u), NEW t \in Thread,
                      pc[t] \in InVLOG_IS_ON, pc'[t] = "idle", ~answer'[t]
               PROVE  \E o \in seen[t] : o.level < want[t]
    BY <1>1 DEF Next, Stop
  <2> USE DEF VLogInv, Types, Goto, Return, Call
  <2>1. Deref(ptr[t]) < want[t]
    <3>1. u = t
      <4>1. (\E l : pc' = [pc EXCEPT ![u] = l]) \/ pc' = pc
        BY DEF Step, VLOG_IS_ON, Compare, CheckInitialized, InitVLOG3__,
               ReturnLevel, SetVLOGLevel, Lock, SetLevel, AddModule, SetFlag
      <4> QED
        BY <1>1, <4>1 DEF InVLOG_IS_ON
    <3>2. Compare(t) \/ CheckInitialized(t) \/ ReturnLevel(t)
      BY <1>1, <3>1 DEF Step, VLOG_IS_ON, InitVLOG3__, SetVLOGLevel, Lock,
                  SetLevel, AddModule, SetFlag, InVLOG_IS_ON
    <3>3. ~(Deref(ptr[t]) >= want[t])
      BY <1>1, <3>2 DEF Compare, CheckInitialized, ReturnLevel
    <3>4. Deref(ptr[t]) \in Int /\ want[t] \in Int
      <4>1. /\ ptr[t] \in Pointer /\ want[t] \in Level /\ FLAGS_v \in Level
            /\ Level \subseteq Int /\ info \in Seq(VModuleInfo) /\ Len(info) \in Nat
        BY <1>1, VLogAssumption, LenProperties DEF VLogAssumption
      <4>4. FLAGS_v \in Int /\ want[t] \in Int
        BY <4>1
      <4>2. CASE ptr[t] \in 1..Len(info)
        <5>1. info[ptr[t]] \in VModuleInfo
          BY <4>1, <4>2, ElementOfSeq
        <5>2. info[ptr[t]].vlog_level \in Int
          BY <4>1, <5>1 DEF VModuleInfo
        <5>3. ptr[t] # Uninitialized /\ ptr[t] # 0
          BY <4>1, <4>2 DEF Uninitialized
        <5>4. Deref(ptr[t]) = info[ptr[t]].vlog_level
          BY <5>3 DEF Deref
        <5> QED
          BY <4>4, <5>2, <5>4
      <4>3. CASE ptr[t] \notin 1..Len(info)
        <5>1. ptr[t] \in {Uninitialized, 0}
          BY <4>1, <4>3 DEF Pointer
        <5>2. Deref(ptr[t]) \in {kLogSiteUninitialized, FLAGS_v}
          BY <5>1 DEF Deref
        <5>3. kLogSiteUninitialized \in Int
          BY DEF kLogSiteUninitialized
        <5> QED
          BY <4>4, <5>2, <5>3
      <4> QED
        BY <4>2, <4>3
    <3> QED
      BY <3>3, <3>4
  <2>2. ptr[t] # Uninitialized
    <3>1. want[t] < kLogSiteUninitialized /\ want[t] \in Int
      BY <1>1, VLogAssumption DEF VLogAssumption
    <3>2. ptr[t] = Uninitialized => Deref(ptr[t]) = kLogSiteUninitialized
      BY DEF Deref
    <3> QED
      BY <2>1, <3>1, <3>2 DEF kLogSiteUninitialized
  <2>3. PICK o \in seen[t] : o.ptr = ptr[t]
    BY <1>1, <2>2 DEF SeenInv
  <2>4. [ptr |-> ptr[t], level |-> Deref(ptr[t])] \in seen[t]
    BY <1>1, <2>2, <2>3 DEF SeenInv
  <2> QED
    BY <2>1, <2>4
<1> QED
  BY <1>1, VLogInvariance, PTL DEF Spec, SilentForAReason

\* When SetVLOGLevel ends every statement that the exact pattern controls has
\* the level (vlog_is_on.cc:135-166).
THEOREM ExactPatternSets == Spec => ExactPatternReaches
<1> DEFINE A == \A t \in Thread : pc[t] = "loop" /\ pc'[t] = "idle" =>
                  \A s \in Site :
                    vlocal[s] > 0 /\ info[vlocal[s]].module_pattern = arg[t].pattern
                      => info[vlocal[s]].vlog_level = arg[t].level
<1>1. ASSUME VLogInv, [Next]_vars
      PROVE  [A]_vars
  <2> SUFFICES ASSUME NEW u \in Thread, Step(u), NEW t \in Thread,
                      pc[t] = "loop", pc'[t] = "idle", NEW s \in Site,
                      vlocal[s] > 0,
                      info[vlocal[s]].module_pattern = arg[t].pattern
               PROVE  info[vlocal[s]].vlog_level = arg[t].level
    BY <1>1 DEF Next, Stop
  <2> USE DEF VLogInv, Types, Goto, Return, Call
  <2>1. AddModule(t)
    <3>1. u = t
      <4>1. (\E l : pc' = [pc EXCEPT ![u] = l]) \/ pc' = pc
        BY DEF Step, VLOG_IS_ON, Compare, CheckInitialized, InitVLOG3__,
               ReturnLevel, SetVLOGLevel, Lock, SetLevel, AddModule, SetFlag
      <4> QED
        BY <1>1, <4>1
    <3> QED
      BY <1>1, <3>1 DEF Step, VLOG_IS_ON, Compare, CheckInitialized, InitVLOG3__,
                  ReturnLevel, SetVLOGLevel, Lock, SetLevel, SetFlag
  <2>2. /\ idx[t] > Len(vmodule_list) /\ idx[t] \in Nat
        /\ Len(vmodule_list) \in Nat /\ Len(info) \in Nat
    BY <1>1, <2>1, LenProperties DEF AddModule
  <2>3. vlocal[s] \in 1..Len(info)
    BY <1>1, <2>2 DEF Pointer, Uninitialized
  <2>4. PICK k \in 1..Len(vmodule_list) : vmodule_list[k] = vlocal[s]
    BY <1>1, <2>3 DEF ListInv
  <2>5. k < idx[t]
    BY <2>2
  <2> QED
    BY <1>1, <2>4, <2>5 DEF LoopInv
<1> QED
  BY <1>1, VLogInvariance, PTL DEF Spec, ExactPatternReaches
=============================================================================
