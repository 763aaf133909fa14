----------------------------- MODULE StackTrace -----------------------------
(***************************************************************************)
(* The stack trace of a program that fails (stacktrace_x86-inl.h and       *)
(* DumpStackTrace of utilities.cc): GetStackTrace follows the saved frame  *)
(* pointers, and each return address it finds is printed with the name     *)
(* that Symbolize gives it.                                                *)
(***************************************************************************)
EXTENDS Symbolize

CONSTANTS
  Stacks,      \* what the stack may hold
  MaxDepth,    \* 32 in the code
  SkipCount,   \* what DumpStackTrace is called with
  Word,        \* sizeof(void*)
  MaxFrame,    \* 100000 in the code
  Room         \* the size of DumpPCAndSymbol's buffer, 1024

\* A stack: the frame pointer of GetStackTrace, what the words at a frame
\* pointer and behind it hold, and, for comparison, where the calls that are
\* in progress will return to, innermost first, and their frame pointers.  The
\* functions keep them: each frame's is saved in the next one, within bounds,
\* and what the outermost one holds is none, or that of a return to 0.
Stack(s) ==
  LET n == Len(s.calls)
      p == s.pointers IN
  /\ \A a \in DOMAIN s.frame : a \in Nat /\ s.frame[a] \in [next : Nat, ret : Nat]
  /\ s.calls \in Seq(Nat \ {0}) /\ p \in Seq(DOMAIN s.frame \ {0})
  /\ n > 0 /\ Len(p) = n /\ s.top = p[1]
  /\ \A k \in 1..n : s.frame[p[k]].ret = s.calls[k]
  /\ \A k \in 1..(n - 1) :
       /\ s.frame[p[k]].next = p[k + 1] /\ p[k + 1] % Word = 0
       /\ p[k] < p[k + 1] /\ p[k + 1] <= p[k] + MaxFrame
  /\ LET last == s.frame[p[n]].next IN
     \/ last <= p[n] \/ last > p[n] + MaxFrame \/ last % Word # 0
     \/ last \in DOMAIN s.frame /\ s.frame[last].ret = 0

ASSUME StackAssumption ==
          /\ {MaxDepth, SkipCount, MaxFrame, Room} \subseteq Nat
          /\ Word \in Nat \ {0}
          /\ \A s \in Stacks : Stack(s)
          /\ Callback <= Room

VARIABLES
  at,         \* where DumpStackTraceAndExit is
  symbolize_stacktrace, \* the flag
  stack,      \* the stack
  sp,         \* the frame that is looked at, 0 for NULL
  skip_count, \* how many more frames GetStackTrace skips
  result,     \* the return addresses that it found
  printed     \* the lines that were written: the address and the name

frames == <<symbolize_stacktrace, stack, sp, skip_count, result>>
allVars == <<vars, at, frames, printed>>

TypeOK ==
  /\ SymbolizeTypeOK
  /\ sp \in DOMAIN stack.frame \cup {0}
  /\ skip_count \in 0..(SkipCount + 1)
  /\ Len(printed) <= Len(result) /\ Len(result) <= MaxDepth

Init ==
  /\ SymbolizeInit
  /\ symbolize_stacktrace \in BOOLEAN
  /\ stack \in Stacks /\ sp = stack.top /\ skip_count = SkipCount + 1
  /\ result = <<>> /\ printed = <<>> /\ at = "GetStackTrace"

\* The two words at a; behind the frames they may be anything.
Words(a) == Pick(stack.frame, a, [next |-> 0, ret |-> 1])

\* Mutant: a frame pointer that cannot be one is followed all the same.
Follow(old) == Words(old).next

\* The calling frame, or 0: its address must be higher, but not by too much,
\* and aligned.
NextStackFrame(old) ==
  LET new == Words(old).next IN
  IF new <= old \/ new - old > MaxFrame \/ new % Word # 0 THEN 0 ELSE new

MoreFrames ==
  sp # 0 /\ Len(result) < MaxDepth /\ Words(sp).ret # 0

\* Mutant: one frame too many is skipped.
SkipOneMore ==
  /\ at = "GetStackTrace" /\ MoreFrames
  /\ IF skip_count >= 0
     THEN skip_count' = skip_count - 1 /\ UNCHANGED result
     ELSE result' = Append(result, Words(sp).ret) /\ UNCHANGED skip_count
  /\ sp' = NextStackFrame(sp)
  /\ UNCHANGED <<vars, at, symbolize_stacktrace, stack, printed>>

GetStackTrace ==
  /\ at = "GetStackTrace" /\ MoreFrames
  /\ IF skip_count > 0
     THEN skip_count' = skip_count - 1 /\ UNCHANGED result
     ELSE result' = Append(result, Words(sp).ret) /\ UNCHANGED skip_count
  /\ sp' = NextStackFrame(sp)
  /\ UNCHANGED <<vars, at, symbolize_stacktrace, stack, printed>>

GetStackTraceEnds ==
  /\ at = "GetStackTrace" /\ ~MoreFrames
  /\ at' = "DumpStackTrace"
  /\ UNCHANGED <<vars, frames, printed>>

NextPC == result[Len(printed) + 1]

DumpPC ==
  /\ at = "DumpStackTrace" /\ Len(printed) < Len(result)
  /\ ~symbolize_stacktrace
  /\ printed' = Append(printed, [pc |-> NextPC, answer |-> NotFound])
  /\ UNCHANGED <<vars, at, frames>>

\* Mutant: the name is looked up where the call returns to.
CallSymbolizeAtReturn ==
  /\ at = "DumpStackTrace" /\ Len(printed) < Len(result)
  /\ symbolize_stacktrace
  /\ at' = "DumpPCAndSymbol"
  /\ loc' = "open" /\ pc' = NextPC /\ room' = Room
  /\ bol' = 0 /\ eol' = 0 /\ eod' = 0 /\ lines' = <<>>
  /\ UNCHANGED <<maps, object, rd, startAddress, section, answer, errors,
                 frames, printed>>

\* DumpPCAndSymbol asks for the byte before the return address.
CallSymbolize ==
  /\ at = "DumpStackTrace" /\ Len(printed) < Len(result)
  /\ symbolize_stacktrace
  /\ at' = "DumpPCAndSymbol"
  /\ loc' = "open" /\ pc' = NextPC - 1 /\ room' = Room
  /\ bol' = 0 /\ eol' = 0 /\ eod' = 0 /\ lines' = <<>>
  /\ UNCHANGED <<maps, object, rd, startAddress, section, answer, errors,
                 frames, printed>>

Symbolizing ==
  /\ at = "DumpPCAndSymbol"
  /\ SymbolizeNext
  /\ UNCHANGED <<at, frames, printed>>

\* Symbolize has returned and its descriptors are closed; the line is written.
DumpPCAndSymbol ==
  /\ at = "DumpPCAndSymbol" /\ loc = "return"
  /\ printed' = Append(printed, [pc |-> NextPC, answer |-> answer])
  /\ at' = "DumpStackTrace"
  /\ loc' = "idle"
  /\ object' = NoFile /\ rd' = NoRead /\ answer' = NotFound
  /\ startAddress' = 0 /\ section' = Table("SHT_SYMTAB")
  /\ UNCHANGED <<input, reader, errors, frames>>

\* DumpStackTraceAndExit ends with abort().
DumpStackTraceEnds ==
  /\ at = "DumpStackTrace" /\ Len(printed) = Len(result)
  /\ at' = "aborted"
  /\ UNCHANGED <<vars, frames, printed>>

Ended == at = "aborted" \/ loc = "abort"
Stop == Ended /\ UNCHANGED allVars

Step ==
  \/ GetStackTrace \/ GetStackTraceEnds \/ DumpPC \/ CallSymbolize
  \/ Symbolizing \/ DumpPCAndSymbol \/ DumpStackTraceEnds
Next == Step \/ Stop

Spec == Init /\ [][Next]_allVars

\* One thread, which nothing stops but a call of read that returns 0 for ever.
FairSpec == Spec /\ WF_allVars(Step)
=============================================================================
