---------------------------- MODULE WaitingSink -----------------------------
(***************************************************************************)
(* A sink whose WaitTillSent does wait: TestWaitingLogSink and its writer  *)
(* thread (waitTillSent_unittest.cc), composed with LogMessage.  send()    *)
(* queues the messages of the client, the thread that made the sink; the   *)
(* writer takes them and logs them itself, with LOG(); the client's        *)
(* WaitTillSent polls until the queue is empty.  Other threads log, and    *)
(* register sinks of their own.                                            *)
(*                                                                         *)
(* What the code does with the writer's mutex_ held neither blocks nor     *)
(* takes another lock, so that each such section is one step.              *)
(***************************************************************************)
EXTENDS LogMessage

CONSTANTS client, writer, \* two of the threads
          sink,           \* the TestWaitingLogSink
          Messages,       \* kLogNumber
          OtherOps        \* how much each of the other threads does

ASSUME WaitingAssumption ==
          /\ {client, writer} \subseteq Thread /\ client # writer
          /\ sink \in Sink \ SinkOps
          /\ Messages \in Nat /\ MaxOps >= 2 * Messages /\ MaxOps >= Messages + 2
          /\ OtherOps \in Nat

\* The test sets FLAGS_logtostderr and logs INFO, which is neither fatal nor,
\* by default, below FLAGS_minloglevel.
ASSUME SettingsAssumption == LogToStderr /\ FATAL > 0 /\ MinLogLevel <= 0

VARIABLES
  test,         \* where the client is in the test
  run,          \* where the writer is in Run()
  pushed,       \* what was pushed on the queue messages_
  popped,       \* how many of these the writer has taken off it
  should_exit_,
  global_messages

own == <<test, run, pushed, popped, should_exit_, global_messages>>
allVars == <<vars, own>>

NoWork == popped = Len(pushed)

OwnTypeOK ==
  /\ test \in {"start", "log", "Stop", "Join", "done"}
  /\ run \in {"Run", "first", "second", "push", "exit"}
  /\ popped \in 0..Len(pushed)
  /\ should_exit_ \in BOOLEAN
  /\ Len(global_messages) <= popped

WaitingInit ==
  /\ Init
  /\ test = "start" /\ run = "Run" /\ pushed = <<>> /\ popped = 0
  /\ should_exit_ = FALSE /\ global_messages = <<>>

\* A thread that is to begin its next statement.
Free(t) == pc[t] = "idle"
LogsTo(t, method, target) ==
  /\ Construct(t)
  /\ call'[t] = [sev |-> 0, method |-> method, target |-> target]
-----------------------------------------------------------------------------
(* A LogMessage, with the sink's send and WaitTillSent in it.               *)

InWaitTillSent(t) ==
  /\ t = client
  /\ \/ pc[t] = "WaitForSink" /\ Me(t).target = sink
     \/ pc[t] = "WaitTillSent" /\ idx[t] > 0 /\ sinks_[idx[t]] = sink

\* send() pushes what the thread that made the sink logs, not what others do.
Buffer(t) ==
  pushed' = IF t = client /\ received'[sink] # received[sink]
            THEN Append(pushed, EntryOf(t)) ELSE pushed

LogStep(t) ==
  /\ InWaitTillSent(t) => NoWork
  /\ Step(t)
  /\ Buffer(t)
  /\ UNCHANGED <<test, run, popped, should_exit_, global_messages>>

\* The loops of Wait() and Run() that sleep and look again.
Poll ==
  /\ status = "running"
  /\ \/ InWaitTillSent(client) /\ ~NoWork
     \/ run = "Run" /\ NoWork /\ ~should_exit_
  /\ UNCHANGED allVars
-----------------------------------------------------------------------------
(* The writer thread.                                                      *)

WriterTakes ==
  /\ run = "Run" /\ ~NoWork
  /\ popped' = popped + 1
  /\ run' = "first"
  /\ UNCHANGED <<vars, test, pushed, should_exit_, global_messages>>

\* LOG(INFO) << "Sink is sending out a message", and how many are left.
WriterLogs ==
  /\ run \in {"first", "second"} /\ Free(writer)
  /\ LogsTo(writer, "SendToLog", NoTarget)
  /\ run' = IF run = "first" THEN "second" ELSE "push"
  /\ UNCHANGED <<test, pushed, popped, should_exit_, global_messages>>

WriterPushes ==
  /\ run = "push" /\ Free(writer)
  /\ global_messages' = Append(global_messages, pushed[popped])
  /\ run' = "Run"
  /\ UNCHANGED <<vars, test, pushed, popped, should_exit_>>

\* Mutant: the writer exits as soon as there is nothing to do.
WriterExitsEarly ==
  /\ run = "Run" /\ NoWork
  /\ run' = "exit"
  /\ UNCHANGED <<vars, test, pushed, popped, should_exit_, global_messages>>

WriterExits ==
  /\ run = "Run" /\ should_exit_ /\ NoWork
  /\ run' = "exit"
  /\ UNCHANGED <<vars, test, pushed, popped, should_exit_, global_messages>>

Writer == WriterTakes \/ WriterLogs \/ WriterPushes \/ WriterExits
-----------------------------------------------------------------------------
(* The client: the constructor of the sink, the messages, the destructor.  *)

Construction ==
  /\ test = "start" /\ Begin(client)
  /\ AddLogSink(sink)
  /\ test' = "log"
  /\ UNCHANGED <<excused, initialized, run, pushed, popped,
                 should_exit_, global_messages>>

\* LOG_TO_SINK_BUT_NOT_TO_LOGFILE, or a LOG that reaches the sink as one that
\* is registered.
ClientLogs ==
  /\ test = "log" /\ ops[client] <= Messages
  /\ \/ LogsTo(client, "SendToSink", sink)
     \/ LogsTo(client, "SendToLog", NoTarget)
  /\ UNCHANGED own

\* Mutant: the destructor does not remove the sink.
NoRemoval ==
  /\ test = "log" /\ ops[client] = Messages + 1 /\ Begin(client)
  /\ test' = "Stop"
  /\ UNCHANGED <<destinations, excused, initialized, run, pushed, popped,
                 should_exit_, global_messages>>

Removal ==
  /\ test = "log" /\ ops[client] = Messages + 1 /\ Begin(client)
  /\ RemoveLogSink(sink)
  /\ test' = "Stop"
  /\ UNCHANGED <<excused, initialized, run, pushed, popped,
                 should_exit_, global_messages>>

WriterStop ==
  /\ test = "Stop"
  /\ should_exit_' = TRUE
  /\ test' = "Join"
  /\ UNCHANGED <<vars, run, pushed, popped, global_messages>>

\* Mutant: the writer is not waited for.
JoinAtOnce ==
  /\ test = "Join"
  /\ test' = "done"
  /\ UNCHANGED <<vars, run, pushed, popped, should_exit_, global_messages>>

Join ==
  /\ test = "Join" /\ run = "exit"
  /\ test' = "done"
  /\ UNCHANGED <<vars, run, pushed, popped, should_exit_, global_messages>>

Client == Construction \/ ClientLogs \/ Removal \/ WriterStop \/ Join
-----------------------------------------------------------------------------
Other(t) ==
  /\ ops[t] < OtherOps
  /\ LogsTo(t, "SendToLog", NoTarget) \/ Register(t)
  /\ UNCHANGED own

Finished == test = "done" /\ Quiescent
WaitingStop == Finished /\ UNCHANGED allVars

WaitingNext ==
  \/ \E t \in Thread : LogStep(t)
  \/ \E t \in Thread \ {client, writer} : Other(t)
  \/ Writer \/ Client \/ Poll \/ WaitingStop

\* The scheduler lets every thread go on; the loops that sleep come back.
WaitingSpec ==
  /\ WaitingInit /\ [][WaitingNext]_allVars
  /\ \A t \in Thread : WF_allVars(LogStep(t))
  /\ WF_allVars(Writer) /\ WF_allVars(Client)
-----------------------------------------------------------------------------
(* What is expected.                                                       *)

\* A thread's k-th message is on stderr, once.
OnStderr(t, k) ==
  \E i \in DOMAIN stderr : {j \in DOMAIN stderr : stderr[j].id = <<t, k>>} = {i}

\* The test's assertions: there is never a message left when the next one is
\* taken ("Have 1 left"); and once the sink has been destroyed every message of
\* the client has been taken, logged by the writer in two LOG()s of its own,
\* and kept, in the client's order (waitTillSent_unittest.cc:209-213).
NothingLeft ==
  /\ Len(pushed) <= popped + 1
  /\ test = "done" =>
       /\ Len(global_messages) = Messages
       /\ \A k \in 1..Messages : global_messages[k].id = <<client, k + 1>>
       /\ \A k \in 1..(2 * Messages) : OnStderr(writer, k)
       /\ \A i \in DOMAIN stderr :
            stderr[i].id[1] = writer => stderr[i].id[2] <= 2 * Messages

\* When the sink is destroyed nobody is about to call it or wait for it, not
\* even the writer thread, whose own messages go to all registered sinks.
DestroyedUnused ==
  test \in {"Stop", "Join", "done"} =>
    /\ \A t \in Thread : pc[t] \in HoldsSinks =>
         \A i \in 1..idx[t] : sinks_[i] # sink
    /\ \A k \in DOMAIN sinks_ : sinks_[k] # sink

\* The thread that waits for the sink and the thread that it waits for, which
\* logs, do not block each other: the test ends, whoever else logs or changes
\* the sinks.
TestEnds == <>(test = "done")
=============================================================================
