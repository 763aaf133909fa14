---------------------------- MODULE LogFileProps ----------------------------
(***************************************************************************)
(* What is expected of the log files.                                      *)
(***************************************************************************)
EXTENDS LogFile

\* The position of a line in the files of its object, and the lines there.
Places == UNION {{i} \X (1..Len(disk[i].lines)) : i \in 1..Len(disk)}
At(x) == disk[x[1]].lines[x[2]]
Before(x, y) == x[1] < y[1] \/ (x[1] = y[1] /\ x[2] < y[2])
Buffered(p, o) == {obj[p][o].buffer[k] : k \in 1..Len(obj[p][o].buffer)}

\* A message that one process alone has had in its memory.
Own(m) == m.n > forkedAt

\* What a process writes for an object appears in that object's files in the
\* order in which it was written, each message once, across every rollover,
\* rename and failure: nothing is repeated and nothing overtakes.
InOrder ==
  /\ \A x, y \in Places :
       /\ disk[x[1]].of = disk[y[1]].of
       /\ At(x).by = At(y).by /\ Own(At(x)) /\ Own(At(y))
       /\ Before(x, y)
       => At(x).n < At(y).n
  /\ \A p \in alive, o \in Object, x \in Places : \A m \in Buffered(p, o) :
       /\ disk[x[1]].of = o
       /\ At(x).by = m.by /\ Own(At(x)) /\ Own(m)
       => At(x).n < m.n

\* As long as every file could be created and the disk never was full, every
\* message is in a file or still in the buffer of one: no rollover, rename,
\* flush or fork loses any.
Written(o) == {At(x).n : x \in {y \in Places : disk[y[1]].of = o}}
Found(o) ==
  Written(o) \cup UNION {{m.n : m \in Buffered(p, o)} : p \in alive}
NothingLost ==
  troubles = {} => \A o \in Object : accepted[o] \subseteq Found(o)

\* "flush all the log destinations" (LogMessage.cc:244): the flush of a FATAL
\* message, Write(true, 0, "", 0), leaves nothing in this process's buffer for
\* abort() to lose, whether the file is open, rolled over, renamed, deselected,
\* inherited or refused; and if no creation failed and the disk never was full,
\* everything that was written for the object is in its files then, but for
\* what other processes have buffered.  One case is excused that the comment
\* does not have: while writing is stopped, which one file's full disk does for
\* all, Write returns before it comes to the flush (Logger.cc:337-341), even
\* though the disk may have room again and this file was never refused.
Elsewhere(p, o) == UNION {{m.n : m \in Buffered(q, o)} : q \in alive \ {p}}
FatalReachesDisk ==
  [][\A p \in Process, o \in Object :
       WriteFlush(p, o) =>
         /\ ~stop_writing[p] => obj'[p][o].buffer = <<>>
         /\ troubles' = {} =>
              accepted'[o] \subseteq (Written(o) \cup Elsewhere(p, o))']_vars

\* "approx. maximum log file size" (Logger.cc:27): the limit is looked at
\* before a message is written (Logger.cc:208) and the message is added after
\* it (Logger.cc:334), so a file goes over it by part of its last message and
\* no more; what is buffered for the file counts.
Last(seq) == seq[Len(seq)]
SizeBound ==
  /\ \A i \in 1..Len(disk) :
       disk[i].lines # <<>> =>
         disk[i].size - Last(disk[i].lines).len < MaxLength
  /\ \A p \in alive, o \in Object :
       LET r == obj[p][o] IN
       r.buffer # <<>> =>
         (disk[r.file].size + r.pending) - Last(r.buffer).len < MaxLength

\* "or every FLAGS_logbufsecs seconds" (Logger.cc:344): no Write leaves two
\* messages in a buffer that are that far apart, even if writing stopped in
\* between or the file was changed.
BufferSpan ==
  \A p \in alive, o \in Object : \A m, l \in Buffered(p, o) :
    m.n > 0 /\ l.n > 0 => m.at - l.at < LogBufSecs

\* "Try to rollover the log file every 32 log messages" (Logger.cc:222):
\* however creation fails and names change, it is tried again after at most
\* that many messages; logging is never given up for good.
RetryBound == \A p \in Process, o \in Object : skipped[p][o] < Frequency

\* The Write in which the child of a fork notices that the pid has changed
\* leaves the parent's file, whatever state it inherited that file in.
ForkNoticed ==
  [][\A p \in Process, o \in Object :
       g_main_thread_pid[p] # p /\ g_main_thread_pid'[p] = p
         /\ obj'[p][o] # obj[p][o]
       => obj'[p][o].file = 0 \/ disk'[obj'[p][o].file].name.pid = p]_vars
=============================================================================
