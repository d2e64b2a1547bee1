------------------------------- MODULE Logger -------------------------------
(***************************************************************************)
(* The native program's log path: utils/logger.rs, utils/io.rs, the        *)
(* prompts of utils/question.rs, main.rs, and the places where the         *)
(* commands lock stdout and stderr around a question.                      *)
(*                                                                         *)
(* Any thread sends commands on one mpsc channel.  The logger thread       *)
(* buffers the lines that deserve display and writes the buffer to stderr  *)
(* when 200 ms pass without a command, when a thread asks for a flush, or  *)
(* at shutdown; the asking thread waits on a two-party barrier.            *)
(* std::io::stdout and stderr are reentrant mutexes.                       *)
(*                                                                         *)
(* The channel is an immutable history `sent' with the count `rcvd' of     *)
(* commands the logger has taken, so a command is named by its position.   *)
(***************************************************************************)
EXTENDS Naturals, Sequences, FiniteSets

CONSTANTS
  Main,        \* the main thread
  Workers,     \* one rayon task per input of `ouch decompress'
  NoThread,    \* the owner of a free lock
  InMemory,    \* the inputs that must be decoded into memory (zip or 7z in a chain)
  Options,     \* the command lines considered, see CommandLines
  LogKinds,    \* which of info!, info_accessible! and warning! the threads use
  Quiet,       \* --quiet
  Accessible,  \* accessible mode
  MaxLogs,     \* bound: messages each thread logs
  MaxPrompts   \* bound: questions the main thread asks

\* command "inline" stands for compress and list, which stay on the main thread;
\* devNull: stdin is /dev/null; threads: the size of the rayon pool.
CommandLines ==
  [policy : {"Ask", "AlwaysYes", "AlwaysNo"},
   command : {"decompress", "inline"},
   devNull : BOOLEAN,
   threads : Nat \ {0}]

Threads == {Main} \cup Workers

ASSUME LoggerAssumption ==
  /\ Main \notin Workers
  /\ NoThread \notin Threads
  /\ InMemory \subseteq Workers
  /\ Options \subseteq CommandLines
  /\ LogKinds \subseteq {"info", "info_accessible", "warning"}
  /\ Quiet \in BOOLEAN
  /\ Accessible \in BOOLEAN
  /\ MaxLogs \in Nat
  /\ MaxPrompts \in Nat

VARIABLES
  opts,      \* the command line of this run
  sent,      \* every LoggerCommand sent, in channel order
  rcvd,      \* how many of them the logger has received
  lpc,       \* where run_logger is
  req,       \* the flush request it serves, 0 for the timeout
  buffer,    \* run_logger's buffer: positions of the lines in it
  stderr,    \* positions of the lines the logger has written
  pc,        \* where each other thread is
  nested,    \* the thread's question sits inside its own output locks
  depth,     \* StdioOutputLocks values the thread holds
  outOwner,  \* owner of the stdout lock
  errOwner,  \* owner of the stderr lock
  logs,      \* messages each thread has logged
  prompts    \* questions the main thread has asked

loggerVars == <<rcvd, lpc, req, buffer, stderr>>
lockVars == <<depth, outOwner, errOwner>>
boundVars == <<logs, prompts>>
vars == <<opts, sent, loggerVars, pc, nested, lockVars, boundVars>>

-----------------------------------------------------------------------------
(* Messages and the display filter                                         *)

PrintLine(t, k) == [kind |-> "Print", from |-> t, level |-> k]
Flush(t) == [kind |-> "Flush", from |-> t, level |-> "none"]
FlushAndShutdown(t) == [kind |-> "FlushAndShutdown", from |-> t, level |-> "none"]

Commands ==
  [kind : {"Print", "Flush", "FlushAndShutdown"},
   from : Threads,
   level : LogKinds \cup {"none"}]

\* PrintMessage::should_display: --quiet hides everything unless accessible
\* mode is on; accessible mode hides the plain info! lines.
ShouldDisplay(m) ==
  /\ ~Quiet \/ Accessible
  /\ m.level = "info" => ~Accessible

Displayed(i) == sent[i].kind = "Print" /\ ShouldDisplay(sent[i])

InSeq(i, s) == \E k \in DOMAIN s : s[k] = i

-----------------------------------------------------------------------------
(* Sending, waiting and locking, as each thread does them                  *)

Init ==
  /\ opts \in Options
  /\ sent = <<>>
  /\ rcvd = 0
  /\ lpc = "recv"
  /\ req = 0
  /\ buffer = <<>>
  /\ stderr = <<>>
  /\ pc = [t \in Threads |-> IF t = Main THEN "run" ELSE "idle"]
  /\ nested = [t \in Threads |-> FALSE]
  /\ depth = [t \in Threads |-> 0]
  /\ outOwner = NoThread
  /\ errOwner = NoThread
  /\ logs = [t \in Threads |-> 0]
  /\ prompts = 0

Send(m) == sent' = Append(sent, m)

Goto(t, label) == pc' = [pc EXCEPT ![t] = label]

\* Where a thread goes when its part of the command returns Ok or Err.
Stopped(t, ok) == IF t = Main THEN "quit" ELSE IF ok THEN "done" ELSE "failed"

\* Faulty ReleaseLocks: one guard is leaked, so the count is never reset.
ReleaseLocksLeaksGuard(t) ==
  /\ UNCHANGED depth
  /\ outOwner' = IF outOwner = t THEN NoThread ELSE outOwner
  /\ errOwner' = IF errOwner = t THEN NoThread ELSE errOwner

\* Dropping every StdioOutputLocks value the thread holds.
ReleaseLocks(t) ==
  /\ depth' = [depth EXCEPT ![t] = 0]
  /\ outOwner' = IF outOwner = t THEN NoThread ELSE outOwner
  /\ errOwner' = IF errOwner = t THEN NoThread ELSE errOwner

\* info!, info_accessible! or warning! while the thread does its work.
Log(t) ==
  /\ pc[t] = "run"
  /\ logs[t] < MaxLogs
  /\ \E k \in LogKinds : Send(PrintLine(t, k))
  /\ logs' = [logs EXCEPT ![t] = @ + 1]
  /\ UNCHANGED <<opts, loggerVars, pc, nested, lockVars, prompts>>

\* Faulty FlushMessages: the flush is requested but not waited for.
FlushMessagesNoWait(t) ==
  /\ Send(Flush(t))
  /\ Goto(t, "lockOut")

\* lock_and_flush_output_stdio begins with flush_messages: send, then wait.
FlushMessages(t) ==
  /\ Send(Flush(t))
  /\ Goto(t, "wait")

\* The main thread asks about a conflict or a file signature, holding no lock.
\* With stdin at /dev/null the question fails or answers no without a flush.
AskPlain ==
  /\ pc[Main] = "run"
  /\ opts.policy = "Ask"
  /\ prompts < MaxPrompts
  /\ prompts' = prompts + 1
  /\ nested' = [nested EXCEPT ![Main] = FALSE]
  /\ \/ ~opts.devNull /\ FlushMessages(Main)
     \/ opts.devNull /\ Goto(Main, "quit") /\ UNCHANGED sent
  /\ UNCHANGED <<opts, loggerVars, lockVars, logs>>

\* compress and list lock the output before the in-memory warning.
WarnInMemory ==
  /\ pc[Main] = "run"
  /\ opts.command = "inline"
  /\ prompts < MaxPrompts
  /\ prompts' = prompts + 1
  /\ nested' = [nested EXCEPT ![Main] = TRUE]
  /\ FlushMessages(Main)
  /\ UNCHANGED <<opts, loggerVars, lockVars, logs>>

LockStdout(t) ==
  /\ pc[t] = "lockOut"
  /\ outOwner \in {NoThread, t}
  /\ outOwner' = t
  /\ Goto(t, "lockErr")
  /\ UNCHANGED <<opts, sent, loggerVars, nested, depth, errOwner, boundVars>>

\* With both locks held the thread prints the in-memory warning (its outer
\* locks) or the question itself.
LockStderr(t) ==
  /\ pc[t] = "lockErr"
  /\ errOwner \in {NoThread, t}
  /\ errOwner' = t
  /\ depth' = [depth EXCEPT ![t] = @ + 1]
  /\ Goto(t, IF nested[t] /\ depth[t] = 0 THEN "guarded" ELSE "ask")
  /\ UNCHANGED <<opts, sent, loggerVars, nested, outOwner, boundVars>>

\* user_wants_to_continue, called while the outer locks are held.  Only a
\* question that is really asked flushes and locks again.
Continue(t) ==
  /\ pc[t] = "guarded"
  /\ \/ /\ opts.policy = "Ask" /\ ~opts.devNull
        /\ FlushMessages(t)
        /\ UNCHANGED lockVars
     \/ /\ opts.policy = "AlwaysYes"
        /\ Goto(t, "run")
        /\ ReleaseLocks(t)
        /\ UNCHANGED sent
     \/ /\ \/ opts.policy = "AlwaysNo"
           \/ opts.policy = "Ask" /\ opts.devNull
        /\ Goto(t, Stopped(t, TRUE))
        /\ ReleaseLocks(t)
        /\ UNCHANGED sent
  /\ UNCHANGED <<opts, loggerVars, nested, boundVars>>

\* The user's line: yes, no, or end of file (an error).  Anything else repeats
\* the question and changes nothing.
Answer(t) ==
  /\ pc[t] = "ask"
  /\ \/ Goto(t, "run")
     \/ Goto(t, Stopped(t, TRUE))
     \/ Goto(t, Stopped(t, FALSE))
  /\ ReleaseLocks(t)
  /\ UNCHANGED <<opts, sent, loggerVars, nested, boundVars>>

-----------------------------------------------------------------------------
(* The commands: the main thread, the rayon pool, shutdown                 *)

Running == {w \in Workers : pc[w] \notin {"idle", "done", "failed"}}

SomeFailed == \E w \in Workers : pc[w] = "failed"

\* pool.install: main blocks while rayon runs the tasks.
EnterPool ==
  /\ pc[Main] = "run"
  /\ opts.command = "decompress"
  /\ Goto(Main, "pool")
  /\ UNCHANGED <<opts, sent, loggerVars, nested, lockVars, boundVars>>

\* main returns from run(), with or without an error.
LeaveRun ==
  /\ pc[Main] = "run"
  /\ Goto(Main, "quit")
  /\ UNCHANGED <<opts, sent, loggerVars, nested, lockVars, boundVars>>

\* try_for_each starts no further task once one has failed.  An in-memory
\* input begins with the locked warning.
StartTask(w) ==
  /\ pc[Main] = "pool"
  /\ pc[w] = "idle"
  /\ ~SomeFailed
  /\ Cardinality(Running) < opts.threads
  /\ \/ /\ w \in InMemory
        /\ nested' = [nested EXCEPT ![w] = TRUE]
        /\ FlushMessages(w)
     \/ /\ w \notin InMemory
        /\ Goto(w, "run")
        /\ UNCHANGED <<sent, nested>>
  /\ UNCHANGED <<opts, loggerVars, lockVars, boundVars>>

\* decompress_file returns Ok or Err.
FinishTask(w) ==
  /\ pc[w] = "run"
  /\ \/ Goto(w, "done")
     \/ Goto(w, "failed")
  /\ UNCHANGED <<opts, sent, loggerVars, nested, lockVars, boundVars>>

\* Faulty LeavePool: install returns at the first error, with tasks running.
LeavePoolEarly ==
  /\ pc[Main] = "pool"
  /\ SomeFailed \/ \A w \in Workers : pc[w] = "done"
  /\ Goto(Main, "quit")
  /\ UNCHANGED <<opts, sent, loggerVars, nested, lockVars, boundVars>>

\* install returns when no task runs and none will be started.
LeavePool ==
  /\ pc[Main] = "pool"
  /\ Running = {}
  /\ SomeFailed \/ \A w \in Workers : pc[w] = "done"
  /\ Goto(Main, "quit")
  /\ UNCHANGED <<opts, sent, loggerVars, nested, lockVars, boundVars>>

\* shutdown_logger_and_wait
Shutdown ==
  /\ pc[Main] = "quit"
  /\ Send(FlushAndShutdown(Main))
  /\ Goto(Main, "bye")
  /\ UNCHANGED <<opts, loggerVars, nested, lockVars, boundVars>>

-----------------------------------------------------------------------------
(* The logger thread                                                       *)

\* Faulty Receive: two commands are counted for one taken.
ReceiveSkips ==
  /\ lpc = "recv"
  /\ rcvd < Len(sent)
  /\ rcvd' = rcvd + 2
  /\ IF sent[rcvd + 1].kind = "Print"
     THEN /\ buffer' = IF ShouldDisplay(sent[rcvd + 1])
                       THEN Append(buffer, rcvd + 1) ELSE buffer
          /\ UNCHANGED <<lpc, req>>
     ELSE /\ lpc' = "flush"
          /\ req' = rcvd + 1
          /\ UNCHANGED buffer
  /\ UNCHANGED <<opts, sent, stderr, pc, nested, lockVars, boundVars>>

\* Faulty Receive: a shutdown goes to the barrier without a flush.
ReceiveShutdownUnflushed ==
  /\ lpc = "recv"
  /\ rcvd < Len(sent)
  /\ rcvd' = rcvd + 1
  /\ IF sent[rcvd + 1].kind = "Print"
     THEN /\ buffer' = IF ShouldDisplay(sent[rcvd + 1])
                       THEN Append(buffer, rcvd + 1) ELSE buffer
          /\ UNCHANGED <<lpc, req>>
     ELSE /\ lpc' = IF sent[rcvd + 1].kind = "Flush" THEN "flush" ELSE "barrier"
          /\ req' = rcvd + 1
          /\ UNCHANGED buffer
  /\ UNCHANGED <<opts, sent, stderr, pc, nested, lockVars, boundVars>>

Receive ==
  /\ lpc = "recv"
  /\ rcvd < Len(sent)
  /\ rcvd' = rcvd + 1
  /\ IF sent[rcvd + 1].kind = "Print"
     THEN /\ buffer' = IF ShouldDisplay(sent[rcvd + 1])
                       THEN Append(buffer, rcvd + 1) ELSE buffer
          /\ UNCHANGED <<lpc, req>>
     ELSE /\ lpc' = "flush"
          /\ req' = rcvd + 1
          /\ UNCHANGED buffer
  /\ UNCHANGED <<opts, sent, stderr, pc, nested, lockVars, boundVars>>

\* recv_timeout: nothing arrived for 200 ms.  (With an empty buffer the
\* timeout changes nothing.)
Timeout ==
  /\ lpc = "recv"
  /\ rcvd = Len(sent)
  /\ buffer # <<>>
  /\ lpc' = "flush"
  /\ req' = 0
  /\ UNCHANGED <<opts, sent, rcvd, buffer, stderr, pc, nested, lockVars, boundVars>>

\* Faulty FlushLogs: the stderr lock is tried, and the lines dropped if it is held.
FlushLogsDropsWhenHeld ==
  /\ lpc = "flush"
  /\ stderr' = IF errOwner = NoThread THEN stderr \o buffer ELSE stderr
  /\ buffer' = <<>>
  /\ lpc' = IF req = 0 THEN "recv" ELSE "barrier"
  /\ UNCHANGED <<opts, sent, rcvd, req, pc, nested, lockVars, boundVars>>

\* Faulty FlushLogs: the logger goes back to receiving without the barrier.
FlushLogsSkipsBarrier ==
  /\ lpc = "flush"
  /\ buffer # <<>> => errOwner = NoThread
  /\ stderr' = stderr \o buffer
  /\ buffer' = <<>>
  /\ lpc' = "recv"
  /\ UNCHANGED <<opts, sent, rcvd, req, pc, nested, lockVars, boundVars>>

\* Faulty FlushLogs: the buffer is written newest line first.
FlushLogsReversed ==
  /\ lpc = "flush"
  /\ buffer # <<>> => errOwner = NoThread
  /\ stderr' = stderr \o [i \in 1..Len(buffer) |-> buffer[Len(buffer) + 1 - i]]
  /\ buffer' = <<>>
  /\ lpc' = IF req = 0 THEN "recv" ELSE "barrier"
  /\ UNCHANGED <<opts, sent, rcvd, req, pc, nested, lockVars, boundVars>>

\* flush_logs_to_stderr: write_all takes the stderr lock, and only when there
\* is something to write.
FlushLogs ==
  /\ lpc = "flush"
  /\ buffer # <<>> => errOwner = NoThread
  /\ stderr' = stderr \o buffer
  /\ buffer' = <<>>
  /\ lpc' = IF req = 0 THEN "recv" ELSE "barrier"
  /\ UNCHANGED <<opts, sent, rcvd, req, pc, nested, lockVars, boundVars>>

\* finished_barrier: the logger and the asking thread meet and both go on.
Meet(t) ==
  /\ lpc = "barrier"
  /\ t = sent[req].from
  /\ \/ /\ pc[t] = "wait"
        /\ sent[req].kind = "Flush"
        /\ lpc' = "recv"
        /\ Goto(t, "lockOut")
     \/ /\ pc[t] = "bye"
        /\ sent[req].kind = "FlushAndShutdown"
        /\ lpc' = "exited"
        /\ Goto(t, "exited")
  /\ UNCHANGED <<opts, sent, rcvd, req, buffer, stderr, nested, lockVars, boundVars>>

\* The process has ended.
Exited == pc[Main] = "exited" /\ UNCHANGED vars

LoggerStep == Receive \/ Timeout \/ FlushLogs

PromptStep(t) == LockStdout(t) \/ LockStderr(t) \/ Continue(t) \/ Answer(t)

MainStep == AskPlain \/ WarnInMemory \/ EnterPool \/ LeaveRun \/ LeavePool \/ Shutdown

TaskStep(w) == StartTask(w) \/ FinishTask(w)

Next ==
  \/ LoggerStep
  \/ MainStep
  \/ \E w \in Workers : TaskStep(w)
  \/ \E t \in Threads : Log(t) \/ PromptStep(t) \/ Meet(t)
  \/ Exited

\* The operating system runs every thread that can run, and a user who is
\* asked eventually answers or closes stdin.
Fairness ==
  /\ WF_vars(LoggerStep)
  /\ WF_vars(EnterPool \/ LeaveRun)
  /\ WF_vars(LeavePool)
  /\ WF_vars(Shutdown)
  /\ \A w \in Workers : WF_vars(StartTask(w)) /\ WF_vars(FinishTask(w))
  /\ \A t \in Threads : WF_vars(PromptStep(t)) /\ WF_vars(Meet(t))

Spec == Init /\ [][Next]_vars

FairSpec == Spec /\ Fairness

-----------------------------------------------------------------------------
(* Properties                                                              *)

Labels == {"idle", "run", "wait", "lockOut", "lockErr", "guarded", "ask",
           "done", "failed", "pool", "quit", "bye", "exited"}

\* Every variable has its type.
TypeOK ==
  /\ opts \in Options
  /\ sent \in Seq(Commands)
  /\ rcvd \in 0..Len(sent)
  /\ lpc \in {"recv", "flush", "barrier", "exited"}
  /\ req \in 0..Len(sent)
  /\ buffer \in Seq(Nat)
  /\ stderr \in Seq(Nat)
  /\ pc \in [Threads -> Labels]
  /\ nested \in [Threads -> BOOLEAN]
  /\ depth \in [Threads -> Nat]
  /\ outOwner \in Threads \cup {NoThread}
  /\ errOwner \in Threads \cup {NoThread}
  /\ logs \in [Threads -> 0..MaxLogs]
  /\ prompts \in 0..MaxPrompts

\* A line the logger has taken is on stderr or still in its buffer: filtering,
\* buffering and flushing lose nothing that deserves display.
NothingLost ==
  \A i \in 1..rcvd : Displayed(i) => InSeq(i, stderr) \/ InSeq(i, buffer)

\* Positions in the buffer and on stderr name displayable lines already taken.
OnlyDisplayed ==
  /\ \A k \in DOMAIN stderr : stderr[k] \in 1..rcvd /\ Displayed(stderr[k])
  /\ \A k \in DOMAIN buffer : buffer[k] \in 1..rcvd /\ Displayed(buffer[k])

\* stderr followed by the buffer lists each line once, in channel order.
InOrder ==
  /\ \A i, j \in DOMAIN stderr : i < j => stderr[i] < stderr[j]
  /\ \A i, j \in DOMAIN buffer : i < j => buffer[i] < buffer[j]
  /\ \A i \in DOMAIN stderr, j \in DOMAIN buffer : stderr[i] < buffer[j]

\* However senders, timeouts and flushes interleave, stderr and the buffer hold
\* exactly the displayable lines taken so far, each once and in channel order.
OnceInOrder == NothingLost /\ OnlyDisplayed /\ InOrder

\* "waits till it flushes all pending messages" (logger.rs:52): when the
\* process exits, every line any thread ever logged is on stderr.
ExitShowsEverything ==
  pc[Main] = "exited" =>
    \A i \in DOMAIN sent : Displayed(i) => InSeq(i, stderr)

\* "useful before starting STDIN interaction" (logger.rs:58): what a thread
\* logged before it asks is on stderr before the user reads the question.
PromptShowsEarlierLogs ==
  \A t \in Threads : pc[t] \in {"lockOut", "lockErr", "guarded", "ask"} =>
    \A i \in DOMAIN sent :
      Displayed(i) /\ sent[i].from = t => InSeq(i, stderr)

\* Once the logger has left run_logger its receiver is dropped and a send would
\* panic ("Failed to send print command"): no thread can still send by then.
NoSendAfterShutdown ==
  lpc = "exited" =>
    \A t \in Threads : pc[t] \in {"idle", "done", "failed", "exited"}

\* Two threads never hold one lock each, so threads cannot wait on each other
\* for stdout and stderr.
LockOrder == errOwner # NoThread => outOwner = errOwner

\* Every path out of a question (an answer, a policy, end of file) gives back
\* all the locks it took, and the guards a thread holds match where it is.
LockDiscipline ==
  \A t \in Threads :
    /\ depth[t] > 0 <=> errOwner = t
    /\ pc[t] \in {"lockErr", "guarded", "ask"} => outOwner = t
    /\ pc[t] = "ask" => depth[t] = IF nested[t] THEN 2 ELSE 1
    /\ pc[t] = "guarded" => depth[t] = 1 /\ nested[t]
    /\ pc[t] \in {"wait", "lockOut", "lockErr"} =>
         depth[t] = 0 \/ (depth[t] = 1 /\ nested[t])
    /\ pc[t] \notin {"wait", "lockOut", "lockErr", "guarded", "ask"} =>
         /\ depth[t] = 0
         /\ outOwner # t

\* A flush request the logger has not yet answered.
Outstanding(i) == i > rcvd \/ (i = req /\ lpc \in {"flush", "barrier"})

\* The owner of an unanswered flush waits and has sent nothing since.
FlushWaits ==
  \A i \in DOMAIN sent : sent[i].kind = "Flush" /\ Outstanding(i) =>
    /\ pc[sent[i].from] = "wait"
    /\ \A j \in DOMAIN sent : j > i => sent[j].from # sent[i].from

\* The request being served is the last command taken, and at the barrier
\* there is nothing left to write.
Serving ==
  /\ lpc = "flush" /\ req # 0 => req = rcvd /\ sent[req].kind # "Print"
  /\ lpc = "barrier" => req # 0 /\ req = rcvd /\ sent[req].kind # "Print" /\ buffer = <<>>

\* A shutdown is the last command ever sent, and the logger leaves when main does.
ShutdownLast ==
  /\ \A i \in DOMAIN sent : sent[i].kind = "FlushAndShutdown" =>
       i = Len(sent) /\ pc[Main] \in {"bye", "exited"}
  /\ pc[Main] = "exited" <=> lpc = "exited"
  /\ lpc = "exited" => rcvd = Len(sent) /\ buffer = <<>>

\* Tasks run only while main is inside install.
TasksInPool ==
  /\ pc[Main] # "pool" => \A w \in Workers : pc[w] \in {"idle", "done", "failed"}
  /\ \A w \in Workers : pc[w] \notin {"pool", "quit", "bye", "exited"}
  /\ pc[Main] \notin {"idle", "done", "failed"}

\* How the channel, the logger thread and the other threads stay in step.
Handshake == FlushWaits /\ Serving /\ ShutdownLast /\ TasksInPool

\* A thread that asks for a flush (or the shutdown) eventually goes on.
FlushCompletes ==
  \A t \in Threads : pc[t] \in {"wait", "bye"} ~> pc[t] \notin {"wait", "bye"}

\* Every run of the program ends.
Terminates == <>(pc[Main] = "exited")

\* The log path implements the abstract stream.
Stream == INSTANCE LogStream WITH
  accepted <- {i \in DOMAIN sent : Displayed(i)},
  shown <- stderr,
  closed <- lpc = "exited"

ImplementsStream == Stream!StreamSpec
=============================================================================
