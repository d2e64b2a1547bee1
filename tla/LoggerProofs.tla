---------------------------- MODULE LoggerProofs ----------------------------
(***************************************************************************)
(* Theorems about Logger, for any number of tasks, pool size, display      *)
(* options and bounds.                                                     *)
(***************************************************************************)
EXTENDS Logger, TLAPS

-----------------------------------------------------------------------------
(* Facts about the helpers                                                 *)

\* The three commands of LoggerCommand are members of Commands.
LEMMA CommandsTyped ==
  ASSUME NEW t \in Threads
  PROVE  /\ \A k \in LogKinds : PrintLine(t, k) \in Commands
         /\ Flush(t) \in Commands
         /\ FlushAndShutdown(t) \in Commands
  BY DEF Commands, PrintLine, Flush, FlushAndShutdown

\* Sending appends: every earlier command keeps its position.
LEMMA SendFacts ==
  ASSUME sent \in Seq(Commands), NEW m \in Commands, Send(m)
  PROVE  /\ sent' \in Seq(Commands)
         /\ Len(sent') = Len(sent) + 1
         /\ Len(sent) \in Nat
         /\ 0..Len(sent) \subseteq 0..Len(sent')
         /\ DOMAIN sent' = 1..(Len(sent) + 1)
         /\ DOMAIN sent = 1..Len(sent)
         /\ \A i \in DOMAIN sent : sent'[i] = sent[i]
         /\ sent'[Len(sent) + 1] = m
  BY DEF Send

\* Dropping the locks keeps the lock variables typed.
LEMMA ReleaseTyped ==
  ASSUME TypeOK, NEW t \in Threads, ReleaseLocks(t)
  PROVE  /\ depth' \in [Threads -> Nat]
         /\ outOwner' \in Threads \cup {NoThread}
         /\ errOwner' \in Threads \cup {NoThread}
  BY DEF TypeOK, ReleaseLocks

-----------------------------------------------------------------------------
(* Type correctness                                                        *)

\* The types hold at first.
LEMMA TypeInit == Init => TypeOK
  BY LoggerAssumption DEF Init, TypeOK, Threads, Labels

\* Every step keeps the types.
LEMMA TypeStep == TypeOK /\ [Next]_vars => TypeOK'
<1> SUFFICES ASSUME TypeOK, [Next]_vars PROVE TypeOK'
  OBVIOUS
<1> USE LoggerAssumption
<1>m. Main \in Threads
  BY DEF Threads
<1>w. Workers \subseteq Threads
  BY DEF Threads
<1>1. CASE Receive
  <2>1. rcvd + 1 \in Nat /\ rcvd + 1 \in 0..Len(sent)
    BY <1>1 DEF Receive, TypeOK
  <2>2. buffer' \in Seq(Nat)
    <3>1. buffer \in Seq(Nat) /\ Append(buffer, rcvd + 1) \in Seq(Nat)
      BY <2>1 DEF TypeOK
    <3>2. buffer' \in {buffer, Append(buffer, rcvd + 1)}
      BY <1>1 DEF Receive
    <3>3. QED
      BY <3>1, <3>2
  <2>3. lpc' \in {"recv", "flush", "barrier", "exited"} /\ req' \in 0..Len(sent)
    BY <1>1, <2>1 DEF Receive, TypeOK
  <2>4. rcvd' \in 0..Len(sent)
    BY <1>1, <2>1 DEF Receive
  <2>5. QED
    BY <1>1, <2>2, <2>3, <2>4 DEF Receive, TypeOK, lockVars, boundVars
<1>2. CASE Timeout
  BY <1>2 DEF Timeout, TypeOK, lockVars, boundVars
<1>3. CASE FlushLogs
  BY <1>3 DEF FlushLogs, TypeOK, lockVars, boundVars
<1>4. CASE AskPlain
  <2>1. sent' \in Seq(Commands) /\ 0..Len(sent) \subseteq 0..Len(sent')
    BY <1>4, <1>m, CommandsTyped, SendFacts DEF AskPlain, FlushMessages, TypeOK
  <2>2. pc' \in [Threads -> Labels]
    BY <1>4, <1>m DEF AskPlain, FlushMessages, Goto, TypeOK, Labels
  <2>3. nested' \in [Threads -> BOOLEAN]
    BY <1>4, <1>m DEF AskPlain, TypeOK
  <2>4. prompts' \in 0..MaxPrompts
    BY <1>4 DEF AskPlain, TypeOK
  <2>5. QED
    BY <1>4, <2>1, <2>2, <2>3, <2>4 DEF AskPlain, TypeOK, loggerVars, lockVars
<1>5. CASE WarnInMemory
  <2>1. sent' \in Seq(Commands) /\ 0..Len(sent) \subseteq 0..Len(sent')
    BY <1>5, <1>m, CommandsTyped, SendFacts DEF WarnInMemory, FlushMessages, TypeOK
  <2>2. pc' \in [Threads -> Labels]
    BY <1>5, <1>m DEF WarnInMemory, FlushMessages, Goto, TypeOK, Labels
  <2>3. nested' \in [Threads -> BOOLEAN]
    BY <1>5, <1>m DEF WarnInMemory, TypeOK
  <2>4. prompts' \in 0..MaxPrompts
    BY <1>5 DEF WarnInMemory, TypeOK
  <2>5. QED
    BY <1>5, <2>1, <2>2, <2>3, <2>4 DEF WarnInMemory, TypeOK, loggerVars, lockVars
<1>6. CASE EnterPool
  BY <1>6, <1>m DEF EnterPool, Goto, TypeOK, Labels, loggerVars, lockVars, boundVars
<1>7. CASE LeaveRun
  BY <1>7, <1>m DEF LeaveRun, Goto, TypeOK, Labels, loggerVars, lockVars, boundVars
<1>8. CASE LeavePool
  BY <1>8, <1>m DEF LeavePool, Goto, TypeOK, Labels, loggerVars, lockVars, boundVars
<1>9. CASE Shutdown
  <2>1. sent' \in Seq(Commands) /\ 0..Len(sent) \subseteq 0..Len(sent')
    BY <1>9, <1>m, CommandsTyped, SendFacts DEF Shutdown, TypeOK
  <2>2. QED
    BY <1>9, <1>m, <2>1 DEF Shutdown, Goto, TypeOK, Labels, loggerVars, lockVars, boundVars
<1>10. ASSUME NEW w \in Workers, StartTask(w) PROVE TypeOK'
  <2>1. sent' \in Seq(Commands) /\ 0..Len(sent) \subseteq 0..Len(sent')
    BY <1>10, <1>w, CommandsTyped, SendFacts DEF StartTask, FlushMessages, TypeOK
  <2>2. pc' \in [Threads -> Labels] /\ nested' \in [Threads -> BOOLEAN]
    BY <1>10, <1>w DEF StartTask, FlushMessages, Goto, TypeOK, Labels
  <2>3. QED
    BY <1>10, <2>1, <2>2 DEF StartTask, TypeOK, loggerVars, lockVars, boundVars
<1>11. ASSUME NEW w \in Workers, FinishTask(w) PROVE TypeOK'
  BY <1>11, <1>w DEF FinishTask, Goto, TypeOK, Labels, loggerVars, lockVars, boundVars
<1>12. ASSUME NEW t \in Threads, Log(t) PROVE TypeOK'
  <2>1. sent' \in Seq(Commands) /\ 0..Len(sent) \subseteq 0..Len(sent')
    BY <1>12, CommandsTyped, SendFacts DEF Log, TypeOK
  <2>2. logs' \in [Threads -> 0..MaxLogs]
    BY <1>12 DEF Log, TypeOK
  <2>3. QED
    BY <1>12, <2>1, <2>2 DEF Log, TypeOK, loggerVars, lockVars
<1>13. ASSUME NEW t \in Threads, LockStdout(t) PROVE TypeOK'
  BY <1>13 DEF LockStdout, Goto, TypeOK, Labels, loggerVars, boundVars
<1>14. ASSUME NEW t \in Threads, LockStderr(t) PROVE TypeOK'
  BY <1>14 DEF LockStderr, Goto, TypeOK, Labels, loggerVars, boundVars
<1>15. ASSUME NEW t \in Threads, Continue(t) PROVE TypeOK'
  <2>1. sent' \in Seq(Commands) /\ 0..Len(sent) \subseteq 0..Len(sent')
    BY <1>15, CommandsTyped, SendFacts DEF Continue, FlushMessages, TypeOK
  <2>2. pc' \in [Threads -> Labels]
    BY <1>15 DEF Continue, FlushMessages, Goto, Stopped, TypeOK, Labels
  <2>3. /\ depth' \in [Threads -> Nat]
        /\ outOwner' \in Threads \cup {NoThread}
        /\ errOwner' \in Threads \cup {NoThread}
    BY <1>15, ReleaseTyped DEF Continue, TypeOK, lockVars
  <2>4. QED
    BY <1>15, <2>1, <2>2, <2>3 DEF Continue, TypeOK, loggerVars, boundVars
<1>16. ASSUME NEW t \in Threads, Answer(t) PROVE TypeOK'
  <2>1. pc' \in [Threads -> Labels]
    BY <1>16 DEF Answer, Goto, Stopped, TypeOK, Labels
  <2>2. QED
    BY <1>16, <2>1, ReleaseTyped DEF Answer, TypeOK, loggerVars, boundVars
<1>17. ASSUME NEW t \in Threads, Meet(t) PROVE TypeOK'
  BY <1>17 DEF Meet, Goto, TypeOK, Labels, lockVars, boundVars
<1>18. CASE UNCHANGED vars
  BY <1>18 DEF vars, TypeOK, loggerVars, lockVars, boundVars
<1>19. QED
  BY <1>1, <1>2, <1>3, <1>4, <1>5, <1>6, <1>7, <1>8, <1>9, <1>10, <1>11, <1>12,
     <1>13, <1>14, <1>15, <1>16, <1>17, <1>18
  DEF Next, LoggerStep, MainStep, TaskStep, PromptStep, Exited

\* Every reachable state is typed, whatever the number of tasks and the bounds.
THEOREM TypeCorrect == Spec => []TypeOK
  BY TypeInit, TypeStep, PTL DEF Spec

-----------------------------------------------------------------------------
(* What a step may do to the channel and to the logger's variables         *)

\* A step leaves the channel alone or appends one command.
LEMMA SendOrKeep ==
  ASSUME TypeOK, [Next]_vars
  PROVE  sent' = sent \/ \E m \in Commands : Send(m)
<1>m. Main \in Threads /\ Workers \subseteq Threads
  BY DEF Threads
<1>1. ASSUME NEW t \in Threads, FlushMessages(t) PROVE \E m \in Commands : Send(m)
  BY <1>1, CommandsTyped DEF FlushMessages
<1>2. CASE AskPlain \/ WarnInMemory
  BY <1>2, <1>1, <1>m DEF AskPlain, WarnInMemory
<1>3. CASE Shutdown
  BY <1>3, <1>m, CommandsTyped DEF Shutdown
<1>4. ASSUME NEW w \in Workers, StartTask(w) PROVE sent' = sent \/ \E m \in Commands : Send(m)
  BY <1>4, <1>1, <1>m DEF StartTask
<1>5. ASSUME NEW t \in Threads, Log(t) PROVE \E m \in Commands : Send(m)
  BY <1>5, CommandsTyped DEF Log
<1>6. ASSUME NEW t \in Threads, Continue(t) PROVE sent' = sent \/ \E m \in Commands : Send(m)
  BY <1>6, <1>1 DEF Continue
<1>7. CASE LoggerStep \/ EnterPool \/ LeaveRun \/ LeavePool
  BY <1>7 DEF LoggerStep, Receive, Timeout, FlushLogs, EnterPool, LeaveRun, LeavePool
<1>8. ASSUME NEW w \in Workers, FinishTask(w) PROVE sent' = sent
  BY <1>8 DEF FinishTask
<1>9. ASSUME NEW t \in Threads, LockStdout(t) \/ LockStderr(t) \/ Answer(t) \/ Meet(t)
      PROVE  sent' = sent
  BY <1>9 DEF LockStdout, LockStderr, Answer, Meet
<1>10. CASE UNCHANGED vars
  BY <1>10 DEF vars
<1>11. QED
  BY <1>2, <1>3, <1>4, <1>5, <1>6, <1>7, <1>8, <1>9, <1>10
  DEF Next, MainStep, TaskStep, PromptStep, Exited

\* Only the logger thread takes commands, fills its buffer and writes stderr.
LEMMA OnlyLoggerWrites ==
  ASSUME [Next]_vars
  PROVE  Receive \/ FlushLogs \/ UNCHANGED <<rcvd, buffer, stderr>>
  BY DEF Next, LoggerStep, MainStep, TaskStep, PromptStep, Exited, vars, loggerVars,
         AskPlain, WarnInMemory, EnterPool, LeaveRun, LeavePool, Shutdown, StartTask,
         FinishTask, Log, LockStdout, LockStderr, Continue, Answer, Meet, Timeout

\* A command keeps its meaning as the channel grows.
LEMMA DisplayedStable ==
  ASSUME TypeOK, [Next]_vars
  PROVE  /\ DOMAIN sent = 1..Len(sent)
         /\ Len(sent) \in Nat
         /\ DOMAIN sent \subseteq DOMAIN sent'
         /\ \A i \in DOMAIN sent : sent'[i] = sent[i] /\ (Displayed(i)' <=> Displayed(i))
<1>1. CASE sent' = sent
  BY <1>1 DEF TypeOK, Displayed, ShouldDisplay
<1>2. ASSUME NEW m \in Commands, Send(m)
      PROVE  /\ DOMAIN sent = 1..Len(sent)
             /\ Len(sent) \in Nat
             /\ DOMAIN sent \subseteq DOMAIN sent'
             /\ \A i \in DOMAIN sent : sent'[i] = sent[i] /\ (Displayed(i)' <=> Displayed(i))
  BY <1>2, SendFacts DEF TypeOK, Displayed, ShouldDisplay
<1>3. QED
  BY <1>1, <1>2, SendOrKeep

-----------------------------------------------------------------------------
(* Nothing is lost, invented, repeated or reordered                        *)

StreamInv == NothingLost /\ OnlyDisplayed /\ InOrder

\* What writing the whole buffer makes of stderr.
LEMMA FlushedContents ==
  ASSUME NEW s \in Seq(Nat), NEW b \in Seq(Nat)
  PROVE  /\ DOMAIN (s \o b) = 1..(Len(s) + Len(b))
         /\ DOMAIN s = 1..Len(s) /\ DOMAIN b = 1..Len(b)
         /\ Len(s) \in Nat /\ Len(b) \in Nat
         /\ \A k \in DOMAIN s : (s \o b)[k] = s[k]
         /\ \A k \in DOMAIN b : (s \o b)[Len(s) + k] = b[k]
         /\ \A k \in DOMAIN (s \o b) : k \in DOMAIN s \/ k - Len(s) \in DOMAIN b
  OBVIOUS

\* Every step keeps the order of the lines.
LEMMA StreamStep == TypeOK /\ StreamInv /\ [Next]_vars => StreamInv'
<1> SUFFICES ASSUME TypeOK, StreamInv, [Next]_vars PROVE StreamInv'
  OBVIOUS
<1> USE DEF StreamInv
<1>d. /\ DOMAIN sent = 1..Len(sent)
      /\ Len(sent) \in Nat
      /\ \A i \in 1..rcvd : Displayed(i)' <=> Displayed(i)
  BY DisplayedStable DEF TypeOK
<1>1. CASE UNCHANGED <<rcvd, buffer, stderr>>
  <2>1. NothingLost'
    BY <1>1, <1>d DEF NothingLost, InSeq
  <2>2. OnlyDisplayed'
    BY <1>1, <1>d DEF OnlyDisplayed
  <2>3. InOrder'
    BY <1>1 DEF InOrder
  <2>4. QED
    BY <2>1, <2>2, <2>3
<1>2. CASE Receive
  <2>1. /\ rcvd' = rcvd + 1
        /\ stderr' = stderr
        /\ sent' = sent
        /\ rcvd \in Nat
    BY <1>2 DEF Receive, TypeOK
  <2>2. CASE buffer' = buffer /\ ~Displayed(rcvd + 1)
    <3>1. NothingLost'
      BY <2>1, <2>2, <1>d DEF NothingLost, InSeq, Displayed, ShouldDisplay
    <3>2. OnlyDisplayed'
      BY <2>1, <2>2, <1>d DEF OnlyDisplayed, Displayed, ShouldDisplay
    <3>3. InOrder'
      BY <2>1, <2>2 DEF InOrder
    <3>4. QED
      BY <3>1, <3>2, <3>3
  <2>3. CASE buffer' = Append(buffer, rcvd + 1) /\ Displayed(rcvd + 1)
    <3>1. /\ DOMAIN buffer = 1..Len(buffer) /\ Len(buffer) \in Nat
          /\ DOMAIN buffer' = 1..(Len(buffer) + 1)
          /\ \A k \in DOMAIN buffer : buffer'[k] = buffer[k]
          /\ buffer'[Len(buffer) + 1] = rcvd + 1
      BY <2>3 DEF TypeOK
    <3>2. NothingLost'
      <4>1. \A i : InSeq(i, buffer) => InSeq(i, buffer')
        BY <3>1 DEF InSeq
      <4>2. InSeq(rcvd + 1, buffer')
        BY <3>1 DEF InSeq
      <4>3. \A i \in 1..rcvd' : i \in 1..rcvd \/ i = rcvd + 1
        BY <2>1
      <4>4. \A i \in 1..rcvd : InSeq(i, stderr)' <=> InSeq(i, stderr)
        BY <2>1 DEF InSeq
      <4>5. QED
        BY <2>1, <4>1, <4>2, <4>3, <4>4, <1>d DEF NothingLost, InSeq
    <3>3. OnlyDisplayed'
      BY <2>1, <2>3, <3>1, <1>d DEF OnlyDisplayed, Displayed, ShouldDisplay
    <3>4. InOrder'
      BY <2>1, <3>1 DEF InOrder, OnlyDisplayed
    <3>5. QED
      BY <3>2, <3>3, <3>4
  <2>4. QED
    BY <1>2, <2>2, <2>3 DEF Receive, Displayed
<1>3. CASE FlushLogs
  <2>1. /\ rcvd' = rcvd /\ sent' = sent
        /\ stderr' = stderr \o buffer
        /\ buffer' = <<>>
        /\ DOMAIN buffer' = {}
        /\ stderr \in Seq(Nat) /\ buffer \in Seq(Nat)
    BY <1>3 DEF FlushLogs, TypeOK
  <2>2. NothingLost'
    <3>1. ASSUME NEW i, InSeq(i, stderr) \/ InSeq(i, buffer)
          PROVE  InSeq(i, stderr \o buffer)
      <4>1. CASE InSeq(i, stderr)
        <5>1. PICK k \in DOMAIN stderr : stderr[k] = i
          BY <4>1 DEF InSeq
        <5>2. k \in DOMAIN (stderr \o buffer) /\ (stderr \o buffer)[k] = i
          BY <2>1, <5>1, FlushedContents
        <5>3. QED
          BY <5>2 DEF InSeq
      <4>2. CASE InSeq(i, buffer)
        <5>1. PICK k \in DOMAIN buffer : buffer[k] = i
          BY <4>2 DEF InSeq
        <5>2. Len(stderr) + k \in DOMAIN (stderr \o buffer) /\ (stderr \o buffer)[Len(stderr) + k] = i
          BY <2>1, <5>1, FlushedContents
        <5>3. QED
          BY <5>2 DEF InSeq
      <4>3. QED
        BY <3>1, <4>1, <4>2
    <3>2. QED
      BY <2>1, <3>1, <1>d DEF NothingLost
  <2>3. OnlyDisplayed'
    BY <2>1, <1>d, FlushedContents DEF OnlyDisplayed
  <2>4. InOrder'
    BY <2>1, FlushedContents DEF InOrder
  <2>5. QED
    BY <2>2, <2>3, <2>4
<1>4. QED
  BY <1>1, <1>2, <1>3, OnlyLoggerWrites

\* stderr and the buffer together hold exactly the displayable lines taken so
\* far, each once and in channel order.
THEOREM StreamCorrect == Spec => []OnceInOrder
<1>1. Init => StreamInv
  BY DEF Init, StreamInv, NothingLost, OnlyDisplayed, InOrder
<1>2. QED
  BY <1>1, StreamStep, TypeCorrect, PTL DEF Spec, StreamInv, OnceInOrder

-----------------------------------------------------------------------------
(* The output locks                                                        *)

LockInv == LockDiscipline /\ LockOrder

\* Every step keeps guards, places and owners in agreement.
LEMMA LockStep == TypeOK /\ LockInv /\ [Next]_vars => LockInv'
<1> SUFFICES ASSUME TypeOK, LockInv, [Next]_vars PROVE LockInv'
  OBVIOUS
<1> USE LoggerAssumption DEF LockInv
<1>m. Main \in Threads /\ Workers \subseteq Threads
  BY DEF Threads
<1>t. /\ pc \in [Threads -> Labels] /\ depth \in [Threads -> Nat]
      /\ nested \in [Threads -> BOOLEAN]
      /\ outOwner \in Threads \cup {NoThread} /\ errOwner \in Threads \cup {NoThread}
  BY DEF TypeOK
<1>1. CASE UNCHANGED <<pc, nested, lockVars>>
  BY <1>1 DEF lockVars, LockDiscipline, LockOrder
<1>2. CASE AskPlain
  BY <1>2, <1>m, <1>t DEF AskPlain, FlushMessages, Goto, lockVars, LockDiscipline, LockOrder
<1>3. CASE WarnInMemory
  BY <1>3, <1>m, <1>t DEF WarnInMemory, FlushMessages, Goto, lockVars, LockDiscipline, LockOrder
<1>4. CASE EnterPool \/ LeaveRun \/ LeavePool \/ Shutdown
  BY <1>4, <1>m, <1>t DEF EnterPool, LeaveRun, LeavePool, Shutdown, Goto, lockVars, LockDiscipline, LockOrder
<1>5. ASSUME NEW w \in Workers, StartTask(w) PROVE LockInv'
  BY <1>5, <1>m, <1>t DEF StartTask, FlushMessages, Goto, lockVars, LockDiscipline, LockOrder
<1>6. ASSUME NEW w \in Workers, FinishTask(w) PROVE LockInv'
  BY <1>6, <1>m, <1>t DEF FinishTask, Goto, lockVars, LockDiscipline, LockOrder
<1>7. ASSUME NEW t \in Threads, LockStdout(t) PROVE LockInv'
  BY <1>7, <1>t DEF LockStdout, Goto, LockDiscipline, LockOrder
<1>8. ASSUME NEW t \in Threads, LockStderr(t) PROVE LockInv'
  BY <1>8, <1>t DEF LockStderr, Goto, LockDiscipline, LockOrder
<1>9. ASSUME NEW t \in Threads, ReleaseLocks(t), depth[t] > 0, UNCHANGED nested,
             NEW label \in {"run", "quit", "done", "failed"}, Goto(t, label)
      PROVE  LockInv'
  BY <1>9, <1>t DEF ReleaseLocks, Goto, LockDiscipline, LockOrder
<1>10. ASSUME NEW t \in Threads, Continue(t) PROVE LockInv'
  <2>1. pc[t] = "guarded" /\ depth[t] = 1 /\ nested[t] /\ UNCHANGED nested
    BY <1>10 DEF Continue, LockDiscipline
  <2>2. CASE FlushMessages(t) /\ UNCHANGED lockVars
    BY <2>1, <2>2, <1>t DEF FlushMessages, Goto, lockVars, LockDiscipline, LockOrder
  <2>3. CASE ReleaseLocks(t) /\ (Goto(t, "run") \/ Goto(t, Stopped(t, TRUE)))
    BY <2>1, <2>3, <1>9 DEF Stopped
  <2>4. QED
    BY <1>10, <2>2, <2>3 DEF Continue
<1>11. ASSUME NEW t \in Threads, Answer(t) PROVE LockInv'
  <2>1. depth[t] > 0
    BY <1>11, <1>t DEF Answer, LockDiscipline
  <2>2. QED
    BY <1>11, <2>1, <1>9 DEF Answer, Stopped
<1>12. ASSUME NEW t \in Threads, Meet(t) PROVE LockInv'
  BY <1>12, <1>t DEF Meet, Goto, lockVars, LockDiscipline, LockOrder
<1>13. QED
  BY <1>1, <1>2, <1>3, <1>4, <1>5, <1>6, <1>7, <1>8, <1>10, <1>11, <1>12
  DEF Next, LoggerStep, MainStep, TaskStep, PromptStep, Exited, Receive, Timeout, FlushLogs,
      Log, vars

\* The locks are taken stdout first, and every path out of a question returns
\* them all.
THEOREM LocksCorrect == Spec => [](LockDiscipline /\ LockOrder)
<1>1. Init => LockInv
  BY LoggerAssumption DEF Init, LockInv, LockDiscipline, LockOrder, Threads
<1>2. QED
  BY <1>1, LockStep, TypeCorrect, PTL DEF Spec, LockInv

-----------------------------------------------------------------------------
(* The channel, the logger and the threads stay in step                    *)

\* Tasks start and stop inside install.
LEMMA TasksInPoolStep == TypeOK /\ TasksInPool /\ [Next]_vars => TasksInPool'
<1> SUFFICES ASSUME TypeOK, TasksInPool, [Next]_vars PROVE TasksInPool'
  OBVIOUS
<1> USE LoggerAssumption
<1>m. Main \in Threads /\ Workers \subseteq Threads /\ Main \notin Workers
  BY DEF Threads
<1>t. pc \in [Threads -> Labels]
  BY DEF TypeOK
<1>1. CASE UNCHANGED pc
  BY <1>1 DEF TasksInPool
<1>2. CASE MainStep
  BY <1>2, <1>m, <1>t DEF MainStep, AskPlain, WarnInMemory, EnterPool, LeaveRun, LeavePool,
     Shutdown, FlushMessages, Goto, TasksInPool, Running
<1>3. ASSUME NEW w \in Workers, TaskStep(w) PROVE TasksInPool'
  BY <1>3, <1>m, <1>t DEF TaskStep, StartTask, FinishTask, FlushMessages, Goto, TasksInPool
<1>4. ASSUME NEW t \in Threads, pc[t] \in {"wait", "lockOut", "lockErr", "guarded", "ask"},
             NEW label \in {"run", "wait", "lockOut", "lockErr", "guarded", "ask", Stopped(t, TRUE), Stopped(t, FALSE)},
             Goto(t, label)
      PROVE  TasksInPool'
  <2>1. CASE t = Main
    BY <1>4, <2>1, <1>m, <1>t DEF Goto, Stopped, TasksInPool
  <2>2. CASE t \in Workers
    BY <1>4, <2>2, <1>m, <1>t DEF Goto, Stopped, TasksInPool
  <2>3. QED
    BY <2>1, <2>2 DEF Threads
<1>5. ASSUME NEW t \in Threads, PromptStep(t) PROVE TasksInPool'
  BY <1>5, <1>4 DEF PromptStep, LockStdout, LockStderr, Continue, Answer, FlushMessages
<1>6. ASSUME NEW t \in Threads, Meet(t) PROVE TasksInPool'
  <2>1. CASE pc[t] = "wait" /\ Goto(t, "lockOut")
    BY <2>1, <1>4
  <2>2. CASE pc[t] = "bye" /\ Goto(t, "exited")
    <3>1. t = Main
      BY <2>2 DEF TasksInPool, Threads
    <3>2. QED
      BY <2>2, <3>1, <1>m, <1>t DEF Goto, TasksInPool
  <2>3. QED
    BY <1>6, <2>1, <2>2 DEF Meet
<1>7. QED
  BY <1>1, <1>2, <1>3, <1>5, <1>6
  DEF Next, LoggerStep, Exited, Receive, Timeout, FlushLogs, Log, vars

\* Who may send, and what: a thread at work, about to ask, or starting; main
\* sends the shutdown.  Nobody sends while it waits or after it stopped.
SendsAs(t, m, label) ==
  /\ t \in Threads
  /\ m.from = t
  /\ Send(m)
  /\ Goto(t, label)
  /\ \/ m.kind # "FlushAndShutdown" /\ pc[t] \in {"run", "guarded"} /\ label \in {"run", "wait"}
     \/ m.kind # "FlushAndShutdown" /\ pc[t] = "idle" /\ pc[Main] = "pool" /\ label = "wait" /\ t \in Workers
     \/ m.kind = "FlushAndShutdown" /\ t = Main /\ pc[t] = "quit" /\ label = "bye"
  /\ m.kind = "Flush" => label = "wait"
  /\ m \in Commands
  /\ UNCHANGED loggerVars

\* From the answered flush to the user's answer.
Asking == {"lockOut", "lockErr", "guarded", "ask"}

\* A thread moves without touching the channel; it is neither waiting for the
\* logger nor gone, and it does not become so.
Moves(t, label) ==
  /\ t \in Threads
  /\ Goto(t, label)
  /\ pc[t] \notin {"wait", "bye", "exited"}
  /\ label \notin {"bye", "exited"}
  /\ label \in Asking => pc[t] \in Asking
  /\ UNCHANGED <<sent, loggerVars>>

\* Every step is one of five shapes.
LEMMA StepShapes ==
  ASSUME TypeOK, [Next]_vars
  PROVE  \/ UNCHANGED <<sent, loggerVars, pc>>
         \/ Receive \/ Timeout \/ FlushLogs
         \/ \E t \in Threads : Meet(t)
         \/ \E t \in Threads, m \in Commands, label \in Labels : SendsAs(t, m, label)
         \/ \E t \in Threads, label \in Labels : Moves(t, label)
<1> DEFINE Sends == \E t \in Threads, m \in Commands, label \in Labels : SendsAs(t, m, label)
           Move == \E t \in Threads, label \in Labels : Moves(t, label)
<1>m. Main \in Threads /\ Workers \subseteq Threads
  BY DEF Threads
<1>t. pc \in [Threads -> Labels]
  BY DEF TypeOK
<1>1. ASSUME NEW t \in Threads, FlushMessages(t), UNCHANGED loggerVars,
             \/ pc[t] \in {"run", "guarded"}
             \/ pc[t] = "idle" /\ pc[Main] = "pool" /\ t \in Workers
      PROVE  Sends
  <2>1. SendsAs(t, Flush(t), "wait")
    BY <1>1, CommandsTyped DEF SendsAs, FlushMessages, Flush
  <2>2. Flush(t) \in Commands /\ "wait" \in Labels
    BY CommandsTyped DEF Labels
  <2>3. QED
    BY <2>1, <2>2
<1>2. ASSUME NEW t \in Threads, NEW label \in Labels \ {"bye", "exited"}, Goto(t, label),
             pc[t] \notin {"wait", "bye", "exited"}, UNCHANGED <<sent, loggerVars>>,
             label \in Asking => pc[t] \in Asking
      PROVE  Move
  BY <1>2 DEF Moves
<1> HIDE DEF Sends, Move
<1>3. ASSUME AskPlain PROVE Sends \/ Move
  BY <1>3, <1>1, <1>2, <1>m DEF AskPlain, Labels, Asking
<1>4. ASSUME WarnInMemory PROVE Sends
  BY <1>4, <1>1, <1>m DEF WarnInMemory
<1>5. ASSUME EnterPool \/ LeaveRun \/ LeavePool PROVE Move
  BY <1>5, <1>2, <1>m DEF EnterPool, LeaveRun, LeavePool, Labels, Asking
<1>6. ASSUME Shutdown PROVE Sends
  <2>1. SendsAs(Main, FlushAndShutdown(Main), "bye")
    BY <1>6, <1>m, CommandsTyped DEF SendsAs, Shutdown, FlushAndShutdown
  <2>2. FlushAndShutdown(Main) \in Commands /\ "bye" \in Labels
    BY <1>m, CommandsTyped DEF Labels
  <2>3. QED
    BY <2>1, <2>2, <1>m DEF Sends
<1>7. ASSUME NEW w \in Workers, StartTask(w) PROVE Sends \/ Move
  BY <1>7, <1>1, <1>2, <1>m DEF StartTask, Labels, Asking
<1>8. ASSUME NEW w \in Workers, FinishTask(w) PROVE Move
  BY <1>8, <1>2, <1>m DEF FinishTask, Labels, Asking
<1>9. ASSUME NEW t \in Threads, Log(t) PROVE Sends
  <2>1. PICK k \in LogKinds : Send(PrintLine(t, k))
    BY <1>9 DEF Log
  <2>2. Goto(t, "run")
    BY <1>9, <1>t DEF Log, Goto
  <2>3. SendsAs(t, PrintLine(t, k), "run")
    BY <1>9, <2>1, <2>2, CommandsTyped DEF SendsAs, Log, PrintLine
  <2>4. PrintLine(t, k) \in Commands /\ "run" \in Labels
    BY CommandsTyped DEF Labels
  <2>5. QED
    BY <2>3, <2>4 DEF Sends
<1>10. ASSUME NEW t \in Threads, LockStdout(t) \/ LockStderr(t) \/ Answer(t) PROVE Move
  BY <1>10, <1>2 DEF LockStdout, LockStderr, Answer, Stopped, Labels, Asking
<1>11. ASSUME NEW t \in Threads, Continue(t) PROVE Sends \/ Move
  BY <1>11, <1>1, <1>2 DEF Continue, Stopped, Labels, Asking
<1>12. CASE UNCHANGED vars
  BY <1>12 DEF vars
<1>13. QED
  BY <1>3, <1>4, <1>5, <1>6, <1>7, <1>8, <1>9, <1>10, <1>11, <1>12
  DEF Next, LoggerStep, MainStep, TaskStep, PromptStep, Exited, Sends, Move

\* The logger serves the last command it took.
LEMMA ServingStep == TypeOK /\ Serving /\ [Next]_vars => Serving'
<1> SUFFICES ASSUME TypeOK, Serving, [Next]_vars PROVE Serving'
  OBVIOUS
<1>d. /\ DOMAIN sent = 1..Len(sent) /\ Len(sent) \in Nat
      /\ \A i \in DOMAIN sent : sent'[i] = sent[i]
      /\ req \in 0..Len(sent) /\ rcvd \in 0..Len(sent)
  BY DisplayedStable DEF TypeOK
<1>1. CASE UNCHANGED loggerVars
  BY <1>1, <1>d DEF loggerVars, Serving
<1>2. CASE Receive
  BY <1>2, <1>d DEF Receive, Serving
<1>3. CASE Timeout
  BY <1>3, <1>d DEF Timeout, Serving
<1>4. CASE FlushLogs
  BY <1>4, <1>d DEF FlushLogs, Serving
<1>5. ASSUME NEW t \in Threads, Meet(t) PROVE Serving'
  BY <1>5, <1>d DEF Meet, Serving
<1>6. QED
  BY <1>1, <1>2, <1>3, <1>4, <1>5, StepShapes DEF SendsAs, Moves, loggerVars

\* Nothing is sent after the shutdown.
LEMMA ShutdownLastStep ==
  TypeOK /\ Serving /\ TasksInPool /\ ShutdownLast /\ [Next]_vars => ShutdownLast'
<1> SUFFICES ASSUME TypeOK, Serving, TasksInPool, ShutdownLast, [Next]_vars
             PROVE  ShutdownLast'
  OBVIOUS
<1>d. /\ DOMAIN sent = 1..Len(sent) /\ Len(sent) \in Nat
      /\ req \in 0..Len(sent) /\ rcvd \in 0..Len(sent)
      /\ pc \in [Threads -> Labels] /\ Main \in Threads
  BY DisplayedStable DEF TypeOK, Threads
<1>1. CASE UNCHANGED <<sent, loggerVars, pc>>
  BY <1>1, <1>d DEF loggerVars, ShutdownLast
<1>2. CASE Receive
  BY <1>2, <1>d DEF Receive, ShutdownLast
<1>3. CASE Timeout
  BY <1>3, <1>d DEF Timeout, ShutdownLast
<1>4. CASE FlushLogs
  BY <1>4, <1>d DEF FlushLogs, ShutdownLast
<1>5. ASSUME NEW t \in Threads, Meet(t) PROVE ShutdownLast'
  <2>1. pc[t] = "bye" => t = Main
    BY DEF TasksInPool, Threads
  <2>2. /\ lpc = "barrier" /\ req = rcvd /\ req \in DOMAIN sent /\ buffer = <<>>
        /\ sent' = sent /\ rcvd' = rcvd /\ buffer' = buffer
    BY <1>5, <1>d DEF Meet, Serving
  <2>3. CASE pc[t] = "wait" /\ lpc' = "recv" /\ Goto(t, "lockOut")
    <3>1. pc[Main] # "exited" /\ (pc[Main] = "bye" => t # Main)
      BY <2>2, <2>3 DEF ShutdownLast
    <3>2. pc'[Main] # "exited" /\ (pc[Main] = "bye" => pc'[Main] = "bye")
      BY <2>3, <3>1, <1>d DEF Goto
    <3>3. QED
      BY <2>2, <2>3, <3>1, <3>2, <1>d DEF ShutdownLast
  <2>4. CASE pc[t] = "bye" /\ lpc' = "exited" /\ Goto(t, "exited")
             /\ sent[req].kind = "FlushAndShutdown"
    <3>1. pc'[Main] = "exited" /\ rcvd = Len(sent)
      BY <2>1, <2>2, <2>4, <1>d DEF Goto, ShutdownLast
    <3>2. QED
      BY <2>2, <2>4, <3>1, <1>d DEF ShutdownLast
  <2>5. QED
    BY <1>5, <2>3, <2>4 DEF Meet
<1>6. ASSUME NEW t \in Threads, NEW m \in Commands, NEW label \in Labels, SendsAs(t, m, label)
      PROVE  ShutdownLast'
  <2>1. pc[Main] \notin {"bye", "exited"}
    BY <1>6, <1>d DEF SendsAs, TasksInPool, Threads
  <2>2. \A i \in DOMAIN sent : sent[i].kind # "FlushAndShutdown"
    BY <2>1 DEF ShutdownLast
  <2>3. /\ DOMAIN sent' = 1..(Len(sent) + 1) /\ Len(sent') = Len(sent) + 1
        /\ \A i \in DOMAIN sent : sent'[i] = sent[i]
        /\ sent'[Len(sent) + 1] = m
    BY <1>6, SendFacts DEF SendsAs, TypeOK
  <2>4. m.kind = "FlushAndShutdown" => t = Main /\ label = "bye"
    BY <1>6 DEF SendsAs
  <2>5. label # "exited" /\ lpc' = lpc /\ lpc # "exited"
    BY <1>6, <2>1 DEF SendsAs, loggerVars, ShutdownLast
  <2>6. pc'[Main] # "exited" /\ (m.kind = "FlushAndShutdown" => pc'[Main] = "bye")
    BY <1>6, <2>1, <2>4, <2>5, <1>d DEF SendsAs, Goto
  <2>7. ASSUME NEW i \in DOMAIN sent', sent'[i].kind = "FlushAndShutdown"
        PROVE  i = Len(sent') /\ pc'[Main] \in {"bye", "exited"}
    BY <1>d, <2>2, <2>3, <2>6, <2>7
  <2>8. QED
    BY <2>5, <2>6, <2>7 DEF ShutdownLast
<1>7. ASSUME NEW t \in Threads, NEW label \in Labels, Moves(t, label)
      PROVE  ShutdownLast'
  BY <1>7, <1>d DEF Moves, Goto, loggerVars, ShutdownLast
<1>8. QED
  BY <1>1, <1>2, <1>3, <1>4, <1>5, <1>6, <1>7, StepShapes

\* A waiting thread stays where it is until the logger meets it.
LEMMA FlushWaitsStep ==
  TypeOK /\ Serving /\ ShutdownLast /\ FlushWaits /\ [Next]_vars => FlushWaits'
<1> SUFFICES ASSUME TypeOK, Serving, ShutdownLast, FlushWaits, [Next]_vars,
                    NEW i \in DOMAIN sent', sent'[i].kind = "Flush", Outstanding(i)'
             PROVE  /\ pc'[sent'[i].from] = "wait"
                    /\ \A j \in DOMAIN sent' : j > i => sent'[j].from # sent'[i].from
  BY DEF FlushWaits
<1>d. /\ DOMAIN sent = 1..Len(sent) /\ Len(sent) \in Nat
      /\ req \in 0..Len(sent) /\ rcvd \in 0..Len(sent)
      /\ pc \in [Threads -> Labels] /\ sent \in Seq(Commands)
  BY DisplayedStable DEF TypeOK
<1>f. \A j \in DOMAIN sent : sent[j].from \in Threads
  <2>1. \A j \in DOMAIN sent : sent[j] \in Commands
    BY <1>d
  <2>2. \A m \in Commands : m.from \in Threads
    BY DEF Commands
  <2>3. QED
    BY <2>1, <2>2
<1>1. CASE UNCHANGED <<sent, pc>> /\ (Outstanding(i)' => Outstanding(i))
  BY <1>1 DEF FlushWaits
<1>2. CASE UNCHANGED <<sent, loggerVars, pc>>
  BY <1>1, <1>2 DEF Outstanding, loggerVars
<1>3. CASE Receive
  <2>1. i = rcvd + 1 => Outstanding(i)
    BY <1>d DEF Outstanding
  <2>2. UNCHANGED <<sent, pc>> /\ (Outstanding(i)' => Outstanding(i))
    BY <1>3, <2>1, <1>d DEF Receive, Outstanding, Serving
  <2>3. QED
    BY <1>1, <2>2
<1>4. CASE Timeout \/ FlushLogs
  <2>1. UNCHANGED <<sent, pc, rcvd>>
    BY <1>4 DEF Timeout, FlushLogs
  <2>i. i \in 1..Len(sent)
    BY <2>1, <1>d
  <2>2. Outstanding(i)' => Outstanding(i)
    <3>1. CASE Timeout
      BY <3>1, <2>i DEF Timeout, Outstanding
    <3>2. CASE FlushLogs
      BY <3>2 DEF FlushLogs, Outstanding
    <3>3. QED
      BY <1>4, <3>1, <3>2
  <2>3. QED
    BY <1>1, <2>1, <2>2
<1>5. ASSUME NEW t \in Threads, Meet(t)
      PROVE  /\ pc'[sent'[i].from] = "wait"
             /\ \A j \in DOMAIN sent' : j > i => sent'[j].from # sent'[i].from
  <2>1. /\ sent' = sent /\ rcvd' = rcvd /\ lpc' \in {"recv", "exited"}
        /\ req = rcvd /\ req \in DOMAIN sent /\ t = sent[req].from
    BY <1>5, <1>d DEF Meet, Serving
  <2>2. i > req /\ Outstanding(i)
    BY <2>1 DEF Outstanding
  <2>3. sent[req].kind = "Flush"
    BY <1>5, <2>1, <2>2, <1>d DEF Meet, ShutdownLast
  <2>4. Outstanding(req) /\ pc[t] = "wait"
    BY <1>5, <2>3 DEF Outstanding, Meet
  <2>5. sent[i].from # t
    BY <2>1, <2>2, <2>3, <2>4 DEF FlushWaits
  <2>6. \A u \in Threads : u # t => pc'[u] = pc[u]
    BY <1>5, <1>d DEF Meet, Goto
  <2>7. sent[i].from \in Threads
    BY <2>1, <1>f
  <2>8. QED
    BY <2>1, <2>2, <2>5, <2>6, <2>7 DEF FlushWaits
<1>6. ASSUME NEW t \in Threads, NEW m \in Commands, NEW label \in Labels, SendsAs(t, m, label)
      PROVE  /\ pc'[sent'[i].from] = "wait"
             /\ \A j \in DOMAIN sent' : j > i => sent'[j].from # sent'[i].from
  <2>1. /\ DOMAIN sent' = 1..(Len(sent) + 1)
        /\ \A j \in DOMAIN sent : sent'[j] = sent[j]
        /\ sent'[Len(sent) + 1] = m
        /\ m.from = t /\ pc[t] # "wait"
        /\ pc' = [pc EXCEPT ![t] = label] /\ (m.kind = "Flush" => label = "wait")
    BY <1>6, SendFacts DEF SendsAs, TypeOK, Goto
  <2>2. CASE i \in DOMAIN sent
    <3>1. Outstanding(i) /\ sent[i].kind = "Flush" /\ sent[i].from \in Threads
      BY <1>6, <2>1, <2>2, <1>f DEF SendsAs, Outstanding, loggerVars
    <3>2. pc[sent[i].from] = "wait" /\ sent[i].from # t
      BY <2>1, <2>2, <3>1 DEF FlushWaits
    <3>3. QED
      BY <2>1, <2>2, <3>1, <3>2, <1>d DEF FlushWaits
  <2>3. CASE i = Len(sent) + 1
    BY <2>1, <2>3, <1>d
  <2>4. QED
    BY <2>1, <2>2, <2>3, <1>d
<1>7. ASSUME NEW t \in Threads, NEW label \in Labels, Moves(t, label)
      PROVE  /\ pc'[sent'[i].from] = "wait"
             /\ \A j \in DOMAIN sent' : j > i => sent'[j].from # sent'[i].from
  <2>1. Outstanding(i) /\ sent' = sent
    BY <1>7 DEF Moves, Outstanding, loggerVars
  <2>2. pc[sent[i].from] = "wait" /\ sent[i].from \in Threads
    BY <2>1, <1>f DEF FlushWaits
  <2>3. pc'[sent[i].from] = "wait"
    BY <1>7, <2>2, <1>d DEF Moves, Goto
  <2>4. QED
    BY <2>1, <2>3 DEF FlushWaits
<1>8. QED
  BY <1>2, <1>3, <1>4, <1>5, <1>6, <1>7, StepShapes

\* The channel, the logger and the other threads stay in step.
THEOREM HandshakeCorrect == Spec => []Handshake
<1>1. Init => Handshake
  BY LoggerAssumption DEF Init, Handshake, FlushWaits, Serving, ShutdownLast, TasksInPool, Threads
<1>2. TypeOK /\ Handshake /\ [Next]_vars => Handshake'
  BY FlushWaitsStep, ServingStep, ShutdownLastStep, TasksInPoolStep DEF Handshake
<1>3. QED
  BY <1>1, <1>2, TypeCorrect, PTL DEF Spec

\* By the time the logger has gone, no thread can send.
THEOREM SendsAreOver == Spec => []NoSendAfterShutdown
<1>1. Handshake => NoSendAfterShutdown
  BY DEF Handshake, ShutdownLast, TasksInPool, NoSendAfterShutdown, Threads
<1>2. QED
  BY <1>1, HandshakeCorrect, PTL

\* When the process exits, every line any thread logged is on stderr.
THEOREM ExitComplete == Spec => []ExitShowsEverything
<1>1. TypeOK /\ StreamInv /\ Handshake => ExitShowsEverything
  <2> SUFFICES ASSUME TypeOK, StreamInv, Handshake, pc[Main] = "exited",
                      NEW i \in DOMAIN sent, Displayed(i)
               PROVE  InSeq(i, stderr)
    BY DEF ExitShowsEverything
  <2>1. rcvd = Len(sent) /\ buffer = <<>>
    BY DEF Handshake, ShutdownLast
  <2>2. i \in 1..rcvd /\ ~InSeq(i, buffer)
    BY <2>1 DEF TypeOK, InSeq
  <2>3. QED
    BY <2>2 DEF StreamInv, NothingLost
<1>2. QED
  BY <1>1, TypeCorrect, StreamCorrect, HandshakeCorrect, PTL DEF StreamInv, OnceInOrder

-----------------------------------------------------------------------------
(* A question is read after the log it follows                             *)

\* Every step keeps what a question shows: its own lines were flushed before it.
LEMMA PromptStepShows ==
  TypeOK /\ StreamInv /\ Handshake /\ PromptShowsEarlierLogs /\ [Next]_vars
    => PromptShowsEarlierLogs'
<1> SUFFICES ASSUME TypeOK, StreamInv, Handshake, PromptShowsEarlierLogs, [Next]_vars,
                    NEW u \in Threads, pc'[u] \in Asking,
                    NEW i \in DOMAIN sent', Displayed(i)', sent'[i].from = u
             PROVE  InSeq(i, stderr')
  BY DEF PromptShowsEarlierLogs, Asking, InSeq
<1>d. /\ DOMAIN sent = 1..Len(sent) /\ Len(sent) \in Nat
      /\ req \in 0..Len(sent) /\ rcvd \in 0..Len(sent)
      /\ pc \in [Threads -> Labels] /\ sent \in Seq(Commands)
      /\ stderr \in Seq(Nat) /\ buffer \in Seq(Nat)
  BY DisplayedStable DEF TypeOK
\* Whatever the step, stderr keeps what it shows.
<1>g. ASSUME InSeq(i, stderr) PROVE InSeq(i, stderr')
  <2>1. CASE FlushLogs
    <3>1. PICK k \in DOMAIN stderr : stderr[k] = i
      BY <1>g DEF InSeq
    <3>2. stderr' = stderr \o buffer
      BY <2>1 DEF FlushLogs
    <3>3. k \in DOMAIN stderr' /\ stderr'[k] = i
      BY <3>1, <3>2, <1>d, FlushedContents
    <3>4. QED
      BY <3>3 DEF InSeq
  <2>2. CASE stderr' = stderr
    BY <1>g, <2>2
  <2>3. QED
    BY <2>1, <2>2, OnlyLoggerWrites DEF Receive
<1>1. CASE i \in DOMAIN sent /\ pc[u] \in Asking /\ sent'[i] = sent[i]
  <2>1. Displayed(i)
    BY <1>1, DisplayedStable
  <2>2. QED
    BY <1>1, <2>1, <1>g DEF PromptShowsEarlierLogs, Asking
<1>2. CASE UNCHANGED <<sent, pc>>
  BY <1>2, <1>1
<1>3. CASE Receive \/ Timeout \/ FlushLogs
  BY <1>3, <1>2 DEF Receive, Timeout, FlushLogs
<1>4. ASSUME NEW t \in Threads, Meet(t) PROVE InSeq(i, stderr')
  <2>1. CASE u # t
    BY <1>4, <2>1, <1>1, <1>d DEF Meet, Goto
  <2>2. CASE u = t
    <3>1. /\ lpc = "barrier" /\ req = rcvd /\ req \in DOMAIN sent /\ buffer = <<>>
          /\ sent' = sent /\ stderr' = stderr /\ t = sent[req].from
      BY <1>4, <1>d DEF Meet, Handshake, Serving
    <3>2. sent[req].kind = "Flush"
      BY <1>4, <2>2, <1>d DEF Meet, Goto, Asking
    <3>3. \A j \in DOMAIN sent : j > req => sent[j].from # t
      BY <3>1, <3>2 DEF Handshake, FlushWaits, Outstanding
    <3>4. i \in 1..rcvd /\ Displayed(i) /\ ~InSeq(i, buffer)
      BY <2>2, <3>1, <3>3, <1>d, DisplayedStable DEF InSeq
    <3>5. QED
      BY <3>1, <3>4 DEF StreamInv, NothingLost
  <2>3. QED
    BY <2>1, <2>2
<1>5. ASSUME NEW t \in Threads, NEW m \in Commands, NEW label \in Labels, SendsAs(t, m, label)
      PROVE  InSeq(i, stderr')
  <2>1. u # t /\ pc[u] \in Asking
    BY <1>5, <1>d DEF SendsAs, Goto, Asking
  <2>2. i \in DOMAIN sent /\ sent'[i] = sent[i]
    <3>1. /\ DOMAIN sent' = 1..(Len(sent) + 1)
          /\ \A j \in DOMAIN sent : sent'[j] = sent[j]
          /\ sent'[Len(sent) + 1].from = t
      BY <1>5, <1>d, SendFacts DEF SendsAs
    <3>2. QED
      BY <2>1, <3>1, <1>d
  <2>3. QED
    BY <2>1, <2>2, <1>1
<1>6. ASSUME NEW t \in Threads, NEW label \in Labels, Moves(t, label)
      PROVE  InSeq(i, stderr')
  BY <1>6, <1>1, <1>d DEF Moves, Goto
<1>7. QED
  BY <1>2, <1>3, <1>4, <1>5, <1>6, StepShapes

\* What a thread logged before it asks is on stderr before the question is.
THEOREM PromptsComeAfterLogs == Spec => []PromptShowsEarlierLogs
<1>1. Init => PromptShowsEarlierLogs
  BY DEF Init, PromptShowsEarlierLogs
<1>2. QED
  BY <1>1, PromptStepShows, TypeCorrect, StreamCorrect, HandshakeCorrect, PTL
  DEF Spec, StreamInv, OnceInOrder

-----------------------------------------------------------------------------
(* The log path implements LogStream                                       *)

AcceptedLines == {i \in DOMAIN sent : Displayed(i)}

\* One step of the log path is one step of the stream, or none.
LEMMA StreamRefines ==
  TypeOK /\ StreamInv /\ Handshake /\ [Next]_vars
    => [Stream!StreamNext]_(Stream!streamVars)
<1> SUFFICES ASSUME TypeOK, StreamInv, Handshake, [Next]_vars
             PROVE  [Stream!StreamNext]_(Stream!streamVars)
  OBVIOUS
<1> USE DEF AcceptedLines
<1>d. /\ DOMAIN sent = 1..Len(sent) /\ Len(sent) \in Nat
      /\ req \in 0..Len(sent) /\ rcvd \in 0..Len(sent)
      /\ pc \in [Threads -> Labels] /\ sent \in Seq(Commands)
      /\ stderr \in Seq(Nat) /\ buffer \in Seq(Nat)
  BY DisplayedStable DEF TypeOK
<1>s. sent' = sent => AcceptedLines' = AcceptedLines
  BY DisplayedStable
<1>1. CASE AcceptedLines' = AcceptedLines /\ stderr' = stderr /\ (lpc' = "exited" <=> lpc = "exited")
  BY <1>1 DEF Stream!streamVars
<1>2. CASE UNCHANGED <<sent, loggerVars, pc>>
  BY <1>1, <1>2, <1>s DEF loggerVars
<1>3. CASE Receive \/ Timeout
  BY <1>1, <1>3, <1>s DEF Receive, Timeout
<1>4. CASE FlushLogs /\ buffer = <<>>
  <2>1. stderr' = stderr
    BY <1>4, <1>d DEF FlushLogs
  <2>2. QED
    BY <1>1, <1>4, <2>1, <1>s DEF FlushLogs
<1>5. CASE FlushLogs /\ buffer # <<>>
  <2> DEFINE last == buffer[Len(buffer)]
  <2>1. /\ sent' = sent /\ stderr' = stderr \o buffer
        /\ lpc # "exited" /\ lpc' # "exited"
        /\ Len(buffer) \in DOMAIN buffer /\ Len(buffer) >= 1
    BY <1>5, <1>d DEF FlushLogs
  <2>2. last \in AcceptedLines
    BY <2>1, <1>d DEF StreamInv, OnlyDisplayed
  <2>3. \A k \in DOMAIN stderr' : stderr'[k] \in AcceptedLines /\ stderr'[k] <= last
    <3>1. \A k \in DOMAIN stderr : stderr[k] \in AcceptedLines /\ stderr[k] <= last
      BY <2>1, <1>d DEF StreamInv, OnlyDisplayed, InOrder
    <3>2. ASSUME NEW k \in DOMAIN buffer PROVE buffer[k] \in AcceptedLines /\ buffer[k] <= last
      <4>1. buffer[k] \in AcceptedLines /\ buffer[k] \in Nat /\ last \in Nat
        BY <2>1, <1>d DEF StreamInv, OnlyDisplayed
      <4>2. k = Len(buffer) \/ k < Len(buffer)
        BY <1>d
      <4>3. k < Len(buffer) => buffer[k] < last
        BY <2>1, <1>d DEF StreamInv, InOrder
      <4>4. QED
        BY <4>1, <4>2, <4>3
    <3>3. QED
      BY <2>1, <3>1, <3>2, <1>d, FlushedContents
  <2>4. ASSUME NEW n \in AcceptedLines, n <= last PROVE \E k \in DOMAIN stderr' : stderr'[k] = n
    <3>1. n \in 1..rcvd
      BY <2>1, <2>4, <1>d DEF StreamInv, OnlyDisplayed
    <3>2. CASE InSeq(n, stderr)
      <4>1. PICK k \in DOMAIN stderr : stderr[k] = n
        BY <3>2 DEF InSeq
      <4>2. k \in DOMAIN stderr' /\ stderr'[k] = n
        BY <2>1, <4>1, <1>d, FlushedContents
      <4>3. QED
        BY <4>2
    <3>3. CASE InSeq(n, buffer)
      <4>1. PICK k \in DOMAIN buffer : buffer[k] = n
        BY <3>3 DEF InSeq
      <4>2. Len(stderr) + k \in DOMAIN stderr' /\ stderr'[Len(stderr) + k] = n
        BY <2>1, <4>1, <1>d, FlushedContents
      <4>3. QED
        BY <4>2
    <3>4. QED
      BY <3>1, <3>2, <3>3 DEF StreamInv, NothingLost
  <2>5. Stream!Lines(stderr') = {n \in AcceptedLines : n <= last}
    BY <2>3, <2>4 DEF Stream!Lines
  <2>6. Stream!Ascending(stderr')
    <3>1. InOrder'
      BY StreamStep DEF StreamInv
    <3>2. QED
      BY <3>1 DEF InOrder, Stream!Ascending
  <2>7. Len(stderr') > Len(stderr) /\ \A k \in DOMAIN stderr : stderr'[k] = stderr[k]
    BY <2>1, <1>d, FlushedContents
  <2>8. AcceptedLines' = AcceptedLines
    BY <2>1, <1>s
  <2>9. Stream!Show
    BY <2>1, <2>2, <2>5, <2>6, <2>7, <2>8 DEF Stream!Show
  <2>10. QED
    BY <2>9 DEF Stream!StreamNext
<1>6. ASSUME NEW t \in Threads, Meet(t) PROVE [Stream!StreamNext]_(Stream!streamVars)
  <2>1. /\ sent' = sent /\ stderr' = stderr /\ buffer = <<>>
        /\ req = rcvd /\ req \in DOMAIN sent /\ lpc = "barrier"
    BY <1>6, <1>d DEF Meet, Handshake, Serving
  <2>2. CASE lpc' = "recv"
    BY <1>1, <2>1, <2>2, <1>s
  <2>3. CASE lpc' = "exited" /\ sent[req].kind = "FlushAndShutdown"
    <3>1. rcvd = Len(sent)
      BY <2>1, <2>3 DEF Handshake, ShutdownLast
    <3>2. \A n \in AcceptedLines : InSeq(n, stderr)
      BY <2>1, <3>1, <1>d DEF StreamInv, NothingLost, InSeq
    <3>3. \A k \in DOMAIN stderr : stderr[k] \in AcceptedLines
      BY <1>d DEF StreamInv, OnlyDisplayed
    <3>4. Stream!Lines(stderr) = AcceptedLines
      BY <3>2, <3>3 DEF Stream!Lines, InSeq
    <3>5. Stream!Close
      BY <2>1, <2>3, <3>4, <1>s DEF Stream!Close
    <3>6. QED
      BY <3>5 DEF Stream!StreamNext
  <2>4. QED
    BY <1>6, <2>2, <2>3 DEF Meet
<1>7. ASSUME NEW t \in Threads, NEW m \in Commands, NEW label \in Labels, SendsAs(t, m, label)
      PROVE  [Stream!StreamNext]_(Stream!streamVars)
  <2>n. PICK n \in Nat : n = Len(sent) + 1
    BY <1>d
  <2>1. /\ DOMAIN sent' = 1..n /\ \A j \in DOMAIN sent : sent'[j] = sent[j]
    BY <1>7, <1>d, <2>n, SendFacts DEF SendsAs
  <2>2. lpc # "exited" /\ lpc' = lpc /\ stderr' = stderr
    BY <1>7, <1>d DEF SendsAs, loggerVars, Handshake, ShutdownLast, TasksInPool, Threads
  <2>3. \A j \in DOMAIN sent : Displayed(j)' <=> Displayed(j)
    BY DisplayedStable
  <2>4. CASE Displayed(n)'
    <3>1. AcceptedLines' = AcceptedLines \cup {n}
      BY <2>1, <2>3, <2>4, <2>n, <1>d
    <3>2. \A j \in AcceptedLines : j < n
      BY <2>n, <1>d
    <3>3. n \in AcceptedLines'
      BY <3>1
    <3>4. Stream!Accept
      BY <2>2, <3>1, <3>2, <3>3 DEF Stream!Accept
    <3>5. QED
      BY <3>4 DEF Stream!StreamNext
  <2>5. CASE ~Displayed(n)'
    <3>1. AcceptedLines' = AcceptedLines
      BY <2>1, <2>3, <2>5, <2>n, <1>d
    <3>2. QED
      BY <1>1, <2>2, <3>1
  <2>6. QED
    BY <2>4, <2>5
<1>8. ASSUME NEW t \in Threads, NEW label \in Labels, Moves(t, label)
      PROVE  [Stream!StreamNext]_(Stream!streamVars)
  BY <1>1, <1>8, <1>s DEF Moves, loggerVars
<1>9. QED
  BY <1>2, <1>3, <1>4, <1>5, <1>6, <1>7, <1>8, StepShapes

\* Channel, buffer, timeout, barriers and locks together behave as one log
\* that shows the accepted lines in order and closes with none missing.
THEOREM LoggerImplementsStream == Spec => ImplementsStream
<1>1. Init => Stream!StreamInit
  BY DEF Init, Stream!StreamInit
<1>2. QED
  BY <1>1, StreamRefines, TypeCorrect, StreamCorrect, HandshakeCorrect, PTL
  DEF Spec, StreamInv, OnceInOrder, ImplementsStream, Stream!StreamSpec
=============================================================================
