--------------------------- MODULE TcpClientProofs ---------------------------
(***************************************************************************)
(* Proofs about TcpClient for any number of endpoints, lines and GPI       *)
(* changes, and any limit of the retry delay.                              *)
(***************************************************************************)
EXTENDS TcpClient, SequenceTheorems, TLAPS

\* What is ready to be handled is there to be handled.
OpsInv ==
  /\ connectOp # "none" => endpoint <= Endpoints
  /\ readOp = "line" => buffer # <<>>
  /\ connectOp = "none" \/ readOp = "none"
  /\ phase = "waiting" => connectOp = "none" /\ readOp = "none"

\* A write is in flight or its handler ready exactly while tx_running, except
\* that a stopped client may keep tx_running without a write.
WriteInv ==
  /\ Len(writing) <= 1
  /\ writeDone = "ok" => writing = <<>>
  /\ writeDone = "error" => writing # <<>>
  /\ ~txRunning => writing = <<>> /\ writeDone = "none"
  /\ ~stopped /\ txRunning => writing # <<>> \/ writeDone # "none"
  /\ ~stopped /\ queueTx # <<>> => posts > 0 \/ txRunning

\* deadline_ has a check_deadline, which does not sleep past the expiry.
TimerInv ==
  phase = "running" /\ ~stopped =>
    /\ waits + ready > 0
    /\ connectOp = "pending" \/ readOp = "pending" => deadline # "never"
    /\ deadline = "passed" => waits = 0

\* A stopped client waits for nothing: its handlers only have to be run.
StoppedInv ==
  stopped => /\ phase = "running" /\ socket = "closed" /\ waits = 0
             /\ connectOp # "pending" /\ readOp # "pending"
             /\ writing # <<>> => writeDone = "error"

IInv == TypeOK /\ OpsInv /\ WriteInv /\ TimerInv /\ StoppedInv

\* What the proofs use of sequences.
LEMMA SeqFacts ==
  ASSUME NEW S, NEW s \in Seq(S)
  PROVE  /\ s # <<>> => Head(s) \in S /\ Tail(s) \in Seq(S) /\ Len(Tail(s)) = Len(s) - 1
         /\ \A e \in S : /\ Append(s, e) \in Seq(S) /\ Append(s, e) # <<>>
                         /\ Len(Append(s, e)) = Len(s) + 1
         /\ Len(s) \in Nat /\ (s = <<>> <=> Len(s) = 0)
         /\ <<>> \in Seq(S) /\ Len(<<>>) = 0
BY EmptySeq, LenProperties, HeadTailProperties, AppendProperties

\* A number of at most one that is not zero is one.
LEMMA AtMostOne == ASSUME NEW n \in Nat, n <= 1, n # 0 PROVE n = 1
OBVIOUS

\* A short sequence has no tail.
LEMMA ShortSeq ==
  ASSUME NEW S, NEW s \in Seq(S), Len(s) <= 1, s # <<>>
  PROVE  Len(s) = 1 /\ Tail(s) = <<>>
<1>1. Len(s) = 1
  BY SeqFacts, AtMostOne
<1>2. Tail(s) \in Seq(S) /\ Len(Tail(s)) = 0
  BY <1>1, SeqFacts
<1> QED BY <1>1, <1>2, SeqFacts

\* Every reply is one of the lines a client sends.
LEMMA ReplyType == \A line : Reply(line) \in OutLines
BY DEF Reply, OutLines

\* The next delay is a number of seconds below twice the limit (or small).
LEMMA DelayFacts ==
  ASSUME NEW d \in Nat, NEW e \in NextDelays(d)
  PROVE  /\ e \in Nat
         /\ d <= DelayLimit + (IF DelayLimit > 2 THEN DelayLimit ELSE 2)
              => e <= DelayLimit + (IF DelayLimit > 2 THEN DelayLimit ELSE 2)
         /\ d = 0 => e <= 2
BY ClientAssumption DEF ClientAssumption, NextDelays

\* Every step keeps the types of the connection, ...
LEMMA ConnTypeStep == ConnTypeOK /\ OpsInv /\ [Next]_vars => ConnTypeOK'
<1> SUFFICES ASSUME ConnTypeOK /\ OpsInv, [Next]_vars PROVE ConnTypeOK'
  OBVIOUS
<1> USE ClientAssumption DEF ClientAssumption, ConnTypeOK, OpsInv,
        connVars, txVars, timerVars, wtimerVars, serverVars, threadVars
<1>a. /\ <<>> \in Seq(ServerLines) /\ (buffer # <<>> => Tail(buffer) \in Seq(ServerLines))
      /\ \A line \in ServerLines : Append(inbox, line) \in Seq(ServerLines)
  BY SeqFacts DEF ConnTypeOK
<1>1. CASE Start
  BY <1>1, <1>a DEF Start
<1>2. CASE ResolveFails
  BY <1>2, <1>a DEF ResolveFails, NextRound
<1>3. CASE RunReturns
  BY <1>3, <1>a DEF RunReturns, NextRound
<1>4. CASE HandleConnect
  BY <1>4 DEF HandleConnect, InRun, StartConnect, Stop, AbortWrite, StartRead, SetDeadline, CancelWaits
<1>5. CASE HandleLine
  BY <1>5, <1>a DEF HandleLine, InRun, QueueWriteLine, StartRead, SetDeadline, CancelWaits
<1>6. CASE HandleLineThrows
  BY <1>6, <1>a DEF HandleLineThrows, NextRound
<1>7. CASE HandleReadEnds
  BY <1>7 DEF HandleReadEnds, InRun, Stop, AbortWrite, CancelWaits, Aborted
<1>8. CASE HandleWriteOk
  BY <1>8 DEF HandleWriteOk, InRun, CheckWriteQueue, StartWrite
<1>9. CASE HandleWriteEnds
  BY <1>9 DEF HandleWriteEnds, InRun, Stop, CancelWaits, Aborted
<1>10. CASE PostedCheck
  BY <1>10 DEF PostedCheck, InRun, CheckWriteQueue, StartWrite
<1>11. CASE CheckDeadline
  BY <1>11 DEF CheckDeadline, InRun, DeadlineBody, AbortWrite, Aborted
<1>12. CASE CheckWriteDeadline
  BY <1>12 DEF CheckWriteDeadline, InRun, AbortWrite, Aborted
<1>13. CASE CheckDeadlineOfWrite
  BY <1>13 DEF CheckDeadlineOfWrite, InRun, DeadlineBody, AbortWrite, Aborted
<1>14. CASE DeadlineExpires
  BY <1>14 DEF DeadlineExpires, CancelWaits
<1>15. CASE WriteDeadlineExpires
  BY <1>15 DEF WriteDeadlineExpires
<1>16. CASE ConnectCompletes
  BY <1>16 DEF ConnectCompletes
<1>17. CASE ServerSends
  BY <1>17, <1>a DEF ServerSends
<1>18. CASE ReadCompletes
  BY <1>18, <1>a DEF ReadCompletes
<1>19. CASE WriteCompletes
  BY <1>19 DEF WriteCompletes
<1>20. CASE QueueGpi
  BY <1>20 DEF QueueGpi, QueueWriteLine
<1>21. CASE UNCHANGED vars
  BY <1>21 DEF vars
<1> QED BY <1>1, <1>2, <1>3, <1>4, <1>5, <1>6, <1>7, <1>8, <1>9, <1>10, <1>11,
         <1>12, <1>13, <1>14, <1>15, <1>16, <1>17, <1>18, <1>19, <1>20, <1>21
   DEF Next

\* ... of its output, ...
LEMMA TxTypeStep == TxTypeOK /\ WriteInv /\ [Next]_vars => TxTypeOK'
<1> SUFFICES ASSUME TxTypeOK /\ WriteInv, [Next]_vars PROVE TxTypeOK'
  OBVIOUS
<1> USE DEF TxTypeOK, WriteInv,
        connVars, txVars, timerVars, wtimerVars, serverVars, threadVars
<1>a. <<>> \in Seq(OutLines)
  BY SeqFacts
<1>b. queueTx # <<>> => Head(queueTx) \in OutLines /\ Tail(queueTx) \in Seq(OutLines)
  BY SeqFacts
<1>c. writing # <<>> => Head(writing) \in OutLines /\ Tail(writing) \in Seq(OutLines)
  BY SeqFacts
<1>d. \A line \in OutLines : /\ Append(queueTx, line) \in Seq(OutLines)
                            /\ Append(writing, line) \in Seq(OutLines)
  BY SeqFacts
<1>e. "GPI" \in OutLines
  BY DEF OutLines
<1>1. CASE Start
  BY <1>1 DEF Start
<1>2. CASE ResolveFails
  BY <1>2, <1>a DEF ResolveFails, NextRound
<1>3. CASE RunReturns
  BY <1>3, <1>a DEF RunReturns, NextRound
<1>4. CASE HandleConnect
  BY <1>4 DEF HandleConnect, InRun, StartConnect, Stop, AbortWrite, StartRead, SetDeadline, CancelWaits
<1>5. CASE HandleLine
  BY <1>5, <1>d, ReplyType DEF HandleLine, InRun, QueueWriteLine, StartRead, SetDeadline, CancelWaits
<1>6. CASE HandleLineThrows
  BY <1>6, <1>a DEF HandleLineThrows, NextRound
<1>7. CASE HandleReadEnds
  BY <1>7 DEF HandleReadEnds, InRun, Stop, AbortWrite, CancelWaits, Aborted
<1>8. CASE HandleWriteOk
  BY <1>8, <1>a, <1>b, <1>d DEF HandleWriteOk, InRun, CheckWriteQueue, StartWrite
<1>9. CASE HandleWriteEnds
  BY <1>9, <1>c DEF HandleWriteEnds, InRun, Stop, CancelWaits, Aborted
<1>10. CASE PostedCheck
  BY <1>10, <1>b, <1>d DEF PostedCheck, InRun, CheckWriteQueue, StartWrite
<1>11. CASE CheckDeadline
  BY <1>11 DEF CheckDeadline, InRun, DeadlineBody, AbortWrite, Aborted
<1>12. CASE CheckWriteDeadline
  BY <1>12 DEF CheckWriteDeadline, InRun, AbortWrite, Aborted
<1>13. CASE CheckDeadlineOfWrite
  BY <1>13 DEF CheckDeadlineOfWrite, InRun, DeadlineBody, AbortWrite, Aborted
<1>14. CASE DeadlineExpires
  BY <1>14 DEF DeadlineExpires, CancelWaits
<1>15. CASE WriteDeadlineExpires
  BY <1>15 DEF WriteDeadlineExpires
<1>16. CASE ConnectCompletes
  BY <1>16 DEF ConnectCompletes
<1>17. CASE ServerSends
  BY <1>17 DEF ServerSends
<1>18. CASE ReadCompletes
  BY <1>18 DEF ReadCompletes
<1>19. CASE WriteCompletes
  BY <1>19, <1>c DEF WriteCompletes
<1>20. CASE QueueGpi
  BY <1>20, <1>d, <1>e DEF QueueGpi, QueueWriteLine
<1>21. CASE UNCHANGED vars
  BY <1>21 DEF vars
<1> QED BY <1>1, <1>2, <1>3, <1>4, <1>5, <1>6, <1>7, <1>8, <1>9, <1>10, <1>11,
         <1>12, <1>13, <1>14, <1>15, <1>16, <1>17, <1>18, <1>19, <1>20, <1>21
   DEF Next

\* ... of its timers and its thread, ...
LEMMA TimerTypeStep == TimerTypeOK /\ [Next]_vars => TimerTypeOK'
<1> SUFFICES ASSUME TimerTypeOK, [Next]_vars PROVE TimerTypeOK'
  OBVIOUS
<1> USE DEF TimerTypeOK, connVars, txVars, timerVars, wtimerVars, serverVars, threadVars
<1>1. CASE Start
  BY <1>1 DEF Start
<1>2. CASE ResolveFails
  BY <1>2 DEF ResolveFails, NextRound
<1>3. CASE RunReturns
  BY <1>3 DEF RunReturns, NextRound
<1>4. CASE HandleConnect
  BY <1>4 DEF HandleConnect, InRun, StartConnect, Stop, AbortWrite, StartRead, SetDeadline, CancelWaits
<1>5. CASE HandleLine
  BY <1>5 DEF HandleLine, InRun, QueueWriteLine, StartRead, SetDeadline, CancelWaits
<1>6. CASE HandleLineThrows
  BY <1>6 DEF HandleLineThrows, NextRound
<1>7. CASE HandleReadEnds
  BY <1>7 DEF HandleReadEnds, InRun, Stop, AbortWrite, CancelWaits, Aborted
<1>8. CASE HandleWriteOk
  BY <1>8 DEF HandleWriteOk, InRun, CheckWriteQueue, StartWrite
<1>9. CASE HandleWriteEnds
  BY <1>9 DEF HandleWriteEnds, InRun, Stop, CancelWaits, Aborted
<1>10. CASE PostedCheck
  BY <1>10 DEF PostedCheck, InRun, CheckWriteQueue, StartWrite
<1>11. CASE CheckDeadline
  BY <1>11 DEF CheckDeadline, InRun, DeadlineBody, AbortWrite, Aborted
<1>12. CASE CheckWriteDeadline
  BY <1>12 DEF CheckWriteDeadline, InRun, AbortWrite, Aborted
<1>13. CASE CheckDeadlineOfWrite
  BY <1>13 DEF CheckDeadlineOfWrite, InRun, DeadlineBody, AbortWrite, Aborted
<1>14. CASE DeadlineExpires
  BY <1>14 DEF DeadlineExpires, CancelWaits
<1>15. CASE WriteDeadlineExpires
  BY <1>15 DEF WriteDeadlineExpires
<1>16. CASE ConnectCompletes
  BY <1>16 DEF ConnectCompletes
<1>17. CASE ServerSends
  BY <1>17 DEF ServerSends
<1>18. CASE ReadCompletes
  BY <1>18 DEF ReadCompletes
<1>19. CASE WriteCompletes
  BY <1>19 DEF WriteCompletes
<1>20. CASE QueueGpi
  BY <1>20 DEF QueueGpi, QueueWriteLine
<1>21. CASE UNCHANGED vars
  BY <1>21 DEF vars
<1> QED BY <1>1, <1>2, <1>3, <1>4, <1>5, <1>6, <1>7, <1>8, <1>9, <1>10, <1>11,
         <1>12, <1>13, <1>14, <1>15, <1>16, <1>17, <1>18, <1>19, <1>20, <1>21
   DEF Next

\* ... and of its counters.
LEMMA CountTypeStep == CountTypeOK /\ OpsInv /\ [Next]_vars => CountTypeOK'
<1> SUFFICES ASSUME CountTypeOK /\ OpsInv, [Next]_vars PROVE CountTypeOK'
  OBVIOUS
<1> USE ClientAssumption DEF ClientAssumption, CountTypeOK, OpsInv,
        connVars, txVars, timerVars, wtimerVars, serverVars, threadVars
<1>1. CASE Start
  BY <1>1 DEF Start
<1>2. CASE ResolveFails
  BY <1>2, DelayFacts DEF ResolveFails, NextRound
<1>3. CASE RunReturns
  BY <1>3, DelayFacts DEF RunReturns, NextRound
<1>4. CASE HandleConnect
  BY <1>4 DEF HandleConnect, InRun, StartConnect, Stop, AbortWrite, StartRead, SetDeadline, CancelWaits
<1>5. CASE HandleLine
  BY <1>5 DEF HandleLine, InRun, QueueWriteLine, StartRead, SetDeadline, CancelWaits
<1>6. CASE HandleLineThrows
  BY <1>6, DelayFacts DEF HandleLineThrows, NextRound
<1>7. CASE HandleReadEnds
  BY <1>7 DEF HandleReadEnds, InRun, Stop, AbortWrite, CancelWaits, Aborted
<1>8. CASE HandleWriteOk
  BY <1>8 DEF HandleWriteOk, InRun, CheckWriteQueue, StartWrite
<1>9. CASE HandleWriteEnds
  BY <1>9 DEF HandleWriteEnds, InRun, Stop, CancelWaits, Aborted
<1>10. CASE PostedCheck
  BY <1>10 DEF PostedCheck, InRun, CheckWriteQueue, StartWrite
<1>11. CASE CheckDeadline
  BY <1>11 DEF CheckDeadline, InRun, DeadlineBody, AbortWrite, Aborted
<1>12. CASE CheckWriteDeadline
  BY <1>12 DEF CheckWriteDeadline, InRun, AbortWrite, Aborted
<1>13. CASE CheckDeadlineOfWrite
  BY <1>13 DEF CheckDeadlineOfWrite, InRun, DeadlineBody, AbortWrite, Aborted
<1>14. CASE DeadlineExpires
  BY <1>14 DEF DeadlineExpires, CancelWaits
<1>15. CASE WriteDeadlineExpires
  BY <1>15 DEF WriteDeadlineExpires
<1>16. CASE ConnectCompletes
  BY <1>16 DEF ConnectCompletes
<1>17. CASE ServerSends
  BY <1>17 DEF ServerSends
<1>18. CASE ReadCompletes
  BY <1>18 DEF ReadCompletes
<1>19. CASE WriteCompletes
  BY <1>19 DEF WriteCompletes
<1>20. CASE QueueGpi
  BY <1>20 DEF QueueGpi, QueueWriteLine
<1>21. CASE UNCHANGED vars
  BY <1>21 DEF vars
<1> QED BY <1>1, <1>2, <1>3, <1>4, <1>5, <1>6, <1>7, <1>8, <1>9, <1>10, <1>11,
         <1>12, <1>13, <1>14, <1>15, <1>16, <1>17, <1>18, <1>19, <1>20, <1>21
   DEF Next

\* A ready handler keeps its operand.
LEMMA OpsStep == CountTypeOK /\ ConnTypeOK /\ OpsInv /\ [Next]_vars => OpsInv'
<1> SUFFICES ASSUME CountTypeOK /\ ConnTypeOK /\ OpsInv, [Next]_vars PROVE OpsInv'
  OBVIOUS
<1> USE ClientAssumption DEF ClientAssumption, CountTypeOK, ConnTypeOK, OpsInv,
        connVars, txVars, timerVars, wtimerVars, serverVars, threadVars
<1>1. CASE Start
  BY <1>1 DEF Start
<1>2. CASE ResolveFails
  BY <1>2 DEF ResolveFails, NextRound
<1>3. CASE RunReturns
  BY <1>3 DEF RunReturns, NextRound
<1>4. CASE HandleConnect
  BY <1>4 DEF HandleConnect, InRun, StartConnect, Stop, AbortWrite, StartRead, SetDeadline, CancelWaits
<1>5. CASE HandleLine
  BY <1>5 DEF HandleLine, InRun, QueueWriteLine, StartRead, SetDeadline, CancelWaits
<1>6. CASE HandleLineThrows
  BY <1>6 DEF HandleLineThrows, NextRound
<1>7. CASE HandleReadEnds
  BY <1>7 DEF HandleReadEnds, InRun, Stop, AbortWrite, CancelWaits, Aborted
<1>8. CASE HandleWriteOk
  BY <1>8 DEF HandleWriteOk, InRun, CheckWriteQueue, StartWrite
<1>9. CASE HandleWriteEnds
  BY <1>9 DEF HandleWriteEnds, InRun, Stop, CancelWaits, Aborted
<1>10. CASE PostedCheck
  BY <1>10 DEF PostedCheck, InRun, CheckWriteQueue, StartWrite
<1>11. CASE CheckDeadline
  BY <1>11 DEF CheckDeadline, InRun, DeadlineBody, AbortWrite, Aborted
<1>12. CASE CheckWriteDeadline
  BY <1>12 DEF CheckWriteDeadline, InRun, AbortWrite, Aborted
<1>13. CASE CheckDeadlineOfWrite
  BY <1>13 DEF CheckDeadlineOfWrite, InRun, DeadlineBody, AbortWrite, Aborted
<1>14. CASE DeadlineExpires
  BY <1>14 DEF DeadlineExpires, CancelWaits
<1>15. CASE WriteDeadlineExpires
  BY <1>15 DEF WriteDeadlineExpires
<1>16. CASE ConnectCompletes
  BY <1>16 DEF ConnectCompletes
<1>17. CASE ServerSends
  BY <1>17 DEF ServerSends
<1>18. CASE ReadCompletes
  BY <1>18 DEF ReadCompletes
<1>19. CASE WriteCompletes
  BY <1>19 DEF WriteCompletes
<1>20. CASE QueueGpi
  BY <1>20 DEF QueueGpi, QueueWriteLine
<1>21. CASE UNCHANGED vars
  BY <1>21 DEF vars
<1> QED BY <1>1, <1>2, <1>3, <1>4, <1>5, <1>6, <1>7, <1>8, <1>9, <1>10, <1>11,
         <1>12, <1>13, <1>14, <1>15, <1>16, <1>17, <1>18, <1>19, <1>20, <1>21
   DEF Next

\* tx_running keeps the writes to one, and no line behind.
LEMMA WriteStep == CountTypeOK /\ TxTypeOK /\ WriteInv /\ [Next]_vars => WriteInv'
<1> SUFFICES ASSUME CountTypeOK /\ TxTypeOK /\ WriteInv, [Next]_vars PROVE WriteInv'
  OBVIOUS
<1> USE DEF CountTypeOK, TxTypeOK, WriteInv,
        connVars, txVars, timerVars, wtimerVars, serverVars, threadVars
<1>a. /\ Len(writing) \in Nat /\ (writing = <<>> <=> Len(writing) = 0) /\ Len(<<>>) = 0
      /\ writing # <<>> => Len(Tail(writing)) = Len(writing) - 1 /\ Tail(writing) \in Seq(OutLines)
      /\ \A line \in OutLines : Len(Append(writing, line)) = Len(writing) + 1
                               /\ Append(writing, line) # <<>>
  BY SeqFacts
<1>b. writing # <<>> => Tail(writing) = <<>>
  BY <1>a, SeqFacts
<1>c. queueTx # <<>> => Head(queueTx) \in OutLines
  BY SeqFacts
<1>1. CASE Start
  BY <1>1, <1>a DEF Start
<1>2. CASE ResolveFails
  BY <1>2, <1>a DEF ResolveFails, NextRound
<1>3. CASE RunReturns
  BY <1>3, <1>a DEF RunReturns, NextRound
<1>4. CASE HandleConnect
  BY <1>4 DEF HandleConnect, InRun, StartConnect, Stop, AbortWrite, StartRead, SetDeadline, CancelWaits
<1>5. CASE HandleLine
  BY <1>5 DEF HandleLine, InRun, QueueWriteLine, StartRead, SetDeadline, CancelWaits
<1>6. CASE HandleLineThrows
  BY <1>6, <1>a DEF HandleLineThrows, NextRound
<1>7. CASE HandleReadEnds
  BY <1>7 DEF HandleReadEnds, InRun, Stop, AbortWrite, CancelWaits, Aborted
<1>8. CASE HandleWriteOk
  <2>1. CASE queueTx = <<>>
    BY <1>8, <2>1 DEF HandleWriteOk, InRun, CheckWriteQueue
  <2>2. CASE queueTx # <<>>
    <3>1. ~stopped /\ UNCHANGED stopped /\ writing = <<>> /\ txRunning' = TRUE
      BY <1>8, <2>2 DEF HandleWriteOk, InRun, CheckWriteQueue
    <3>2. \/ writeDone' = "ok" /\ writing' = <<>>
          \/ writing' = Append(writing, Head(queueTx)) /\ writeDone' \in {"none", "error"}
      BY <1>8, <2>2, <3>1 DEF HandleWriteOk, CheckWriteQueue, StartWrite
    <3>3. CASE writeDone' = "ok" /\ writing' = <<>>
      BY <3>1, <3>3, <1>a
    <3>4. CASE writing' = Append(writing, Head(queueTx)) /\ writeDone' \in {"none", "error"}
      <4>1. Len(writing') = 1 /\ writing' # <<>>
        BY <3>1, <3>4, <1>a, <1>c, <2>2
      <4> QED BY <4>1, <3>1, <3>4
    <3> QED BY <3>2, <3>3, <3>4
  <2> QED BY <2>1, <2>2
<1>9. CASE HandleWriteEnds
  BY <1>9, <1>a, <1>b, <1>c DEF HandleWriteEnds, InRun, Stop, CancelWaits, Aborted
<1>10. CASE PostedCheck
  BY <1>10, <1>a, <1>b, <1>c DEF PostedCheck, InRun, CheckWriteQueue, StartWrite
<1>11. CASE CheckDeadline
  BY <1>11 DEF CheckDeadline, InRun, DeadlineBody, AbortWrite, Aborted
<1>12. CASE CheckWriteDeadline
  BY <1>12 DEF CheckWriteDeadline, InRun, AbortWrite, Aborted
<1>13. CASE CheckDeadlineOfWrite
  BY <1>13 DEF CheckDeadlineOfWrite, InRun, DeadlineBody, AbortWrite, Aborted
<1>14. CASE DeadlineExpires
  BY <1>14 DEF DeadlineExpires, CancelWaits
<1>15. CASE WriteDeadlineExpires
  BY <1>15 DEF WriteDeadlineExpires
<1>16. CASE ConnectCompletes
  BY <1>16 DEF ConnectCompletes
<1>17. CASE ServerSends
  BY <1>17 DEF ServerSends
<1>18. CASE ReadCompletes
  BY <1>18 DEF ReadCompletes
<1>19. CASE WriteCompletes
  BY <1>19, <1>a, <1>b, <1>c DEF WriteCompletes
<1>20. CASE QueueGpi
  BY <1>20 DEF QueueGpi, QueueWriteLine
<1>21. CASE UNCHANGED vars
  BY <1>21 DEF vars
<1> QED BY <1>1, <1>2, <1>3, <1>4, <1>5, <1>6, <1>7, <1>8, <1>9, <1>10, <1>11,
         <1>12, <1>13, <1>14, <1>15, <1>16, <1>17, <1>18, <1>19, <1>20, <1>21
   DEF Next

\* The deadline actor never sleeps while it is needed.
LEMMA TimerStep == CountTypeOK /\ TimerTypeOK /\ TimerInv /\ [Next]_vars => TimerInv'
<1> SUFFICES ASSUME CountTypeOK /\ TimerTypeOK /\ TimerInv, [Next]_vars PROVE TimerInv'
  OBVIOUS
<1> USE DEF CountTypeOK, TimerTypeOK, TimerInv,
        connVars, txVars, timerVars, wtimerVars, serverVars, threadVars
<1>1. CASE Start
  BY <1>1 DEF Start
<1>2. CASE ResolveFails
  BY <1>2 DEF ResolveFails, NextRound
<1>3. CASE RunReturns
  BY <1>3 DEF RunReturns, NextRound
<1>4. CASE HandleConnect
  BY <1>4 DEF HandleConnect, InRun, StartConnect, Stop, AbortWrite, StartRead, SetDeadline, CancelWaits
<1>5. CASE HandleLine
  BY <1>5 DEF HandleLine, InRun, QueueWriteLine, StartRead, SetDeadline, CancelWaits
<1>6. CASE HandleLineThrows
  BY <1>6 DEF HandleLineThrows, NextRound
<1>7. CASE HandleReadEnds
  BY <1>7 DEF HandleReadEnds, InRun, Stop, AbortWrite, CancelWaits, Aborted
<1>8. CASE HandleWriteOk
  BY <1>8 DEF HandleWriteOk, InRun, CheckWriteQueue, StartWrite
<1>9. CASE HandleWriteEnds
  BY <1>9 DEF HandleWriteEnds, InRun, Stop, CancelWaits, Aborted
<1>10. CASE PostedCheck
  BY <1>10 DEF PostedCheck, InRun, CheckWriteQueue, StartWrite
<1>11. CASE CheckDeadline
  BY <1>11 DEF CheckDeadline, InRun, DeadlineBody, AbortWrite, Aborted
<1>12. CASE CheckWriteDeadline
  BY <1>12 DEF CheckWriteDeadline, InRun, AbortWrite, Aborted
<1>13. CASE CheckDeadlineOfWrite
  BY <1>13 DEF CheckDeadlineOfWrite, InRun, DeadlineBody, AbortWrite, Aborted
<1>14. CASE DeadlineExpires
  BY <1>14 DEF DeadlineExpires, CancelWaits
<1>15. CASE WriteDeadlineExpires
  BY <1>15 DEF WriteDeadlineExpires
<1>16. CASE ConnectCompletes
  BY <1>16 DEF ConnectCompletes
<1>17. CASE ServerSends
  BY <1>17 DEF ServerSends
<1>18. CASE ReadCompletes
  BY <1>18 DEF ReadCompletes
<1>19. CASE WriteCompletes
  BY <1>19 DEF WriteCompletes
<1>20. CASE QueueGpi
  BY <1>20 DEF QueueGpi, QueueWriteLine
<1>21. CASE UNCHANGED vars
  BY <1>21 DEF vars
<1> QED BY <1>1, <1>2, <1>3, <1>4, <1>5, <1>6, <1>7, <1>8, <1>9, <1>10, <1>11,
         <1>12, <1>13, <1>14, <1>15, <1>16, <1>17, <1>18, <1>19, <1>20, <1>21
   DEF Next

\* A stopped client stays at rest.
LEMMA StoppedStep ==
  CountTypeOK /\ ConnTypeOK /\ TxTypeOK /\ OpsInv /\ WriteInv /\ StoppedInv /\ [Next]_vars
    => StoppedInv'
<1> SUFFICES ASSUME CountTypeOK /\ ConnTypeOK /\ TxTypeOK /\ OpsInv /\ WriteInv /\ StoppedInv,
                    [Next]_vars
             PROVE  StoppedInv'
  OBVIOUS
<1> USE DEF CountTypeOK, ConnTypeOK, TxTypeOK, OpsInv, WriteInv, StoppedInv,
        connVars, txVars, timerVars, wtimerVars, serverVars, threadVars
<1>a. writing # <<>> => Tail(writing) = <<>>
  BY ShortSeq
<1>1. CASE Start
  <2>1. ~stopped
    BY <1>1 DEF Start
  <2> QED BY <1>1, <2>1 DEF Start
<1>2. CASE ResolveFails
  BY <1>2 DEF ResolveFails, NextRound
<1>3. CASE RunReturns
  BY <1>3 DEF RunReturns, NextRound
<1>4. CASE HandleConnect
  BY <1>4 DEF HandleConnect, InRun, StartConnect, Stop, AbortWrite, StartRead, SetDeadline, CancelWaits
<1>5. CASE HandleLine
  BY <1>5 DEF HandleLine, InRun, QueueWriteLine, StartRead, SetDeadline, CancelWaits
<1>6. CASE HandleLineThrows
  BY <1>6 DEF HandleLineThrows, NextRound
<1>7. CASE HandleReadEnds
  BY <1>7 DEF HandleReadEnds, InRun, Stop, AbortWrite, CancelWaits, Aborted
<1>8. CASE HandleWriteOk
  BY <1>8 DEF HandleWriteOk, InRun, CheckWriteQueue, StartWrite
<1>9. CASE HandleWriteEnds
  BY <1>9, <1>a DEF HandleWriteEnds, InRun, Stop, CancelWaits, Aborted
<1>10. CASE PostedCheck
  BY <1>10 DEF PostedCheck, InRun, CheckWriteQueue, StartWrite
<1>11. CASE CheckDeadline
  BY <1>11 DEF CheckDeadline, InRun, DeadlineBody, AbortWrite, Aborted
<1>12. CASE CheckWriteDeadline
  BY <1>12 DEF CheckWriteDeadline, InRun, AbortWrite, Aborted
<1>13. CASE CheckDeadlineOfWrite
  BY <1>13 DEF CheckDeadlineOfWrite, InRun, DeadlineBody, AbortWrite, Aborted
<1>14. CASE DeadlineExpires
  BY <1>14 DEF DeadlineExpires, CancelWaits
<1>15. CASE WriteDeadlineExpires
  BY <1>15 DEF WriteDeadlineExpires
<1>16. CASE ConnectCompletes
  BY <1>16 DEF ConnectCompletes
<1>17. CASE ServerSends
  BY <1>17 DEF ServerSends
<1>18. CASE ReadCompletes
  BY <1>18 DEF ReadCompletes
<1>19. CASE WriteCompletes
  BY <1>19, <1>a DEF WriteCompletes
<1>20. CASE QueueGpi
  BY <1>20 DEF QueueGpi, QueueWriteLine
<1>21. CASE UNCHANGED vars
  BY <1>21 DEF vars
<1> QED BY <1>1, <1>2, <1>3, <1>4, <1>5, <1>6, <1>7, <1>8, <1>9, <1>10, <1>11,
         <1>12, <1>13, <1>14, <1>15, <1>16, <1>17, <1>18, <1>19, <1>20, <1>21
   DEF Next

\* The inductive invariant, from which the theorems below follow.
THEOREM Invariance == Spec => []IInv
<1>1. Init => IInv
  <2>1. /\ <<>> \in Seq(ServerLines) /\ <<>> \in Seq(OutLines) /\ Len(<<>>) = 0
    BY EmptySeq
  <2>2. Init => CountTypeOK
    BY ClientAssumption DEF ClientAssumption, Init, CountTypeOK
  <2>3. Init => ConnTypeOK /\ TxTypeOK /\ TimerTypeOK
    BY <2>1 DEF Init, ConnTypeOK, TxTypeOK, TimerTypeOK
  <2>4. Init => OpsInv /\ WriteInv /\ TimerInv /\ StoppedInv
    BY <2>1 DEF Init, OpsInv, WriteInv, TimerInv, StoppedInv
  <2> QED BY <2>2, <2>3, <2>4 DEF IInv, TypeOK
<1>2. IInv /\ [Next]_vars => IInv'
  BY ConnTypeStep, TxTypeStep, TimerTypeStep, CountTypeStep,
     OpsStep, WriteStep, TimerStep, StoppedStep DEF IInv, TypeOK
<1> QED BY <1>1, <1>2, PTL DEF Spec

\* Every variable keeps its type, whatever the constants.
THEOREM TypeCorrect == Spec => []TypeOK
<1>1. IInv => TypeOK
  BY DEF IInv
<1> QED BY <1>1, Invariance, PTL

\* There are never two async_writes in flight on the socket.
THEOREM WritesAreSingle == Spec => []OneWriteInFlight
<1>1. IInv => OneWriteInFlight
  BY DEF IInv, WriteInv, OneWriteInFlight
<1> QED BY <1>1, Invariance, PTL

\* A queued line is never left without a handler that will send it.
THEOREM LinesAreSent == Spec => []NoStrandedLine
<1>1. IInv => NoStrandedLine
  BY DEF IInv, WriteInv, NoStrandedLine
<1> QED BY <1>1, Invariance, PTL

\* Every connect and every read is under a deadline that will be enforced.
THEOREM WaitsAreTimed == Spec => []EveryWaitIsTimed
<1>1. IInv => EveryWaitIsTimed
  BY DEF IInv, TypeOK, CountTypeOK, TimerInv, EveryWaitIsTimed
<1> QED BY <1>1, Invariance, PTL

\* retryDelay stays below its bound.
THEOREM DelayIsBounded == Spec => []BackoffBounded
<1>1. Init => BackoffBounded
  BY ClientAssumption DEF ClientAssumption, Init, BackoffBounded
<1>2. CountTypeOK /\ BackoffBounded /\ [Next]_vars => BackoffBounded'
  <2> SUFFICES ASSUME CountTypeOK, BackoffBounded, [Next]_vars PROVE BackoffBounded'
    OBVIOUS
  <2>1. CASE \E d \in {0, retryDelay} : NextRound(d)
    <3>1. PICK d \in {0, retryDelay} : NextRound(d)
      BY <2>1
    <3>2. d \in Nat /\ retryDelay' \in NextDelays(d)
      BY <3>1 DEF NextRound, CountTypeOK
    <3>3. d <= DelayLimit + (IF DelayLimit > 2 THEN DelayLimit ELSE 2)
      BY <3>1, ClientAssumption DEF ClientAssumption, BackoffBounded
    <3> QED BY <3>2, <3>3, DelayFacts DEF BackoffBounded
  <2>2. CASE UNCHANGED retryDelay
    BY <2>2 DEF BackoffBounded
  <2>3. \/ \E d \in {0, retryDelay} : NextRound(d)
        \/ UNCHANGED retryDelay
    BY DEF Next, vars, InRun, connVars, txVars, timerVars, wtimerVars, serverVars, threadVars,
         Start, ResolveFails, RunReturns, HandleConnect, HandleLine, HandleLineThrows,
         HandleReadEnds, HandleWriteOk, HandleWriteEnds, PostedCheck, CheckDeadline,
         CheckWriteDeadline, CheckDeadlineOfWrite, DeadlineExpires, WriteDeadlineExpires,
         ConnectCompletes, ServerSends, ReadCompletes, WriteCompletes, QueueGpi
  <2> QED BY <2>1, <2>2, <2>3
<1>3. IInv => CountTypeOK
  BY DEF IInv, TypeOK
<1> QED BY <1>1, <1>2, <1>3, Invariance, PTL DEF Spec

\* After an orderly session with traffic the next attempt comes at once.
THEOREM SuccessResetsDelay == Spec => QuickRetryAfterSuccess
<1>1. [Next]_vars => [phase = "running" /\ phase' = "waiting" /\ comms /\ stopped
                       => retryDelay' <= 2]_vars
  <2> SUFFICES ASSUME [Next]_vars, phase = "running", phase' = "waiting", comms, stopped
               PROVE  retryDelay' <= 2
    OBVIOUS
  <2>1. NextRound(0)
    BY DEF Next, vars, InRun, connVars, txVars, timerVars, wtimerVars, serverVars, threadVars,
         Start, ResolveFails, RunReturns, HandleConnect, HandleLine, HandleLineThrows,
         HandleReadEnds, HandleWriteOk, HandleWriteEnds, PostedCheck, CheckDeadline,
         CheckWriteDeadline, CheckDeadlineOfWrite, DeadlineExpires, WriteDeadlineExpires,
         ConnectCompletes, ServerSends, ReadCompletes, WriteCompletes, QueueGpi
  <2> QED BY <2>1, DelayFacts DEF NextRound
<1> QED BY <1>1, PTL DEF Spec, QuickRetryAfterSuccess

\* A client that has been stopped starts nothing.
THEOREM StopIsFinal == Spec => StoppedStartsNothing
<1> DEFINE Final == /\ connectOp' \in {connectOp, "none"} /\ readOp' \in {readOp, "none"}
                    /\ Len(writing') <= Len(writing)
                    /\ waits' = 0 /\ ready' <= ready
<1>1. IInv /\ [Next]_vars => [stopped /\ stopped' => Final]_vars
  <2> SUFFICES ASSUME IInv, Next, stopped, stopped' PROVE Final
    OBVIOUS
  <2> USE DEF IInv, StoppedInv
  <2>1. waits = 0 /\ socket = "closed" /\ phase = "running"
        /\ ready \in Nat /\ Len(writing) \in Nat
    BY SeqFacts DEF TypeOK, CountTypeOK, TxTypeOK
  <2>2. writing # <<>> => Tail(writing) = <<>> /\ Len(<<>>) = 0
    BY ShortSeq, EmptySeq DEF WriteInv, TypeOK, TxTypeOK
  <2>3. CASE \E d \in {0, retryDelay} : NextRound(d)
    BY <2>3 DEF NextRound
  <2>4. CASE UNCHANGED <<connectOp, readOp, writing, waits, ready>>
    BY <2>1, <2>4
  <2>5. CASE HandleConnect
    BY <2>1, <2>5 DEF HandleConnect, txVars, timerVars
  <2>6. CASE HandleReadEnds
    BY <2>1, <2>6 DEF HandleReadEnds, txVars, timerVars
  <2>7. CASE HandleWriteEnds
    BY <2>1, <2>2, <2>7 DEF HandleWriteEnds, connVars, timerVars
  <2>8. CASE PostedCheck
    BY <2>1, <2>8 DEF PostedCheck, CheckWriteQueue, StartWrite, connVars, timerVars
  <2>9. CASE CheckDeadline
    BY <2>1, <2>9 DEF CheckDeadline, DeadlineBody, connVars, txVars
  <2>10. CASE CheckDeadlineOfWrite
    BY <2>1, <2>10 DEF CheckDeadlineOfWrite, DeadlineBody, connVars, txVars
  <2>11. CASE DeadlineExpires
    BY <2>1, <2>11 DEF DeadlineExpires, CancelWaits, connVars, txVars
  <2>12. CASE CheckWriteDeadline
    BY <2>1, <2>12 DEF CheckWriteDeadline, connVars, txVars, timerVars
  <2>13. CASE WriteCompletes
    BY <2>1, <2>13 DEF WriteCompletes
  <2>14. CASE Start \/ HandleLine \/ HandleWriteOk
    BY <2>1, <2>14 DEF Start, HandleLine, HandleWriteOk
  <2>15. \/ ResolveFails \/ RunReturns \/ HandleLineThrows
         => \E d \in {0, retryDelay} : NextRound(d)
    BY DEF ResolveFails, RunReturns, HandleLineThrows
  <2>16. \/ WriteDeadlineExpires \/ ConnectCompletes \/ ServerSends \/ ReadCompletes \/ QueueGpi
         => UNCHANGED <<connectOp, readOp, writing, waits, ready>>
    BY DEF WriteDeadlineExpires, ConnectCompletes, ServerSends, ReadCompletes, QueueGpi,
           QueueWriteLine, connVars, txVars, timerVars
  <2> QED BY <2>3, <2>4, <2>5, <2>6, <2>7, <2>8, <2>9, <2>10, <2>11, <2>12, <2>13,
             <2>14, <2>15, <2>16 DEF Next
<1> QED BY <1>1, Invariance, PTL DEF Spec, StoppedStartsNothing

\* How the lines owed, writing \o queueTx, change when a line is queued, ...
LEMMA OwedAppend ==
  ASSUME NEW w \in Seq(OutLines), NEW q \in Seq(OutLines), NEW line \in OutLines
  PROVE  w \o Append(q, line) = Append(w \o q, line)
<1>1. <<line>> \in Seq(OutLines)
  OBVIOUS
<1>2. Append(q, line) = q \o <<line>> /\ w \o q \in Seq(OutLines)
  BY AppendIsConcat, ConcatProperties
<1>3. Append(w \o q, line) = (w \o q) \o <<line>>
  BY <1>2, AppendIsConcat
<1> QED BY <1>1, <1>2, <1>3, ConcatAssociative

\* ... when the line being written is done with, ...
LEMMA OwedTail ==
  ASSUME NEW w \in Seq(OutLines), NEW q \in Seq(OutLines), w # <<>>
  PROVE  /\ w \o q # <<>> /\ Head(w \o q) = Head(w)
         /\ Tail(w \o q) = Tail(w) \o q
<1>1. w \o q \in Seq(OutLines) /\ Len(w \o q) = Len(w) + Len(q) /\ Len(w) \in Nat \ {0} /\ Len(q) \in Nat
  BY ConcatProperties, EmptySeq, LenProperties
<1>2. w \o q # <<>>
  BY <1>1, EmptySeq
<1>3. /\ \A i \in 1 .. Len(w) + Len(q) : (w \o q)[i] = IF i <= Len(w) THEN w[i] ELSE q[i - Len(w)]
  BY ConcatProperties
<1>4. Head(w \o q) = (w \o q)[1] /\ Head(w) = w[1]
  OBVIOUS
<1>5. Tail(w) \in Seq(OutLines) /\ Len(Tail(w)) = Len(w) - 1 /\ \A i \in 1 .. Len(w) - 1 : Tail(w)[i] = w[i+1]
  BY HeadTailProperties
<1>6. /\ Tail(w \o q) \in Seq(OutLines) /\ Len(Tail(w \o q)) = Len(w) + Len(q) - 1
      /\ \A i \in 1 .. Len(w) + Len(q) - 1 : Tail(w \o q)[i] = (w \o q)[i+1]
  BY <1>1, <1>2, HeadTailProperties
<1>7. /\ Tail(w) \o q \in Seq(OutLines) /\ Len(Tail(w) \o q) = Len(w) - 1 + Len(q)
      /\ \A i \in 1 .. Len(w) - 1 + Len(q) :
            (Tail(w) \o q)[i] = IF i <= Len(w) - 1 THEN Tail(w)[i] ELSE q[i - (Len(w) - 1)]
  BY <1>1, <1>5, ConcatProperties
<1>8. \A i \in 1 .. Len(w) + Len(q) - 1 : Tail(w \o q)[i] = (Tail(w) \o q)[i]
  <2> TAKE i \in 1 .. Len(w) + Len(q) - 1
  <2>1. Tail(w \o q)[i] = IF i + 1 <= Len(w) THEN w[i + 1] ELSE q[i + 1 - Len(w)]
    BY <1>1, <1>3, <1>6
  <2>2. (Tail(w) \o q)[i] = IF i <= Len(w) - 1 THEN w[i + 1] ELSE q[i - (Len(w) - 1)]
    BY <1>1, <1>5, <1>7
  <2> QED BY <2>1, <2>2, <1>1
<1>9. Tail(w \o q) = Tail(w) \o q
  BY <1>1, <1>6, <1>7, <1>8, SeqEqual
<1> QED BY <1>2, <1>3, <1>4, <1>1, <1>9

\* ... and when the oldest queued line starts to be written.
LEMMA OwedMove ==
  ASSUME NEW q \in Seq(OutLines), q # <<>>
  PROVE  Append(<<>>, Head(q)) \o Tail(q) = q
<1>1. Head(q) \in OutLines /\ Tail(q) \in Seq(OutLines) /\ Len(Tail(q)) = Len(q) - 1
      /\ Len(q) \in Nat \ {0} /\ Head(q) = q[1] /\ \A i \in 1 .. Len(q) - 1 : Tail(q)[i] = q[i+1]
  BY HeadTailProperties, EmptySeq, LenProperties
<1>2. Append(<<>>, Head(q)) = <<q[1]>> /\ <<q[1]>> \in Seq(OutLines) /\ Len(<<q[1]>>) = 1
  BY <1>1
<1>3. /\ <<q[1]>> \o Tail(q) \in Seq(OutLines) /\ Len(<<q[1]>> \o Tail(q)) = Len(q)
      /\ \A i \in 1 .. Len(q) : (<<q[1]>> \o Tail(q))[i] = IF i <= 1 THEN <<q[1]>>[i] ELSE Tail(q)[i-1]
  BY <1>1, <1>2, ConcatProperties
<1>4. \A i \in 1 .. Len(q) : (<<q[1]>> \o Tail(q))[i] = q[i]
  BY <1>1, <1>2, <1>3
<1> QED BY <1>2, <1>3, <1>4, SeqEqual
\* The variables the mapping to ReplyChannel reads.
mapped == <<writing, queueTx, wire, stopped>>

\* check_write_queue, called by a client that is not writing, either changes
\* nothing the server could tell, sends the oldest line or, stopped, loses it.
LEMMA CheckWriteQueueMaps ==
  ASSUME TypeOK, writing = <<>>, UNCHANGED stopped,
         NEW running, NEW done, CheckWriteQueue(running, done)
  PROVE  Channel!Next \/ UNCHANGED <<writing \o queueTx, wire, ~stopped>>
<1> DEFINE owed == writing \o queueTx
<1>1. /\ queueTx \in Seq(OutLines) /\ writing = <<>> /\ owed = queueTx
  BY ConcatEmptySeq DEF TypeOK, TxTypeOK
<1>2. CASE running \/ queueTx = <<>>
  BY <1>2 DEF CheckWriteQueue
<1>3. CASE ~running /\ queueTx # <<>>
  <2>1. queueTx' = Tail(queueTx) /\ StartWrite(Head(queueTx), done)
    BY <1>3 DEF CheckWriteQueue
  <2>2. Tail(queueTx) \in Seq(OutLines)
    BY <1>1, <1>3, HeadTailProperties
  <2>3. CASE writing' = <<>>
    <3>1. owed' = Tail(owed)
      BY <1>1, <2>1, <2>2, <2>3, ConcatEmptySeq
    <3>2. CASE stopped
      <4>1. UNCHANGED wire
        BY <2>1, <3>2 DEF StartWrite
      <4> QED BY <1>1, <1>3, <3>1, <3>2, <4>1 DEF Channel!Next, Channel!Lose
    <3>3. CASE ~stopped
      <4>1. wire' = Head(queueTx)
        <5>1. Append(writing, Head(queueTx)) # <<>>
          BY <1>1, <1>3, HeadTailProperties, AppendProperties
        <5> QED BY <2>1, <2>3, <3>3, <5>1 DEF StartWrite
      <4> QED BY <1>1, <1>3, <3>1, <3>3, <4>1 DEF Channel!Next, Channel!Deliver
    <3> QED BY <3>2, <3>3
  <2>4. CASE writing' # <<>>
    <3>1. writing' = Append(<<>>, Head(queueTx)) /\ UNCHANGED wire
      BY <1>1, <2>1, <2>4 DEF StartWrite
    <3>2. owed' = owed
      BY <1>1, <1>3, <2>1, <3>1, OwedMove
    <3> QED BY <3>1, <3>2
  <2> QED BY <2>3, <2>4
<1> QED BY <1>2, <1>3

\* TcpClient implements ReplyChannel: the lines queued on a connection reach the
\* server in order, one at a time, and are lost only when it is given up.
THEOREM ClientIsReplyChannel == Spec => LinesReachServerInOrder
<1> DEFINE owed == writing \o queueTx
<1>1. Init => Channel!Init
  BY EmptySeq, ConcatEmptySeq DEF Init, Channel!Init
<1>2. IInv /\ [Next]_vars => [Channel!Next]_(Channel!vars)
  <2> SUFFICES ASSUME IInv, [Next]_vars
               PROVE  Channel!Next \/ UNCHANGED <<owed, wire, ~stopped>>
    BY DEF Channel!vars
  <2>1. /\ TypeOK /\ WriteInv /\ writing \in Seq(OutLines) /\ queueTx \in Seq(OutLines)
        /\ stopped \in BOOLEAN
    BY DEF IInv, TypeOK, TxTypeOK, ConnTypeOK
  <2>2. CASE UNCHANGED mapped
    BY <2>2 DEF mapped
  <2>3. CASE \E d \in {0, retryDelay} : NextRound(d)
    <3>1. owed' = <<>> /\ wire' = Nothing /\ stopped' = FALSE
      BY <2>3, EmptySeq, ConcatEmptySeq DEF NextRound
    <3> QED BY <3>1 DEF Channel!Next, Channel!Reopen
  <2>4. CASE HandleLine \/ QueueGpi
    <3>1. PICK line \in OutLines : queueTx' = Append(queueTx, line)
      BY <2>4, ReplyType DEF HandleLine, QueueGpi, QueueWriteLine, OutLines
    <3>2. UNCHANGED <<writing, wire, stopped>>
      BY <2>4 DEF HandleLine, QueueGpi, QueueWriteLine, StartRead, connVars
    <3>3. owed' = Append(owed, line)
      BY <2>1, <3>1, <3>2, OwedAppend
    <3> QED BY <3>2, <3>3 DEF Channel!Next, Channel!Accept
  <2>5. CASE HandleWriteOk
    <3>1. writing = <<>> /\ UNCHANGED stopped /\ CheckWriteQueue(FALSE, "none")
      BY <2>1, <2>5 DEF HandleWriteOk, WriteInv, connVars
    <3> QED BY <2>1, <3>1, CheckWriteQueueMaps
  <2>6. CASE PostedCheck
    <3>1. UNCHANGED stopped /\ CheckWriteQueue(txRunning, writeDone)
      BY <2>6 DEF PostedCheck, connVars
    <3>2. CASE txRunning
      BY <3>1, <3>2 DEF CheckWriteQueue
    <3>3. CASE ~txRunning
      BY <2>1, <3>1, <3>3, CheckWriteQueueMaps DEF WriteInv
    <3> QED BY <3>2, <3>3
  <2>7. CASE HandleWriteEnds
    <3>1. UNCHANGED <<queueTx, wire>> /\ (stopped \/ stopped' = TRUE)
          /\ (stopped => UNCHANGED stopped)
      BY <2>7 DEF HandleWriteEnds, Stop, connVars
    <3>2. CASE writeDone = "error"
      <4>1. writing # <<>> /\ writing' = Tail(writing)
        BY <2>1, <2>7, <3>2 DEF HandleWriteEnds, WriteInv
      <4>2. owed # <<>> /\ owed' = Tail(owed)
        BY <2>1, <3>1, <4>1, OwedTail
      <4> QED BY <2>1, <3>1, <4>2 DEF Channel!Next, Channel!Lose, Channel!Close
    <3>3. CASE writeDone # "error"
      <4>1. writing' = writing /\ stopped
        BY <2>7, <3>3 DEF HandleWriteEnds
      <4> QED BY <3>1, <4>1
    <3> QED BY <3>2, <3>3
  <2>8. CASE HandleConnect \/ HandleReadEnds
    <3>1. UNCHANGED <<writing, queueTx, wire>> /\ (stopped' = stopped \/ (~stopped /\ stopped' = TRUE))
      BY <2>8 DEF HandleConnect, HandleReadEnds, StartConnect, StartRead, Stop, AbortWrite, txVars
    <3> QED BY <2>1, <3>1 DEF Channel!Next, Channel!Close
  <2>9. CASE WriteCompletes
    <3>1. UNCHANGED <<queueTx, stopped>> /\ writing # <<>>
      BY <2>9 DEF WriteCompletes, connVars
    <3>2. CASE writing' = writing /\ wire' = wire
      BY <3>1, <3>2
    <3>3. CASE writing' = Tail(writing) /\ wire' \in {Head(writing), Garbage}
      <4>1. owed # <<>> /\ owed' = Tail(owed) /\ Head(owed) = Head(writing)
        BY <2>1, <3>1, <3>3, OwedTail
      <4> QED BY <3>1, <3>3, <4>1 DEF Channel!Next, Channel!Deliver
    <3> QED BY <2>9, <3>2, <3>3 DEF WriteCompletes
  <2>10. ResolveFails \/ RunReturns \/ HandleLineThrows => \E d \in {0, retryDelay} : NextRound(d)
    BY DEF ResolveFails, RunReturns, HandleLineThrows
  <2>11. CheckDeadline \/ CheckDeadlineOfWrite \/ CheckWriteDeadline => UNCHANGED mapped
    BY DEF CheckDeadline, CheckDeadlineOfWrite, CheckWriteDeadline, DeadlineBody, AbortWrite,
           mapped, connVars, txVars
  <2>12. Start \/ DeadlineExpires \/ WriteDeadlineExpires \/ ConnectCompletes
         \/ ServerSends \/ ReadCompletes => UNCHANGED mapped
    BY DEF Start, DeadlineExpires, WriteDeadlineExpires, ConnectCompletes, ServerSends,
           ReadCompletes, mapped, connVars, txVars
  <2>13. UNCHANGED vars => UNCHANGED mapped
    BY DEF vars, mapped, connVars, txVars
  <2> QED BY <2>2, <2>3, <2>4, <2>5, <2>6, <2>7, <2>8, <2>9, <2>10, <2>11, <2>12, <2>13 DEF Next
<1> QED BY <1>1, <1>2, Invariance, PTL DEF Spec, LinesReachServerInOrder, Channel!Spec
=============================================================================
