------------------------------ MODULE TcpClient ------------------------------
(***************************************************************************)
(* One connection to a tally server: the class client of                   *)
(* async_tcp_client.cpp, the thread that runs it (tcp_thread in            *)
(* control_tcp.cpp) and the replies handle_tcp_message queues on it.       *)
(*                                                                         *)
(* Every handler of the io_context runs to its end before the next one, so *)
(* a handler is one action.  The kernel (completions, failures), the clock *)
(* (deadlines) and the draw thread (queued GPI lines) step in between.     *)
(* Handlers that are ready run in any order, which includes the order of   *)
(* the io_context's queue.                                                 *)
(***************************************************************************)
EXTENDS Integers, Sequences

CONSTANTS
  Endpoints,    \* number of endpoints the resolver returns
  ServerLines,  \* the kinds of line the server sends
  MaxLines,     \* bound: lines the server sends in one session
  MaxGpi,       \* bound: GPI lines the draw thread queues in one session
  DelayLimit    \* retryDelay grows while it is below this (15 in the code)

ASSUME ClientAssumption ==
  /\ Endpoints \in Nat \ {0}
  /\ ServerLines \subseteq {"PING", "CRYPT", "COMMAND", "UNKNOWN", "MALFORMED"}
  /\ MaxLines \in Nat /\ MaxGpi \in Nat
  /\ DelayLimit \in Nat

VARIABLES
  \* the client: its socket and what asio holds for it
  stopped,        \* stopped_
  socket,         \* "closed", "connecting" or "open"
  endpoint,       \* the endpoint being tried, Endpoints + 1 at the end
  connectOp,      \* async_connect: "none", "pending", or its handler is
  readOp,         \*   ready with "ok", "line" or "error"; async_read_until
  buffer,         \* complete lines in input_buffer_
  \* the client: its output
  txRunning,      \* tx_running
  queueTx,        \* queue_tx
  posts,          \* posted check_write_queue calls
  writing,        \* lines of the async_writes that have not finished
  writeDone,      \* "ok" or "error" when a handle_write is ready, or "none"
  wire,           \* the last thing the server received on this connection
  \* the client: its timers
  deadline,       \* deadline_: "armed", "passed" (also when unset) or "never"
  waits, ready,   \* check_deadlines waiting on deadline_, and ready to run
  writeDeadline,  \* write_deadline_, like deadline
  writeWait,      \* "first": its check_write_deadline is ready; "waiting" and
                  \*   "fired": the check_deadline it is then given; or "none"
  \* the server's side
  inbox,          \* lines from the server that the kernel still holds
  sentLines,      \* how many lines the server has sent in this session
  gpiLines,       \* how many lines the draw thread has queued on this client
  \* tcp_thread
  phase,          \* "waiting" (sleep, resolve) or "running" (in run())
  retryDelay,     \* the delay before the next attempt, in seconds
  comms           \* *pbComms

connVars   == <<stopped, socket, endpoint, connectOp, readOp, buffer>>
txVars     == <<txRunning, queueTx, posts, writing, writeDone, wire>>
timerVars  == <<deadline, waits, ready>>
wtimerVars == <<writeDeadline, writeWait>>
serverVars == <<inbox, sentLines, gpiLines>>
threadVars == <<phase, retryDelay, comms>>
vars == <<connVars, txVars, timerVars, wtimerVars, serverVars, threadVars>>

(***************************************************************************)
(* handle_tcp_message's answer to a line.  A MALFORMED line is one whose   *)
(* arguments make ClockMsg_Parse throw (std::stoul, std::stod).            *)
(***************************************************************************)
Reply(line) == CASE line = "PING"    -> "PONG"
                 [] line = "CRYPT"   -> "AUTH"
                 [] line = "COMMAND" -> "ACK"
                 [] OTHER            -> "NACK"

OutLines == {"PONG", "AUTH", "ACK", "NACK", "GPI"}
Garbage == "GARBAGE"
Nothing == "NOTHING"

\* Only CRYPT leaves *pbComms as it is: it returns before the last line.
SetsComms(line) == line # "CRYPT"

------------------------------------------------------------------------------
(* The operations the handlers are made of *)

\* Closing the socket ends what is outstanding on it with an error.
Aborted(op) == IF op = "pending" THEN "error" ELSE op

AbortWrite ==
  /\ writeDone' = IF writing # <<>> /\ writeDone = "none" THEN "error" ELSE writeDone
  /\ UNCHANGED <<txRunning, queueTx, posts, writing, wire>>

\* The handlers of cancelled waits become ready.
CancelWaits == waits' = 0 /\ ready' = ready + waits

\* deadline_.expires_after and expires_at cancel the waits.
SetDeadline(expiry) == deadline' = expiry /\ CancelWaits

\* stop(), for the variables its callers do not set themselves
Stop == stopped' = TRUE /\ socket' = "closed" /\ CancelWaits /\ UNCHANGED deadline

\* Mutant of StartConnect: the end of the endpoints is not tested.
StartConnectNoEnd(e) ==
  /\ endpoint' = e
  /\ socket' = "connecting" /\ connectOp' = "pending"
  /\ SetDeadline("armed") /\ UNCHANGED <<stopped, readOp, buffer>>

\* start_connect; after the last endpoint the client stops.
StartConnect(e) ==
  /\ endpoint' = e
  /\ \/ /\ e <= Endpoints
        /\ socket' = "connecting" /\ connectOp' = "pending"
        /\ SetDeadline("armed") /\ UNCHANGED stopped
     \/ e > Endpoints /\ Stop /\ connectOp' = "none"
  /\ UNCHANGED <<readOp, buffer>>

\* start_read; async_read_until ends at once if a line is already buffered.
StartRead(lines) ==
  /\ SetDeadline("armed")
  /\ buffer' = lines
  /\ readOp' = IF lines # <<>> THEN "line"
               ELSE IF socket = "open" THEN "pending" ELSE "error"
  /\ UNCHANGED <<stopped, socket, endpoint>>

\* queue_write_line: one critical section pushes the line and posts the check.
QueueWriteLine(line) ==
  /\ queueTx' = Append(queueTx, line) /\ posts' = posts + 1
  /\ UNCHANGED <<txRunning, writing, writeDone, wire>>

(***************************************************************************)
(* start_write: the kernel takes the whole line when async_write is        *)
(* called, or the operation stays pending (as it must on a socket that is  *)
(* still connecting), or fails on a closed socket.  Moving the write       *)
(* deadline cancels the wait on it.                                        *)
(***************************************************************************)
StartWrite(line, done) ==
  IF stopped THEN writeDone' = done /\ UNCHANGED <<writing, wire, wtimerVars>>
  ELSE /\ writeDeadline' = "armed"
       /\ writeWait' = IF writeWait = "waiting" THEN "fired" ELSE writeWait
       /\ \/ socket = "open" /\ wire' = line /\ writeDone' = "ok" /\ UNCHANGED writing
          \/ /\ writing' = Append(writing, line) /\ UNCHANGED wire
             /\ writeDone' = IF socket = "closed" THEN "error" ELSE "none"

\* Mutant of CheckWriteQueue: it does not look at tx_running.
CheckWriteQueueAnyway(running, done) ==
  IF queueTx = <<>>
    THEN /\ txRunning' = running /\ writeDone' = done
         /\ UNCHANGED <<queueTx, writing, wire, wtimerVars>>
    ELSE /\ txRunning' = TRUE /\ queueTx' = Tail(queueTx)
         /\ StartWrite(Head(queueTx), done)

\* Mutant of CheckWriteQueue: the line is popped before tx_running is tested.
CheckWriteQueuePopsFirst(running, done) ==
  IF running \/ queueTx = <<>>
    THEN /\ txRunning' = running /\ writeDone' = done
         /\ queueTx' = IF queueTx = <<>> THEN queueTx ELSE Tail(queueTx)
         /\ UNCHANGED <<writing, wire, wtimerVars>>
    ELSE /\ txRunning' = TRUE /\ queueTx' = Tail(queueTx)
         /\ StartWrite(Head(queueTx), done)

\* check_write_queue, where running and done are tx_running and writeDone as
\* its caller leaves them
CheckWriteQueue(running, done) ==
  IF running \/ queueTx = <<>>
    THEN /\ txRunning' = running /\ writeDone' = done
         /\ UNCHANGED <<queueTx, writing, wire, wtimerVars>>
    ELSE /\ txRunning' = TRUE /\ queueTx' = Tail(queueTx)
         /\ StartWrite(Head(queueTx), done)

\* Mutant of DeadlineBody: the actor does not wait again once it has fired.
DeadlineBodyOnce(r) ==
  IF ~stopped /\ deadline = "passed"
    THEN /\ socket' = "closed"
         /\ connectOp' = Aborted(connectOp) /\ readOp' = Aborted(readOp)
         /\ AbortWrite
         /\ deadline' = "never" /\ ready' = r + waits /\ waits' = 0
         /\ UNCHANGED <<stopped, endpoint, buffer>>
    ELSE /\ ready' = r /\ waits' = IF stopped THEN waits ELSE waits + 1
         /\ UNCHANGED <<connVars, txVars, deadline>>

\* check_deadline, which always looks at deadline_; r handlers remain ready
DeadlineBody(r) ==
  IF ~stopped /\ deadline = "passed"
    THEN /\ socket' = "closed"
         /\ connectOp' = Aborted(connectOp) /\ readOp' = Aborted(readOp)
         /\ AbortWrite
         /\ deadline' = "never" /\ ready' = r + waits /\ waits' = 1
         /\ UNCHANGED <<stopped, endpoint, buffer>>
    ELSE /\ ready' = r /\ waits' = IF stopped THEN waits ELSE waits + 1
         /\ UNCHANGED <<connVars, txVars, deadline>>

------------------------------------------------------------------------------
(* tcp_thread *)

\* A client just constructed; unset timers expire at the epoch.
Init ==
  /\ stopped = FALSE /\ socket = "closed" /\ endpoint = 1
  /\ connectOp = "none" /\ readOp = "none" /\ buffer = <<>>
  /\ txRunning = FALSE /\ queueTx = <<>> /\ posts = 0
  /\ writing = <<>> /\ writeDone = "none" /\ wire = Nothing
  /\ deadline = "passed" /\ waits = 0 /\ ready = 0
  /\ writeDeadline = "passed" /\ writeWait = "none"
  /\ inbox = <<>> /\ sentLines = 0 /\ gpiLines = 0
  /\ phase = "waiting" /\ retryDelay = 0 /\ comms = FALSE

\* Mutant of NextDelays: the limit is not tested.
NextDelaysUnlimited(d) == {d + i : i \in 0 .. (IF d + 1 > 2 THEN d + 1 ELSE 2)}

\* After a connection: rand() / (RAND_MAX / maxIncr) is between 0 and maxIncr.
NextDelays(d) ==
  IF d < DelayLimit THEN {d + i : i \in 0 .. (IF d + 1 > 2 THEN d + 1 ELSE 2)}
                    ELSE {d}

\* The end of the loop's body, and the new client its next round makes.
NextRound(delay) ==
  /\ stopped' = FALSE /\ socket' = "closed" /\ endpoint' = 1
  /\ connectOp' = "none" /\ readOp' = "none" /\ buffer' = <<>>
  /\ txRunning' = FALSE /\ queueTx' = <<>> /\ posts' = 0
  /\ writing' = <<>> /\ writeDone' = "none" /\ wire' = Nothing
  /\ deadline' = "passed" /\ waits' = 0 /\ ready' = 0
  /\ writeDeadline' = "passed" /\ writeWait' = "none"
  /\ inbox' = <<>> /\ sentLines' = 0 /\ gpiLines' = 0
  /\ phase' = "waiting" /\ retryDelay' \in NextDelays(delay) /\ comms' = FALSE

\* resolve() succeeds: start() connects to the first endpoint and starts both
\* timers; write_deadline_'s expiry is still the epoch, so its wait is over.
Start ==
  /\ phase = "waiting" /\ phase' = "running"
  /\ endpoint' = 1 /\ socket' = "connecting" /\ connectOp' = "pending"
  /\ deadline' = "armed" /\ waits' = 1 /\ writeWait' = "first"
  /\ UNCHANGED <<stopped, readOp, buffer, ready, txVars, writeDeadline,
                 serverVars, retryDelay, comms>>

\* resolve() throws.
ResolveFails == phase = "waiting" /\ NextRound(retryDelay)

\* run() returns when no operation is outstanding and no handler is ready.
OutOfWork ==
  /\ connectOp = "none" /\ readOp = "none" /\ writing = <<>> /\ writeDone = "none"
  /\ posts = 0 /\ waits = 0 /\ ready = 0 /\ writeWait = "none"

\* Mutant of RunReturns: the delay is kept after a good connection.
RunReturnsKeepsDelay == phase = "running" /\ OutOfWork /\ NextRound(retryDelay)

RunReturns ==
  /\ phase = "running" /\ OutOfWork
  /\ NextRound(IF comms THEN 0 ELSE retryDelay)

------------------------------------------------------------------------------
(* The handlers of the io_context *)

InRun == phase = "running" /\ UNCHANGED <<phase, retryDelay, gpiLines, sentLines>>

\* Mutant of HandleConnect: stopped_ is not tested.
HandleConnectAnyway ==
  /\ InRun /\ connectOp \in {"ok", "error"}
  /\ \/ (socket = "closed" \/ connectOp = "error")
        /\ StartConnect(endpoint + 1) /\ AbortWrite
     \/ /\ socket = "open" /\ connectOp = "ok"
        /\ connectOp' = "none" /\ StartRead(buffer) /\ UNCHANGED txVars
  /\ UNCHANGED <<wtimerVars, inbox, comms>>

\* A socket that is closed, or closed here after an error, goes on to the next
\* endpoint; otherwise the input actor starts.
HandleConnect ==
  /\ InRun /\ connectOp \in {"ok", "error"}
  /\ \/ /\ stopped /\ connectOp' = "none"
        /\ UNCHANGED <<stopped, socket, endpoint, readOp, buffer, txVars, timerVars>>
     \/ /\ ~stopped /\ (socket = "closed" \/ connectOp = "error")
        /\ StartConnect(endpoint + 1) /\ AbortWrite
     \/ /\ ~stopped /\ socket # "closed" /\ connectOp = "ok"
        /\ connectOp' = "none" /\ StartRead(buffer) /\ UNCHANGED txVars
  /\ UNCHANGED <<wtimerVars, inbox, comms>>

\* handle_read on a line: handle_tcp_message answers it, then the next read.
HandleLine ==
  /\ InRun /\ readOp = "line" /\ ~stopped /\ Head(buffer) # "MALFORMED"
  /\ QueueWriteLine(Reply(Head(buffer)))
  /\ comms' = (comms \/ SetsComms(Head(buffer)))
  /\ StartRead(Tail(buffer))
  /\ UNCHANGED <<connectOp, wtimerVars, inbox>>

\* handle_tcp_message throws: run() is left by the exception, which
\* tcp_thread catches, without a reply and without resetting retryDelay.
HandleLineThrows ==
  /\ phase = "running" /\ readOp = "line" /\ ~stopped /\ Head(buffer) = "MALFORMED"
  /\ NextRound(retryDelay)

HandleReadEnds ==
  /\ InRun /\ (readOp = "error" \/ (readOp = "line" /\ stopped))
  /\ readOp' = "none"
  /\ \/ stopped /\ UNCHANGED <<stopped, socket, connectOp, txVars, timerVars>>
     \/ ~stopped /\ Stop /\ AbortWrite /\ connectOp' = Aborted(connectOp)
  /\ UNCHANGED <<endpoint, buffer, wtimerVars, inbox, comms>>

\* Mutant of HandleWriteOk: the queue is not looked at after a write.
HandleWriteOkNoCheck ==
  /\ InRun /\ writeDone = "ok" /\ ~stopped
  /\ txRunning' = FALSE /\ writeDone' = "none"
  /\ UNCHANGED <<queueTx, posts, writing, wire, wtimerVars, connVars, timerVars,
                 inbox, comms>>

HandleWriteOk ==
  /\ InRun /\ writeDone = "ok" /\ ~stopped
  /\ CheckWriteQueue(FALSE, "none")
  /\ UNCHANGED <<posts, connVars, timerVars, inbox, comms>>

\* handle_write with an error, or on a client that has been stopped
HandleWriteEnds ==
  /\ InRun /\ (writeDone = "error" \/ (writeDone = "ok" /\ stopped))
  /\ txRunning' = FALSE /\ writeDone' = "none"
  /\ writing' = IF writeDone = "error" THEN Tail(writing) ELSE writing
  /\ \/ stopped /\ UNCHANGED <<connVars, timerVars>>
     \/ /\ ~stopped /\ Stop
        /\ connectOp' = Aborted(connectOp) /\ readOp' = Aborted(readOp)
        /\ UNCHANGED <<endpoint, buffer>>
  /\ UNCHANGED <<queueTx, posts, wire, wtimerVars, inbox, comms>>

PostedCheck ==
  /\ InRun /\ posts > 0
  /\ posts' = posts - 1 /\ CheckWriteQueue(txRunning, writeDone)
  /\ UNCHANGED <<connVars, timerVars, inbox, comms>>

CheckDeadline ==
  /\ InRun /\ ready > 0
  /\ DeadlineBody(ready - 1)
  /\ UNCHANGED <<wtimerVars, inbox, comms>>

\* The only check_write_deadline of a session.  It arms check_deadline.
CheckWriteDeadline ==
  /\ InRun /\ writeWait = "first"
  /\ \/ /\ stopped /\ writeWait' = "none"
        /\ UNCHANGED <<writeDeadline, connVars, txVars>>
     \/ /\ ~stopped /\ ~txRunning /\ writeWait' = "none" /\ writeDeadline' = "never"
        /\ UNCHANGED <<connVars, txVars>>
     \/ /\ ~stopped /\ txRunning /\ writeWait' = "waiting"
        /\ IF writeDeadline = "passed"
             THEN /\ writeDeadline' = "never" /\ socket' = "closed"
                  /\ connectOp' = Aborted(connectOp) /\ readOp' = Aborted(readOp)
                  /\ AbortWrite /\ UNCHANGED <<stopped, endpoint, buffer>>
             ELSE UNCHANGED <<writeDeadline, connVars, txVars>>
  /\ UNCHANGED <<timerVars, inbox, comms>>

\* write_deadline_ wakes the check_deadline that check_write_deadline armed.
CheckDeadlineOfWrite ==
  /\ InRun /\ writeWait = "fired" /\ writeWait' = "none"
  /\ DeadlineBody(ready)
  /\ UNCHANGED <<writeDeadline, inbox, comms>>

------------------------------------------------------------------------------
(* The clock, the kernel, the server and the draw thread *)

DeadlineExpires ==
  /\ phase = "running" /\ deadline = "armed"
  /\ deadline' = "passed" /\ CancelWaits
  /\ UNCHANGED <<connVars, txVars, wtimerVars, serverVars, threadVars>>

\* Assumes that a ready check_write_deadline runs within the five seconds.
WriteDeadlineExpires ==
  /\ phase = "running" /\ writeDeadline = "armed" /\ writeWait # "first"
  /\ writeDeadline' = "passed"
  /\ writeWait' = IF writeWait = "waiting" THEN "fired" ELSE writeWait
  /\ UNCHANGED <<connVars, txVars, timerVars, serverVars, threadVars>>

ConnectCompletes ==
  /\ connectOp = "pending"
  /\ \/ connectOp' = "ok" /\ socket' = "open"
     \/ connectOp' = "error" /\ UNCHANGED socket
  /\ UNCHANGED <<stopped, endpoint, readOp, buffer,
                 txVars, timerVars, wtimerVars, serverVars, threadVars>>

ServerSends ==
  /\ socket = "open" /\ sentLines < MaxLines
  /\ sentLines' = sentLines + 1
  /\ \E line \in ServerLines : inbox' = Append(inbox, line)
  /\ UNCHANGED <<connVars, txVars, timerVars, wtimerVars, gpiLines, threadVars>>

ReadCompletes ==
  /\ readOp = "pending" /\ inbox' = <<>>
  /\ \/ inbox # <<>> /\ readOp' = "line" /\ buffer' = inbox
     \/ readOp' = "error" /\ UNCHANGED buffer
  /\ UNCHANGED <<stopped, socket, endpoint, connectOp,
                 txVars, timerVars, wtimerVars, sentLines, gpiLines, threadVars>>

(***************************************************************************)
(* A pending async_write ends.  Its buffer was made from a temporary       *)
(* string that start_write destroyed, so what the server gets is the line  *)
(* or whatever the memory holds by then.  On a connecting socket it waits  *)
(* behind the connect, and fails with it.                                  *)
(***************************************************************************)
WriteCompletes ==
  /\ writing # <<>> /\ writeDone = "none" /\ socket # "closed" /\ connectOp # "pending"
  /\ \/ /\ socket = "open" /\ wire' \in {Head(writing), Garbage}
        /\ writing' = Tail(writing) /\ writeDone' = "ok"
     \/ writeDone' = "error" /\ UNCHANGED <<writing, wire>>
  /\ UNCHANGED <<txRunning, queueTx, posts,
                 connVars, timerVars, wtimerVars, serverVars, threadVars>>

\* update_tcp_gpis on the draw thread; the client may not have started yet.
QueueGpi ==
  /\ gpiLines < MaxGpi /\ gpiLines' = gpiLines + 1
  /\ QueueWriteLine("GPI")
  /\ UNCHANGED <<connVars, timerVars, wtimerVars, inbox, sentLines, threadVars>>

Next ==
  \/ Start \/ ResolveFails \/ RunReturns
  \/ HandleConnect \/ HandleLine \/ HandleLineThrows \/ HandleReadEnds
  \/ HandleWriteOk \/ HandleWriteEnds \/ PostedCheck
  \/ CheckDeadline \/ CheckWriteDeadline \/ CheckDeadlineOfWrite
  \/ DeadlineExpires \/ WriteDeadlineExpires \/ ConnectCompletes
  \/ ServerSends \/ ReadCompletes \/ WriteCompletes \/ QueueGpi

Spec == Init /\ [][Next]_vars

(***************************************************************************)
(* Fairness: the io_context runs every ready handler, time reaches every   *)
(* deadline that stays set, run() returns when it may and the thread's     *)
(* sleep ends.  Neither the server nor the kernel owes us anything.        *)
(***************************************************************************)
Fairness ==
  /\ WF_vars(HandleConnect) /\ WF_vars(HandleLine) /\ WF_vars(HandleLineThrows)
  /\ WF_vars(HandleReadEnds) /\ WF_vars(HandleWriteOk) /\ WF_vars(HandleWriteEnds)
  /\ WF_vars(PostedCheck)
  /\ WF_vars(CheckDeadline) /\ WF_vars(CheckWriteDeadline)
  /\ WF_vars(CheckDeadlineOfWrite)
  /\ WF_vars(DeadlineExpires) /\ WF_vars(WriteDeadlineExpires)
  /\ WF_vars(RunReturns) /\ WF_vars(Start \/ ResolveFails)

FairSpec == Spec /\ Fairness

------------------------------------------------------------------------------
(* Properties *)

\* Every variable has its type.
ConnTypeOK ==
  /\ stopped \in BOOLEAN /\ socket \in {"closed", "connecting", "open"}
  /\ connectOp \in {"none", "pending", "ok", "error"}
  /\ readOp \in {"none", "pending", "line", "error"}
  /\ buffer \in Seq(ServerLines) /\ inbox \in Seq(ServerLines)

TxTypeOK ==
  /\ txRunning \in BOOLEAN /\ queueTx \in Seq(OutLines)
  /\ writing \in Seq(OutLines) /\ writeDone \in {"none", "ok", "error"}
  /\ wire \in OutLines \cup {Garbage, Nothing}

TimerTypeOK ==
  /\ deadline \in {"armed", "passed", "never"}
  /\ writeDeadline \in {"armed", "passed", "never"}
  /\ writeWait \in {"none", "first", "waiting", "fired"}
  /\ phase \in {"waiting", "running"} /\ comms \in BOOLEAN

CountTypeOK ==
  /\ endpoint \in 1 .. Endpoints + 1
  /\ posts \in Nat /\ waits \in Nat /\ ready \in Nat
  /\ sentLines \in Nat /\ gpiLines \in Nat /\ retryDelay \in Nat

TypeOK == ConnTypeOK /\ TxTypeOK /\ TimerTypeOK /\ CountTypeOK

\* asio allows one async_write at a time on a socket, or the bytes of two lines
\* mix.  queue_write_line is called by two threads and check_write_queue runs
\* from posts and from handle_write: tx_running must keep them to one write.
OneWriteInFlight ==
  /\ Len(writing) <= 1
  /\ writeDone = "ok" => writing = <<>>
  /\ ~txRunning => writing = <<>> /\ writeDone = "none"

\* A line queued on a live connection is never left behind: a write is running
\* whose handler will look at the queue, or a posted check has yet to run.
NoStrandedLine ==
  ~stopped /\ queueTx # <<>> =>
    posts > 0 \/ (txRunning /\ (writing # <<>> \/ writeDone # "none"))

\* While a live connection connects or reads, deadline_ is set and an actor
\* waits for it; once it has passed that actor is ready to close the socket.
EveryWaitIsTimed ==
  phase = "running" /\ ~stopped =>
    /\ waits + ready > 0
    /\ connectOp = "pending" \/ readOp = "pending" => deadline # "never"
    /\ deadline = "passed" => ready > 0

\* stop() is final: no operation is started on a client that has been stopped.
StoppedStartsNothing ==
  [][stopped /\ stopped' =>
       /\ connectOp' \in {connectOp, "none"} /\ readOp' \in {readOp, "none"}
       /\ Len(writing') <= Len(writing)
       /\ waits' = 0 /\ ready' <= ready]_vars

\* "Retry quickly if we previously succeeded": after a connection that carried
\* traffic and ended in an orderly way the next attempt is at most two seconds
\* away, whatever the delay had grown to.
QuickRetryAfterSuccess ==
  [][phase = "running" /\ phase' = "waiting" /\ comms /\ stopped
       => retryDelay' <= 2]_vars

\* The delay between two attempts does not grow without end.
BackoffBounded ==
  retryDelay <= DelayLimit + (IF DelayLimit > 2 THEN DelayLimit ELSE 2)

\* The lines of a connection reach the server in order, one at a time, and
\* none is lost while the connection is alive (refinement of ReplyChannel).
Channel == INSTANCE ReplyChannel
             WITH Lines <- OutLines, owed <- writing \o queueTx, open <- ~stopped

LinesReachServerInOrder == Channel!Spec

\* "If a client hears nothing from a server for 5 seconds it assumes the
\* connection is dead and disconnects and attempts to reconnect": a session
\* whose server falls silent ends, whatever stage it has reached.
SilentServerEndsSession == phase = "running" ~> phase = "waiting"

\* "Start an asynchronous operation to send a message": what the server gets
\* is the line that was queued.
WireCarriesLines == wire # Garbage
=============================================================================
