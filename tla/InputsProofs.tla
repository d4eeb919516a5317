----------------------------- MODULE InputsProofs -----------------------------
(***************************************************************************)
(* Proofs about what becomes of the inputs: told to the servers            *)
(* (GpiFeedback, tally_mode 3), for any number of hosts, or running        *)
(* commands (LocalCommands, tally_mode 5), for any number of inputs, any   *)
(* commands and any file.                                                  *)
(*                                                                         *)
(* SentIsTold is not inductive: it says nothing while an update or a CRYPT *)
(* handler is under way.  Its strengthening IInv follows both: a server    *)
(* becomes Authenticated only with lastGpioValue unsent, and from the      *)
(* moment an update has passed its slot its client's value is the one that *)
(* was sent.                                                               *)
(*                                                                         *)
(* FollowsInputs says nothing while the commands of a frame are run.       *)
(* LocalIInv follows the loops: the pins that were passed are as they were *)
(* read, those to come as they were before, and the one at hand is as its  *)
(* commands so far leave it.  That what a cell will show is decided by the *)
(* last message for it, and is not changed by handling the first one, is   *)
(* AddSets, AddKeeps and HandleKeeps.                                      *)
(***************************************************************************)
EXTENDS GpiFeedback, LocalCommands, TLAPS

------------------------------------------------------------------------------
(* Telling the servers: GpiFeedback *)

Looping == pc \in {"load", "compare", "set", "queue"}

\* The update under way, if any, is done with the server's slot but for Queue.
Passed(s) ==
  \/ pc = "idle"
  \/ Looping /\ s < at
  \/ pc = "queue" /\ s = at

\* A client's value is one its server has been told, or is about to be.
KnownIsTold ==
  \A s \in Servers : crypts[s] > 0 /\ crypt[s] # "known" =>
    \/ known[s] = Unsent \/ told[s] = known[s]
    \/ pc = "queue" /\ at = s /\ ~ stale

\* What is about to be queued on a client is its value, unless it forgot it.
QueuedIsKnown == pc = "queue" /\ ~ stale => known[at] \in {newval, Unsent}

\* The update's value is the last one, unless a CRYPT line came; it has met no
\* empty slot.
LastIsNew == Looping => last \in {newval, Unsent} /\ ~ cut

\* A client that took the place of the one at hand was authenticated since.
StaleIsUnsent ==
  stale /\ pc \in {"compare", "set", "queue"} => ~ Authenticated(at) \/ last = Unsent

\* What is sent is known at the slots the update has passed.
PassedKnows ==
  last # Unsent /\ ~ cut =>
    \A s \in Servers : Passed(s) /\ Authenticated(s) => known[s] = last

IInv == TypeOK /\ KnownIsTold /\ QueuedIsKnown /\ LastIsNew /\ StaleIsUnsent /\ PassedKnows

\* The loop over conns begins at a slot or at its end.
LEMMA FirstSlot == 1 \in 1 .. Hosts + 1
BY GpiAssumption DEF GpiAssumption

\* Every step keeps the types, ...
LEMMA TypeStep == TypeOK /\ [Next]_vars => TypeOK'
<1> SUFFICES ASSUME TypeOK, [Next]_vars PROVE TypeOK'
  OBVIOUS
<1> USE GpiAssumption DEF GpiAssumption, TypeOK, Servers
<1>1. ASSUME NEW s \in Servers, StoreClient(s) PROVE TypeOK'
  BY <1>1 DEF StoreClient, vars, sharedVars, threadVars, drawVars
<1>2. ASSUME NEW s \in Servers, QueueAuth(s) PROVE TypeOK'
  BY <1>2 DEF QueueAuth, vars, sharedVars, threadVars, drawVars
<1>3. ASSUME NEW s \in Servers, ForgetKnown(s) PROVE TypeOK'
  BY <1>3 DEF ForgetKnown, vars, sharedVars, threadVars, drawVars
<1>4. ASSUME NEW s \in Servers, ForgetLast(s) PROVE TypeOK'
  BY <1>4 DEF ForgetLast, vars, sharedVars, threadVars, drawVars
<1>5. CASE InputChanges
  BY <1>5 DEF InputChanges, vars, sharedVars, threadVars, drawVars
<1>6. CASE Test
  BY <1>6 DEF Test, vars, sharedVars, threadVars, drawVars
<1>7. CASE Store
  BY <1>7, FirstSlot DEF Store, vars, sharedVars, threadVars, drawVars
<1>8. CASE Load
  BY <1>8 DEF Load, vars, sharedVars, threadVars, drawVars
<1>9. CASE Compare
  BY <1>9 DEF Compare, vars, sharedVars, threadVars, drawVars
<1>10. CASE Set
  BY <1>10 DEF Set, vars, sharedVars, threadVars, drawVars
<1>11. CASE Queue
  BY <1>11 DEF Queue, vars, sharedVars, threadVars, drawVars
<1>12. CASE Return
  BY <1>12 DEF Return, vars, sharedVars, threadVars, drawVars
<1>13. CASE UNCHANGED vars
  BY <1>13 DEF vars, sharedVars, threadVars, drawVars
<1> QED BY <1>1, <1>2, <1>3, <1>4, <1>5, <1>6, <1>7, <1>8, <1>9, <1>10,
         <1>11, <1>12, <1>13
   DEF Next, Draw

\* ... that a client's value has been told, ...
LEMMA KnownStep ==
  TypeOK /\ KnownIsTold /\ QueuedIsKnown /\ [Next]_vars => KnownIsTold'
<1> SUFFICES ASSUME TypeOK, KnownIsTold, QueuedIsKnown, [Next]_vars PROVE KnownIsTold'
  OBVIOUS
<1> USE GpiAssumption DEF GpiAssumption, TypeOK, KnownIsTold, QueuedIsKnown, Servers
<1>1. ASSUME NEW s \in Servers, StoreClient(s) PROVE KnownIsTold'
  BY <1>1 DEF StoreClient, vars, sharedVars, threadVars, drawVars
<1>2. ASSUME NEW s \in Servers, QueueAuth(s) PROVE KnownIsTold'
  BY <1>2 DEF QueueAuth, vars, sharedVars, threadVars, drawVars
<1>3. ASSUME NEW s \in Servers, ForgetKnown(s) PROVE KnownIsTold'
  BY <1>3 DEF ForgetKnown, vars, sharedVars, threadVars, drawVars
<1>4. ASSUME NEW s \in Servers, ForgetLast(s) PROVE KnownIsTold'
  BY <1>4 DEF ForgetLast, vars, sharedVars, threadVars, drawVars
<1>5. CASE InputChanges
  BY <1>5 DEF InputChanges, vars, sharedVars, threadVars, drawVars
<1>6. CASE Test
  BY <1>6 DEF Test, vars, sharedVars, threadVars, drawVars
<1>7. CASE Store
  BY <1>7 DEF Store, vars, sharedVars, threadVars, drawVars
<1>8. CASE Load
  BY <1>8 DEF Load, vars, sharedVars, threadVars, drawVars
<1>9. CASE Compare
  BY <1>9 DEF Compare, vars, sharedVars, threadVars, drawVars
<1>10. CASE Set
  BY <1>10 DEF Set, vars, sharedVars, threadVars, drawVars
<1>11. CASE Queue
  BY <1>11 DEF Queue, vars, sharedVars, threadVars, drawVars
<1>12. CASE Return
  BY <1>12 DEF Return, vars, sharedVars, threadVars, drawVars
<1>13. CASE UNCHANGED vars
  BY <1>13 DEF vars, sharedVars, threadVars, drawVars
<1> QED BY <1>1, <1>2, <1>3, <1>4, <1>5, <1>6, <1>7, <1>8, <1>9, <1>10,
         <1>11, <1>12, <1>13
   DEF Next, Draw

\* ... that what is about to be queued is the client's value, ...
LEMMA QueuedStep == TypeOK /\ QueuedIsKnown /\ [Next]_vars => QueuedIsKnown'
<1> SUFFICES ASSUME TypeOK, QueuedIsKnown, [Next]_vars PROVE QueuedIsKnown'
  OBVIOUS
<1> USE GpiAssumption DEF GpiAssumption, TypeOK, QueuedIsKnown, Servers
<1>1. ASSUME NEW s \in Servers, StoreClient(s) PROVE QueuedIsKnown'
  BY <1>1 DEF StoreClient, vars, sharedVars, threadVars, drawVars
<1>2. ASSUME NEW s \in Servers, QueueAuth(s) PROVE QueuedIsKnown'
  BY <1>2 DEF QueueAuth, vars, sharedVars, threadVars, drawVars
<1>3. ASSUME NEW s \in Servers, ForgetKnown(s) PROVE QueuedIsKnown'
  BY <1>3 DEF ForgetKnown, vars, sharedVars, threadVars, drawVars
<1>4. ASSUME NEW s \in Servers, ForgetLast(s) PROVE QueuedIsKnown'
  BY <1>4 DEF ForgetLast, vars, sharedVars, threadVars, drawVars
<1>5. CASE InputChanges
  BY <1>5 DEF InputChanges, vars, sharedVars, threadVars, drawVars
<1>6. CASE Test
  BY <1>6 DEF Test, vars, sharedVars, threadVars, drawVars
<1>7. CASE Store
  BY <1>7 DEF Store, vars, sharedVars, threadVars, drawVars
<1>8. CASE Load
  BY <1>8 DEF Load, vars, sharedVars, threadVars, drawVars
<1>9. CASE Compare
  BY <1>9 DEF Compare, vars, sharedVars, threadVars, drawVars
<1>10. CASE Set
  BY <1>10 DEF Set, vars, sharedVars, threadVars, drawVars
<1>11. CASE Queue
  BY <1>11 DEF Queue, vars, sharedVars, threadVars, drawVars
<1>12. CASE Return
  BY <1>12 DEF Return, vars, sharedVars, threadVars, drawVars
<1>13. CASE UNCHANGED vars
  BY <1>13 DEF vars, sharedVars, threadVars, drawVars
<1> QED BY <1>1, <1>2, <1>3, <1>4, <1>5, <1>6, <1>7, <1>8, <1>9, <1>10,
         <1>11, <1>12, <1>13
   DEF Next, Draw

\* ... that lastGpioValue is the value under way or forgotten, ...
LEMMA LastStep == TypeOK /\ LastIsNew /\ [Next]_vars => LastIsNew'
<1> SUFFICES ASSUME TypeOK, LastIsNew, [Next]_vars PROVE LastIsNew'
  OBVIOUS
<1> USE GpiAssumption DEF GpiAssumption, TypeOK, LastIsNew, Looping
<1>1. ASSUME NEW s \in Servers, StoreClient(s) PROVE LastIsNew'
  BY <1>1 DEF StoreClient, vars, sharedVars, threadVars, drawVars
<1>2. ASSUME NEW s \in Servers, QueueAuth(s) PROVE LastIsNew'
  BY <1>2 DEF QueueAuth, vars, sharedVars, threadVars, drawVars
<1>3. ASSUME NEW s \in Servers, ForgetKnown(s) PROVE LastIsNew'
  BY <1>3 DEF ForgetKnown, vars, sharedVars, threadVars, drawVars
<1>4. ASSUME NEW s \in Servers, ForgetLast(s) PROVE LastIsNew'
  BY <1>4 DEF ForgetLast, vars, sharedVars, threadVars, drawVars
<1>5. CASE InputChanges
  BY <1>5 DEF InputChanges, vars, sharedVars, threadVars, drawVars
<1>6. CASE Test
  BY <1>6 DEF Test, vars, sharedVars, threadVars, drawVars
<1>7. CASE Store
  BY <1>7 DEF Store, vars, sharedVars, threadVars, drawVars
<1>8. CASE Load
  BY <1>8 DEF Load, vars, sharedVars, threadVars, drawVars
<1>9. CASE Compare
  BY <1>9 DEF Compare, vars, sharedVars, threadVars, drawVars
<1>10. CASE Set
  BY <1>10 DEF Set, vars, sharedVars, threadVars, drawVars
<1>11. CASE Queue
  BY <1>11 DEF Queue, vars, sharedVars, threadVars, drawVars
<1>12. CASE Return
  BY <1>12 DEF Return, vars, sharedVars, threadVars, drawVars
<1>13. CASE UNCHANGED vars
  BY <1>13 DEF vars, sharedVars, threadVars, drawVars
<1> QED BY <1>1, <1>2, <1>3, <1>4, <1>5, <1>6, <1>7, <1>8, <1>9, <1>10,
         <1>11, <1>12, <1>13
   DEF Next, Draw

\* ... that a new client's CRYPT line resets lastGpioValue, ...
LEMMA StaleStep == TypeOK /\ StaleIsUnsent /\ [Next]_vars => StaleIsUnsent'
<1> SUFFICES ASSUME TypeOK, StaleIsUnsent, [Next]_vars PROVE StaleIsUnsent'
  OBVIOUS
<1> USE GpiAssumption DEF GpiAssumption, TypeOK, StaleIsUnsent, Authenticated, Servers
<1>1. ASSUME NEW s \in Servers, StoreClient(s) PROVE StaleIsUnsent'
  BY <1>1 DEF StoreClient, vars, sharedVars, threadVars, drawVars
<1>2. ASSUME NEW s \in Servers, QueueAuth(s) PROVE StaleIsUnsent'
  BY <1>2 DEF QueueAuth, vars, sharedVars, threadVars, drawVars
<1>3. ASSUME NEW s \in Servers, ForgetKnown(s) PROVE StaleIsUnsent'
  BY <1>3 DEF ForgetKnown, vars, sharedVars, threadVars, drawVars
<1>4. ASSUME NEW s \in Servers, ForgetLast(s) PROVE StaleIsUnsent'
  BY <1>4 DEF ForgetLast, vars, sharedVars, threadVars, drawVars
<1>5. CASE InputChanges
  BY <1>5 DEF InputChanges, vars, sharedVars, threadVars, drawVars
<1>6. CASE Test
  BY <1>6 DEF Test, vars, sharedVars, threadVars, drawVars
<1>7. CASE Store
  BY <1>7 DEF Store, vars, sharedVars, threadVars, drawVars
<1>8. CASE Load
  BY <1>8 DEF Load, vars, sharedVars, threadVars, drawVars
<1>9. CASE Compare
  BY <1>9 DEF Compare, vars, sharedVars, threadVars, drawVars
<1>10. CASE Set
  BY <1>10 DEF Set, vars, sharedVars, threadVars, drawVars
<1>11. CASE Queue
  BY <1>11 DEF Queue, vars, sharedVars, threadVars, drawVars
<1>12. CASE Return
  BY <1>12 DEF Return, vars, sharedVars, threadVars, drawVars
<1>13. CASE UNCHANGED vars
  BY <1>13 DEF vars, sharedVars, threadVars, drawVars
<1> QED BY <1>1, <1>2, <1>3, <1>4, <1>5, <1>6, <1>7, <1>8, <1>9, <1>10,
         <1>11, <1>12, <1>13
   DEF Next, Draw

\* ... and that an update leaves no slot behind.
LEMMA PassedStep == IInv /\ [Next]_vars => PassedKnows'
<1> SUFFICES ASSUME IInv, [Next]_vars PROVE PassedKnows'
  OBVIOUS
<1> USE GpiAssumption DEF GpiAssumption, IInv, TypeOK, QueuedIsKnown, LastIsNew,
        StaleIsUnsent, PassedKnows, Passed, Looping, Authenticated, Servers
<1>1. ASSUME NEW s \in Servers, StoreClient(s) PROVE PassedKnows'
  BY <1>1 DEF StoreClient, vars, sharedVars, threadVars, drawVars
<1>2. ASSUME NEW s \in Servers, QueueAuth(s) PROVE PassedKnows'
  BY <1>2 DEF QueueAuth, vars, sharedVars, threadVars, drawVars
<1>3. ASSUME NEW s \in Servers, ForgetKnown(s) PROVE PassedKnows'
  BY <1>3 DEF ForgetKnown, vars, sharedVars, threadVars, drawVars
<1>4. ASSUME NEW s \in Servers, ForgetLast(s) PROVE PassedKnows'
  BY <1>4 DEF ForgetLast, vars, sharedVars, threadVars, drawVars
<1>5. CASE InputChanges
  BY <1>5 DEF InputChanges, vars, sharedVars, threadVars, drawVars
<1>6. CASE Test
  BY <1>6 DEF Test, vars, sharedVars, threadVars, drawVars
<1>7. CASE Store
  BY <1>7 DEF Store, vars, sharedVars, threadVars, drawVars
<1>8. CASE Load
  <2>1. CASE clients[at] = 0
    BY <1>8, <2>1 DEF Load
  <2>2. CASE clients[at] # 0
    <3>1. \A s \in Servers : Passed(s)' => Passed(s)
      BY <1>8, <2>2 DEF Load
    <3>2. ~ cut
      BY <1>8 DEF Load
    <3> QED BY <1>8, <2>2, <3>1, <3>2 DEF Load, vars, sharedVars, threadVars, drawVars
  <2> QED BY <2>1, <2>2
<1>9. CASE Compare
  BY <1>9, SMTT(30) DEF Compare, vars, sharedVars, threadVars, drawVars
<1>10. CASE Set
  BY <1>10 DEF Set, vars, sharedVars, threadVars, drawVars
<1>11. CASE Queue
  BY <1>11 DEF Queue, vars, sharedVars, threadVars, drawVars
<1>12. CASE Return
  BY <1>12 DEF Return, vars, sharedVars, threadVars, drawVars
<1>13. CASE UNCHANGED vars
  BY <1>13 DEF vars, sharedVars, threadVars, drawVars
<1> QED BY <1>1, <1>2, <1>3, <1>4, <1>5, <1>6, <1>7, <1>8, <1>9, <1>10,
         <1>11, <1>12, <1>13
   DEF Next, Draw

\* The inductive invariant: the draw thread and the CRYPT handlers together.
THEOREM Invariance == Spec => []IInv
<1>1. Init => IInv
  <2> SUFFICES ASSUME Init PROVE IInv
    OBVIOUS
  <2>1. TypeOK
    BY FirstSlot DEF Init, TypeOK
  <2>2. KnownIsTold
    BY DEF Init, KnownIsTold
  <2> QED BY <2>1, <2>2 DEF Init, IInv, QueuedIsKnown, LastIsNew, Looping, StaleIsUnsent, PassedKnows
<1>2. IInv /\ [Next]_vars => IInv'
  BY TypeStep, KnownStep, QueuedStep, LastStep, StaleStep, PassedStep DEF IInv
<1> QED BY <1>1, <1>2, PTL DEF Spec

\* Every variable keeps its type; the update never leaves conns.
THEOREM TypeCorrect == Spec => []TypeOK
<1>1. IInv => TypeOK
  BY DEF IInv
<1> QED BY <1>1, Invariance, PTL

\* No state of the GPIs that counts as sent is missing at an authenticated
\* server, for any number of servers and any interleaving of their CRYPT lines
\* and reconnections with the draw thread's updates.
THEOREM SentStatesAreTold == Spec => []SentIsTold
<1>1. IInv => SentIsTold
  BY DEF IInv, KnownIsTold, PassedKnows, Passed, SentIsTold, Authenticated
<1> QED BY <1>1, Invariance, PTL

------------------------------------------------------------------------------
(* Running commands: LocalCommands *)

Message == {cmd \in Command : cmd.outcome = "message"}

\* Types, and what each phase finds: no message is queued while the inputs are
\* read, and the commands are run for a complete reading.
LocalTypeOK ==
  /\ inputs \in [1 .. Pins -> BOOLEAN] /\ lines \in Seq(Command)
  /\ phase \in {"file", "handle", "read", "react", "terminated"}
  /\ gpis \in [DOMAIN gpis -> BOOLEAN] /\ DOMAIN gpis \subseteq 1 .. Pins
  /\ oldGpis # <<>> => oldGpis \in [1 .. Pins -> BOOLEAN]
  /\ pin \in 1 .. Pins + 1 /\ nth \in Nat \ {0}
  /\ queue \in Seq(Message) /\ shown \in [Cells -> Texts \cup {Nothing}]
  /\ phase = "file" => oldGpis = <<>>
  /\ phase = "read" => queue = <<>>
  /\ phase \in {"react", "terminated"} => DOMAIN gpis = 1 .. Pins
  /\ phase = "react" /\ pin <= Pins => nth <= Len(CommandsFor(pin, gpis[pin])) + 1

\* The cells of an input will show what the commands of a level leave in them.
ShownAs(i, level) ==
  \A c \in Cells, text \in Texts :
    Owns(i, c) /\ Leave(CommandsFor(i, level), c, text) => WillShow(c, text)

\* While the commands are run, the pins that have been passed are as they were
\* read now, ...
PinsPassed ==
  phase = "react" => \A i \in 1 .. pin - 1 : ShownAs(i, gpis[i])

\* ... those to come, and the one at hand if it has not changed, as they were
\* read before, ...
PinsToCome ==
  phase = "react" /\ oldGpis # <<>> =>
    \A i \in pin .. Pins : i > pin \/ ~ Changed(i) => ShownAs(i, oldGpis[i])

\* ... and a changed one at hand is as its commands up to the next one leave it.
PinAtHand ==
  phase = "react" /\ pin <= Pins /\ Changed(pin) =>
    \A c \in Cells, k \in 1 .. nth - 1 :
      LET cmds == CommandsFor(pin, gpis[pin]) IN
        Owns(pin, c) /\ Sets(cmds[k], c) /\ (\A l \in k + 1 .. nth - 1 : ~ Sets(cmds[l], c))
          => WillShow(c, cmds[k].text)

LocalIInv ==
  /\ LocalTypeOK /\ FollowsInputs /\ FileCannotStop
  /\ PinsPassed /\ PinsToCome /\ PinAtHand

\* Every level of an input has a sequence of commands.
LEMMA CommandsType ==
  ASSUME NEW i \in 1 .. Pins, NEW level \in BOOLEAN
  PROVE  CommandsFor(i, level) \in Seq(Command)
BY LocalAssumption DEF LocalAssumption, CommandsFor

\* A parsed command is put at the end of msgQueue.
LEMMA AddType ==
  ASSUME NEW cmd \in Command, queue \in Seq(Message), Add(cmd)
  PROVE  queue' \in Seq(Message)
BY DEF Add, Message

\* A queued message decides what its cell will show, ...
LEMMA AddSets ==
  ASSUME NEW cmd \in Command, NEW c \in Cells, queue \in Seq(Message),
         Add(cmd), Sets(cmd, c)
  PROVE  WillShow(c, cmd.text)'
<1>1. queue' = Append(queue, cmd)
  BY DEF Add, Sets
<1>2. cmd \in Message
  BY DEF Sets, Message
<1>3. /\ Len(queue') = Len(queue) + 1 /\ Len(queue) \in Nat
      /\ queue'[Len(queue) + 1] = cmd
  BY <1>1, <1>2
<1>4. Leave(queue', c, cmd.text)
  BY <1>3 DEF Leave, Sets
<1> QED BY <1>4 DEF WillShow

\* ... and leaves the others alone.
LEMMA AddKeeps ==
  ASSUME NEW cmd \in Command, NEW c \in Cells, NEW text, queue \in Seq(Message),
         Add(cmd), UNCHANGED shown, ~ Sets(cmd, c), WillShow(c, text)
  PROVE  WillShow(c, text)'
<1>1. CASE cmd.outcome # "message"
  BY <1>1 DEF Add, WillShow
<1>2. CASE cmd.outcome = "message"
  <2>1. queue' = Append(queue, cmd) /\ cmd \in Message
    BY <1>2 DEF Add, Message
  <2>2. /\ Len(queue') = Len(queue) + 1 /\ Len(queue) \in Nat
        /\ queue'[Len(queue) + 1] = cmd
        /\ \A k \in 1 .. Len(queue) : queue'[k] = queue[k]
    BY <2>1
  <2>3. LeaveAlone(queue, c) => LeaveAlone(queue', c)
    BY <2>2 DEF LeaveAlone
  <2>4. Leave(queue, c, text) => Leave(queue', c, text)
    <3> SUFFICES ASSUME NEW k \in 1 .. Len(queue),
                        Sets(queue[k], c), queue[k].text = text,
                        \A l \in k + 1 .. Len(queue) : ~ Sets(queue[l], c)
                 PROVE  Leave(queue', c, text)
      BY DEF Leave
    <3>1. \A l \in k + 1 .. Len(queue') : ~ Sets(queue'[l], c)
      BY <2>2
    <3> QED BY <2>2, <3>1 DEF Leave
  <2> QED BY <2>3, <2>4 DEF WillShow
<1> QED BY <1>1, <1>2

\* Handling a message changes nothing of what the cells will show.
LEMMA HandleKeeps ==
  ASSUME NEW c \in Cells, NEW text, LocalTypeOK, HandleMessage, WillShow(c, text)
  PROVE  WillShow(c, text)'
<1>1. /\ queue \in Seq(Message) /\ queue # <<>>
      /\ shown \in [Cells -> Texts \cup {Nothing}]
  BY DEF LocalTypeOK, HandleMessage
<1>2. /\ Len(queue') = Len(queue) - 1 /\ Len(queue) \in Nat \ {0}
      /\ \A k \in 1 .. Len(queue) - 1 : queue'[k] = queue[k + 1]
  BY <1>1 DEF HandleMessage
<1>3. queue[1] \in Message /\ Head(queue) = queue[1]
  BY <1>1, <1>2
<1>4. shown'[c] = IF queue[1].cell = c THEN queue[1].text ELSE shown[c]
  BY <1>1, <1>3 DEF HandleMessage
<1>5. ASSUME LeaveAlone(queue, c), shown[c] = text PROVE WillShow(c, text)'
  <2>1. LeaveAlone(queue', c)
    BY <1>2, <1>5 DEF LeaveAlone
  <2>2. ~ Sets(queue[1], c)
    BY <1>2, <1>5 DEF LeaveAlone
  <2> QED BY <1>3, <1>4, <1>5, <2>1, <2>2 DEF WillShow, Sets, Message
<1>6. ASSUME NEW k \in 1 .. Len(queue), Sets(queue[k], c), queue[k].text = text,
             \A l \in k + 1 .. Len(queue) : ~ Sets(queue[l], c)
      PROVE  WillShow(c, text)'
  <2>1. CASE k = 1
    <3>1. LeaveAlone(queue', c)
      BY <1>2, <1>6, <2>1 DEF LeaveAlone
    <3> QED BY <1>4, <1>6, <2>1, <3>1 DEF WillShow, Sets
  <2>2. CASE k # 1
    <3>1. k - 1 \in 1 .. Len(queue') /\ queue'[k - 1] = queue[k]
      BY <1>2, <2>2
    <3>2. \A l \in (k - 1) + 1 .. Len(queue') : ~ Sets(queue'[l], c)
      BY <1>2, <1>6
    <3>3. Leave(queue', c, text)
      BY <1>6, <3>1, <3>2 DEF Leave
    <3> QED BY <3>3 DEF WillShow
  <2> QED BY <2>1, <2>2
<1> QED BY <1>5, <1>6 DEF WillShow, Leave

\* A step that queues and shows nothing keeps what the cells will show.
LEMMA IdleKeeps ==
  ASSUME UNCHANGED <<queue, shown>>, NEW i, NEW level, ShownAs(i, level)
  PROVE  ShownAs(i, level)'
BY DEF ShownAs, WillShow

\* A command of another input, or one that sets nothing, keeps what an input's
\* cells will show.
LEMMA ForeignKeeps ==
  ASSUME LocalTypeOK, NEW i \in 1 .. Pins, NEW j \in (1 .. Pins) \ {i},
         NEW level \in BOOLEAN, NEW other \in BOOLEAN,
         NEW k \in 1 .. Len(CommandsFor(j, other)),
         Add(CommandsFor(j, other)[k]), UNCHANGED shown, ShownAs(i, level)
  PROVE  ShownAs(i, level)'
<1> SUFFICES ASSUME NEW c \in Cells, NEW text \in Texts, Owns(i, c),
                    Leave(CommandsFor(i, level), c, text)
             PROVE  WillShow(c, text)'
  BY DEF ShownAs
<1>1. CommandsFor(j, other)[k] \in Command
  BY CommandsType
<1>2. ~ Sets(CommandsFor(j, other)[k], c)
  BY DEF Owns, LeaveAlone
<1>3. WillShow(c, text)
  BY DEF ShownAs
<1> QED BY <1>1, <1>2, <1>3, AddKeeps DEF LocalTypeOK

\* Every step keeps the types, ...
LEMMA LocalTypeStep == LocalTypeOK /\ [LocalNext]_localVars => LocalTypeOK'
<1> SUFFICES ASSUME LocalTypeOK, [LocalNext]_localVars PROVE LocalTypeOK'
  OBVIOUS
<1> USE LocalAssumption DEF LocalAssumption, LocalTypeOK
<1>1. CASE HandleLine
  <2>1. lines # <<>> => Head(lines) \in Command /\ Tail(lines) \in Seq(Command)
    OBVIOUS
  <2>2. queue' \in Seq(Message)
    BY <1>1, <2>1, AddType DEF HandleLine
  <2> QED BY <1>1, <2>1, <2>2 DEF HandleLine
<1>2. CASE FileDone
  BY <1>2 DEF FileDone
<1>3. CASE HandleMessage
  <2>1. Head(queue) \in Message /\ Tail(queue) \in Seq(Message)
    BY <1>3 DEF HandleMessage
  <2>2. shown' \in [Cells -> Texts \cup {Nothing}]
    BY <1>3, <2>1 DEF HandleMessage, Message, Command
  <2> QED BY <1>3, <2>1, <2>2 DEF HandleMessage
<1>4. CASE MessagesDone
  BY <1>4 DEF MessagesDone
<1>5. CASE ReadPin
  <2>1. PICK i \in (1 .. Pins) \ DOMAIN gpis :
          gpis' = [j \in DOMAIN gpis \cup {i} |-> IF j = i THEN inputs[i] ELSE gpis[j]]
    BY <1>5 DEF ReadPin
  <2>2. /\ DOMAIN gpis' = DOMAIN gpis \cup {i} /\ DOMAIN gpis' \subseteq 1 .. Pins
        /\ gpis' \in [DOMAIN gpis' -> BOOLEAN]
    BY <2>1
  <2>3. phase' = "react" => Len(CommandsFor(1, gpis'[1])) \in Nat
    BY <1>5, <2>2, CommandsType DEF ReadPin
  <2>4. /\ phase = "read" /\ phase' = (IF DOMAIN gpis' = 1 .. Pins THEN "react" ELSE "read")
        /\ pin' = 1 /\ nth' = 1 /\ UNCHANGED <<inputs, lines, oldGpis, queue, shown>>
    BY <1>5 DEF ReadPin
  <2>5. phase' \in {"react", "terminated"} => DOMAIN gpis' = 1 .. Pins
    BY <2>4
  <2>6. phase' = "react" /\ pin' <= Pins => nth' <= Len(CommandsFor(pin', gpis'[pin'])) + 1
    <3> SUFFICES ASSUME phase' = "react" PROVE 1 <= Len(CommandsFor(1, gpis'[1])) + 1
      BY <2>4
    <3> QED BY <2>3
  <2>7. pin' \in 1 .. Pins + 1 /\ nth' \in Nat \ {0}
    BY <2>4
  <2> QED BY <2>2, <2>4, <2>5, <2>6, <2>7 DEF CommandsFor
<1>6. CASE RunCommand
  <2> DEFINE cmds == CommandsFor(pin, gpis[pin])
  <2>1. cmds \in Seq(Command)
    BY <1>6, CommandsType DEF RunCommand
  <2>2. cmds[nth] \in Command
    BY <1>6, <2>1 DEF RunCommand
  <2>3. queue' \in Seq(Message)
    BY <1>6, <2>2, AddType DEF RunCommand
  <2> QED BY <1>6, <2>1, <2>3, SMTT(30) DEF RunCommand, CommandsFor
<1>7. CASE NextPin
  <2>1. pin' <= Pins => Len(CommandsFor(pin', gpis[pin'])) \in Nat
    BY <1>7, CommandsType DEF NextPin
  <2> QED BY <1>7, <2>1 DEF NextPin, CommandsFor
<1>8. CASE PinsDone
  BY <1>8 DEF PinsDone
<1>9. CASE LevelChanges
  BY <1>9 DEF LevelChanges, CommandsFor
<1>10. CASE UNCHANGED localVars
  BY <1>10 DEF localVars, CommandsFor
<1> QED BY <1>1, <1>2, <1>3, <1>4, <1>5, <1>6, <1>7, <1>8, <1>9, <1>10
   DEF LocalNext, LocalStep

\* ... that only a changed input's command ends the program, ...
LEMMA StopStep ==
  LocalTypeOK /\ FileCannotStop /\ [LocalNext]_localVars => FileCannotStop'
<1> SUFFICES ASSUME LocalTypeOK, FileCannotStop, [LocalNext]_localVars
             PROVE  FileCannotStop'
  OBVIOUS
<1> USE DEF FileCannotStop
<1>1. CASE RunCommand
  <2>1. CASE phase' = "terminated"
    <3>1. /\ pin \in DOMAIN gpis /\ Changed(pin) /\ UNCHANGED <<gpis, oldGpis>>
          /\ nth \in 1 .. Len(CommandsFor(pin, gpis[pin]))
          /\ CommandsFor(pin, gpis[pin])[nth].outcome = "exception"
      BY <1>1, <2>1, CommandsType DEF RunCommand, LocalTypeOK
    <3> QED BY <3>1 DEF Changed, CommandsFor
  <2> QED BY <2>1
<1>2. CASE LevelChanges \/ UNCHANGED localVars
  BY <1>2 DEF LevelChanges, localVars, Changed, CommandsFor
<1>3. CASE HandleLine \/ FileDone \/ HandleMessage \/ MessagesDone \/ ReadPin
           \/ NextPin \/ PinsDone
  BY <1>3 DEF HandleLine, FileDone, HandleMessage, MessagesDone, ReadPin, NextPin, PinsDone
<1> QED BY <1>1, <1>2, <1>3 DEF LocalNext, LocalStep

\* ... that the pins that were passed are shown as they were read, ...
LEMMA PassedPinsStep ==
  LocalIInv /\ [LocalNext]_localVars => PinsPassed'
<1> SUFFICES ASSUME LocalIInv, [LocalNext]_localVars, phase' = "react",
                    NEW i \in 1 .. pin' - 1, NEW level, level = gpis'[i]
             PROVE  ShownAs(i, level)'
  BY DEF PinsPassed, ShownAs
<1> USE LocalAssumption DEF LocalAssumption, LocalIInv, LocalTypeOK
<1>1. CASE RunCommand
  <2>1. /\ i \in 1 .. Pins /\ pin \in (1 .. Pins) \ {i} /\ gpis[i] \in BOOLEAN
        /\ gpis[pin] \in BOOLEAN /\ level \in BOOLEAN /\ ShownAs(i, level) /\ UNCHANGED <<gpis, shown>>
    BY <1>1 DEF RunCommand, PinsPassed
  <2>2. /\ nth \in 1 .. Len(CommandsFor(pin, gpis[pin]))
        /\ Add(CommandsFor(pin, gpis[pin])[nth])
    BY <1>1, <2>1, CommandsType DEF RunCommand
  <2> QED BY <2>1, <2>2, ForeignKeeps
<1>2. CASE NextPin
  <2>1. UNCHANGED <<queue, shown, gpis>> /\ i \in 1 .. pin
    BY <1>2 DEF NextPin
  <2>2. CASE i # pin
    BY <1>2, <2>1, <2>2, IdleKeeps DEF NextPin, PinsPassed
  <2>3. CASE i = pin /\ ~ Changed(pin)
    <3>1. oldGpis # <<>> /\ gpis[i] = oldGpis[i]
      BY <2>3 DEF Changed
    <3>2. ShownAs(i, level)
      BY <1>2, <2>3, <3>1 DEF NextPin, PinsToCome
    <3> QED BY <2>1, <3>2, IdleKeeps
  <2>4. CASE i = pin /\ Changed(pin)
    <3> DEFINE cmds == CommandsFor(pin, gpis[pin])
    <3>1. cmds \in Seq(Command) /\ nth = Len(cmds) + 1 /\ Len(cmds) \in Nat
      BY <1>2, <2>4, CommandsType DEF NextPin
    <3>2. ASSUME NEW c \in Cells, NEW text \in Texts, Owns(pin, c), Leave(cmds, c, text)
          PROVE  WillShow(c, text)
      <4>1. PICK k \in 1 .. Len(cmds) :
              /\ Sets(cmds[k], c) /\ cmds[k].text = text
              /\ \A l \in k + 1 .. Len(cmds) : ~ Sets(cmds[l], c)
        BY <3>2 DEF Leave
      <4>2. k \in 1 .. nth - 1 /\ nth - 1 = Len(cmds)
        BY <3>1
      <4> QED BY <1>2, <2>4, <3>2, <4>1, <4>2 DEF PinAtHand, NextPin
    <3>3. cmds = CommandsFor(i, level)
      BY <2>1, <2>4
    <3>4. ShownAs(i, level)
      BY <2>4, <3>2, <3>3 DEF ShownAs
    <3> QED BY <2>1, <3>4, IdleKeeps
  <2> QED BY <2>2, <2>3, <2>4
<1>3. CASE ReadPin
  BY <1>3 DEF ReadPin
<1>4. CASE LevelChanges \/ UNCHANGED localVars
  BY <1>4, IdleKeeps DEF LevelChanges, localVars, PinsPassed
<1>5. CASE HandleLine \/ FileDone \/ HandleMessage \/ MessagesDone \/ PinsDone
  BY <1>5 DEF HandleLine, FileDone, HandleMessage, MessagesDone, PinsDone
<1> QED BY <1>1, <1>2, <1>3, <1>4, <1>5 DEF LocalNext, LocalStep

\* ... that those to come are shown as they were before, ...
LEMMA ComingPinsStep ==
  LocalIInv /\ [LocalNext]_localVars => PinsToCome'
<1> SUFFICES ASSUME LocalIInv, [LocalNext]_localVars, phase' = "react", oldGpis' # <<>>,
                    NEW i \in pin' .. Pins, i > pin' \/ ~ Changed(i)',
                    NEW level, level = oldGpis'[i]
             PROVE  ShownAs(i, level)'
  BY DEF PinsToCome, ShownAs
<1> USE LocalAssumption DEF LocalAssumption, LocalIInv, LocalTypeOK
<1>1. CASE RunCommand
  <2>1. /\ i \in 1 .. Pins /\ i > pin /\ UNCHANGED <<gpis, oldGpis, shown>>
        /\ pin \in (1 .. Pins) \ {i} /\ gpis[pin] \in BOOLEAN /\ oldGpis[i] \in BOOLEAN
    BY <1>1, SMTT(30) DEF RunCommand, Changed
  <2>2. ShownAs(i, level)
    BY <1>1, <2>1 DEF RunCommand, PinsToCome
  <2>3. /\ nth \in 1 .. Len(CommandsFor(pin, gpis[pin]))
        /\ Add(CommandsFor(pin, gpis[pin])[nth])
    BY <1>1, <2>1, CommandsType DEF RunCommand
  <2> QED BY <2>1, <2>2, <2>3, ForeignKeeps
<1>2. CASE NextPin
  BY <1>2, IdleKeeps DEF NextPin, PinsToCome
<1>3. CASE ReadPin
  <2>1. ShownAs(i, level)
    BY <1>3 DEF ReadPin, FollowsInputs, ShownAs
  <2> QED BY <1>3, <2>1, IdleKeeps DEF ReadPin
<1>4. CASE LevelChanges \/ UNCHANGED localVars
  BY <1>4, IdleKeeps DEF LevelChanges, localVars, PinsToCome, Changed
<1>5. CASE HandleLine \/ FileDone \/ HandleMessage \/ MessagesDone \/ PinsDone
  BY <1>5 DEF HandleLine, FileDone, HandleMessage, MessagesDone, PinsDone
<1> QED BY <1>1, <1>2, <1>3, <1>4, <1>5 DEF LocalNext, LocalStep

\* ... that the one at hand is shown as its commands so far leave it, ...
LEMMA AtHandStep ==
  LocalIInv /\ [LocalNext]_localVars => PinAtHand'
<1> DEFINE cmds == CommandsFor(pin, gpis[pin])
<1> SUFFICES ASSUME LocalIInv, [LocalNext]_localVars, phase' = "react", pin' <= Pins,
                    Changed(pin)', NEW c \in Cells, NEW k \in 1 .. nth' - 1,
                    Owns(pin', c), Sets(cmds'[k], c),
                    \A l \in k + 1 .. nth' - 1 : ~ Sets(cmds'[l], c),
                    NEW text, text = cmds'[k].text
             PROVE  WillShow(c, text)'
  BY DEF PinAtHand, Owns, WillShow
<1> USE LocalAssumption DEF LocalAssumption, LocalIInv, LocalTypeOK
<1>1. CASE RunCommand
  <2>1. /\ cmds' = cmds /\ pin' = pin /\ cmds \in Seq(Command) /\ nth \in 1 .. Len(cmds)
        /\ nth' = nth + 1 /\ Add(cmds[nth]) /\ UNCHANGED shown
    BY <1>1, CommandsType DEF RunCommand, CommandsFor
  <2>2. cmds[nth] \in Command
    BY <2>1
  <2>3. /\ k \in 1 .. nth /\ Owns(pin, c) /\ Sets(cmds[k], c) /\ text = cmds[k].text
        /\ \A l \in k + 1 .. nth : ~ Sets(cmds[l], c)
    BY <2>1
  <2>4. \A m \in 1 .. nth - 1 :
          Sets(cmds[m], c) /\ (\A l \in m + 1 .. nth - 1 : ~ Sets(cmds[l], c))
            => WillShow(c, cmds[m].text)
    BY <1>1, <2>3 DEF PinAtHand, RunCommand
  <2>5. nth \in Nat /\ k \in Nat
    BY <2>3
  <2> HIDE DEF cmds, LocalIInv, LocalTypeOK
  <2>6. CASE k = nth
    BY <2>1, <2>2, <2>3, <2>6, AddSets DEF LocalIInv, LocalTypeOK
  <2>7. CASE k # nth
    <3>1. k \in 1 .. nth - 1 /\ nth \in k + 1 .. nth
      BY <2>3, <2>5, <2>7
    <3>2. ~ Sets(cmds[nth], c)
      BY <2>3, <3>1
    <3>3. \A l \in k + 1 .. nth - 1 : ~ Sets(cmds[l], c)
      BY <2>3, <2>5
    <3>4. WillShow(c, text)
      BY <2>3, <2>4, <3>1, <3>3
    <3> QED BY <2>1, <2>2, <3>2, <3>4, AddKeeps DEF LocalIInv, LocalTypeOK
  <2> QED BY <2>6, <2>7
<1>2. CASE NextPin \/ ReadPin
  BY <1>2 DEF NextPin, ReadPin
<1>3. CASE LevelChanges \/ UNCHANGED localVars
  <2>1. UNCHANGED <<phase, gpis, oldGpis, pin, nth, queue, shown>>
    BY <1>3 DEF LevelChanges, localVars
  <2>2. WillShow(c, text)
    BY <2>1 DEF PinAtHand, CommandsFor, Changed
  <2> QED BY <2>1, <2>2 DEF WillShow, CommandsFor
<1>4. CASE HandleLine \/ FileDone \/ HandleMessage \/ MessagesDone \/ PinsDone
  BY <1>4 DEF HandleLine, FileDone, HandleMessage, MessagesDone, PinsDone
<1> QED BY <1>1, <1>2, <1>3, <1>4 DEF LocalNext, LocalStep

\* ... and that between two reactions all follow what was read.
LEMMA FollowStep ==
  LocalIInv /\ [LocalNext]_localVars => FollowsInputs'
<1> SUFFICES ASSUME LocalIInv, [LocalNext]_localVars, phase' \in {"handle", "read"},
                    oldGpis' # <<>>, NEW i \in 1 .. Pins, NEW level, level = oldGpis'[i]
             PROVE  ShownAs(i, level)'
  BY DEF FollowsInputs, ShownAs, Owns
<1> USE LocalAssumption DEF LocalAssumption, LocalIInv, LocalTypeOK
<1>1. CASE HandleLine \/ FileDone
  BY <1>1 DEF HandleLine, FileDone
<1>2. CASE HandleMessage
  BY <1>2, HandleKeeps DEF HandleMessage, FollowsInputs, ShownAs
<1>3. CASE MessagesDone \/ LevelChanges \/ ReadPin \/ UNCHANGED localVars
  <2>1. UNCHANGED <<oldGpis, queue, shown>> /\ phase \in {"handle", "read"}
    BY <1>3 DEF MessagesDone, LevelChanges, ReadPin, localVars
  <2>2. ShownAs(i, level)
    BY <2>1 DEF FollowsInputs, ShownAs
  <2> QED BY <2>1, <2>2, IdleKeeps
<1>4. CASE RunCommand \/ NextPin
  BY <1>4 DEF RunCommand, NextPin
<1>5. CASE PinsDone
  <2>1. i \in 1 .. pin - 1 /\ level = gpis[i]
    BY <1>5 DEF PinsDone
  <2>2. ShownAs(i, level)
    BY <1>5, <2>1 DEF PinsDone, PinsPassed
  <2> QED BY <1>5, <2>2, IdleKeeps DEF PinsDone
<1> QED BY <1>1, <1>2, <1>3, <1>4, <1>5 DEF LocalNext, LocalStep

\* The inductive invariant of running commands.
THEOREM LocalInvariance == LocalSpec => []LocalIInv
<1>1. LocalInit => LocalIInv
  BY LocalAssumption DEF LocalAssumption, LocalInit, LocalIInv, LocalTypeOK, FollowsInputs,
     FileCannotStop, PinsPassed, PinsToCome, PinAtHand
<1>2. LocalIInv /\ [LocalNext]_localVars => LocalIInv'
  BY LocalTypeStep, StopStep, PassedPinsStep, ComingPinsStep, AtHandStep, FollowStep
     DEF LocalIInv
<1> QED BY <1>1, <1>2, PTL DEF LocalSpec

\* From the first frame on, for any number of inputs, any commands and any
\* file: what only one input sets is shown as that input was last read, however
\* the inputs change while they are read.
THEOREM CommandsFollowInputs == LocalSpec => []FollowsInputs
<1>1. LocalIInv => FollowsInputs
  BY DEF LocalIInv
<1> QED BY <1>1, LocalInvariance, PTL

\* Whatever the file says, only a wrong command of an input that has just
\* changed ends the program.
THEOREM OnlyInputsStop == LocalSpec => []FileCannotStop
<1>1. LocalIInv => FileCannotStop
  BY DEF LocalIInv
<1> QED BY <1>1, LocalInvariance, PTL
==============================================================================
