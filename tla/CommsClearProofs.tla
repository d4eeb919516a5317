--------------------------- MODULE CommsClearProofs ---------------------------
(***************************************************************************)
(* Proofs about CommsClear, for any number of hosts, any grace and frames  *)
(* of any bounded length.                                                  *)
(*                                                                         *)
(* The strengthening of StaleTalliesGone relates the ages: the draw        *)
(* thread's idea of the last good comms is never younger than the truth.   *)
(* The one of LaterIsKept follows a flag from the message that found it    *)
(* set to the frame that reads it.                                         *)
(***************************************************************************)
EXTENDS CommsClear, TLAPS

\* No flag is set and the servers quiet.
SetIsNotQuiet == \A s \in Servers : comms[s] => quiet = 0

\* tm_last_comms_good is no later than comms were good, ...
GoodIsPast == Hosts > 0 => quiet <= goodAge

\* ... a frame knows how old it is, and a set flag it has read is no older.
FrameKnows ==
  pc = "scan" => /\ goodAge <= since + frameAge
                 /\ any /\ Hosts > 0 => quiet <= frameAge

\* A later message's session is up and its flag set, and the scan that has
\* passed the flag has seen it.
LaterIsSeen ==
  \A s \in Servers :
    /\ queue[s] = "later" \/ tallies[s] = "later" => up[s] /\ comms[s]
    /\ pc = "scan" /\ at > s /\ tallies[s] = "later" => any

IInv == TypeOK /\ SetIsNotQuiet /\ GoodIsPast /\ FrameKnows /\ LaterIsSeen
          /\ StaleTalliesGone

\* What the proofs use of numbers.
LEMMA AgeFacts == Ancient \in Nat /\ 0 \in 0 .. Ancient /\ 1 \in 1 .. Hosts + 1
BY CommsAssumption DEF CommsAssumption, Ancient

\* A newer age is an age.
LEMMA OlderType == \A age \in 0 .. Ancient : Older(age) \in 0 .. Ancient
BY AgeFacts DEF Older

\* Every step keeps the types, ...
LEMMA TypeStep == TypeOK /\ [Next]_vars => TypeOK'
<1> SUFFICES ASSUME TypeOK, [Next]_vars PROVE TypeOK'
  OBVIOUS
<1> USE CommsAssumption, AgeFacts DEF CommsAssumption, TypeOK, Origins, Aged
<1>1. ASSUME NEW s \in Servers, ResetFlag(s) PROVE TypeOK'
  BY <1>1 DEF ResetFlag, vars, serverVars, frameVars, timeVars
<1>2. ASSUME NEW s \in Servers, Connect(s) PROVE TypeOK'
  BY <1>2 DEF Connect, vars, serverVars, frameVars, timeVars
<1>3. ASSUME NEW s \in Servers, Disconnect(s) PROVE TypeOK'
  BY <1>3 DEF Disconnect, vars, serverVars, frameVars, timeVars
<1>4. ASSUME NEW s \in Servers, Ping(s) PROVE TypeOK'
  BY <1>4 DEF Ping, SetFlag, vars, serverVars, frameVars, timeVars
<1>5. ASSUME NEW s \in Servers, AddMessage(s) PROVE TypeOK'
  BY <1>5 DEF AddMessage, vars, serverVars, frameVars, timeVars
<1>6. ASSUME NEW s \in Servers, Acknowledge(s) PROVE TypeOK'
  BY <1>6 DEF Acknowledge, SetFlag, vars, serverVars, frameVars, timeVars
<1>7. CASE BeginFrame
  BY <1>7 DEF BeginFrame, vars, serverVars, frameVars, timeVars
<1>8. CASE ReadFlag
  <2>1. at' \in 1 .. Hosts + 1
    BY <1>8 DEF ReadFlag, Servers
  <2>2. any' \in BOOLEAN
    BY <1>8 DEF ReadFlag
  <2> QED BY <1>8, <2>1, <2>2 DEF ReadFlag, serverVars, timeVars
<1>9. CASE Judge
  <2>1. goodAge' \in 0 .. Ancient
    BY <1>9 DEF Judge, Ancient
  <2>2. tallies' \in [Servers -> Origins]
    BY <1>9 DEF Judge
  <2> QED BY <1>9, <2>1, <2>2 DEF Judge, serverVars
<1>10. CASE EndFrame
  BY <1>10 DEF EndFrame, vars, serverVars, frameVars, timeVars
<1>11. CASE Tick
  BY <1>11 DEF Tick, Older, vars, serverVars, frameVars, timeVars
<1>12. CASE UNCHANGED vars
  BY <1>12 DEF vars, serverVars, frameVars, timeVars
<1> QED BY <1>1, <1>2, <1>3, <1>4, <1>5, <1>6, <1>7, <1>8, <1>9, <1>10, <1>11, <1>12
   DEF Next, Draw

\* ... keeps the servers heard while a flag is set, ...
LEMMA QuietStep == TypeOK /\ SetIsNotQuiet /\ [Next]_vars => SetIsNotQuiet'
<1> SUFFICES ASSUME TypeOK, SetIsNotQuiet, [Next]_vars PROVE SetIsNotQuiet'
  OBVIOUS
<1> USE DEF TypeOK, SetIsNotQuiet
<1>1. ASSUME NEW s \in Servers, ResetFlag(s) PROVE SetIsNotQuiet'
  BY <1>1 DEF ResetFlag, vars, serverVars, frameVars, timeVars
<1>2. ASSUME NEW s \in Servers, Connect(s) PROVE SetIsNotQuiet'
  BY <1>2 DEF Connect, vars, serverVars, frameVars, timeVars
<1>3. ASSUME NEW s \in Servers, Disconnect(s) PROVE SetIsNotQuiet'
  BY <1>3 DEF Disconnect, vars, serverVars, frameVars, timeVars
<1>4. ASSUME NEW s \in Servers, Ping(s) PROVE SetIsNotQuiet'
  BY <1>4 DEF Ping, SetFlag, vars, serverVars, frameVars, timeVars
<1>5. ASSUME NEW s \in Servers, AddMessage(s) PROVE SetIsNotQuiet'
  BY <1>5 DEF AddMessage, vars, serverVars, frameVars, timeVars
<1>6. ASSUME NEW s \in Servers, Acknowledge(s) PROVE SetIsNotQuiet'
  BY <1>6 DEF Acknowledge, SetFlag, vars, serverVars, frameVars, timeVars
<1>7. CASE BeginFrame
  BY <1>7 DEF BeginFrame, vars, serverVars, frameVars, timeVars
<1>8. CASE ReadFlag
  BY <1>8 DEF ReadFlag, vars, serverVars, frameVars, timeVars
<1>9. CASE Judge
  BY <1>9 DEF Judge, vars, serverVars, frameVars, timeVars
<1>10. CASE EndFrame
  BY <1>10 DEF EndFrame, vars, serverVars, frameVars, timeVars
<1>11. CASE Tick
  BY <1>11 DEF Tick, Older, vars, serverVars, frameVars, timeVars
<1>12. CASE UNCHANGED vars
  BY <1>12 DEF vars, serverVars, frameVars, timeVars
<1> QED BY <1>1, <1>2, <1>3, <1>4, <1>5, <1>6, <1>7, <1>8, <1>9, <1>10, <1>11, <1>12
   DEF Next, Draw

\* ... keeps the time of good comms in the past, ...
LEMMA GoodStep ==
  TypeOK /\ SetIsNotQuiet /\ GoodIsPast /\ FrameKnows /\ [Next]_vars => GoodIsPast'
<1> SUFFICES ASSUME TypeOK, SetIsNotQuiet, GoodIsPast, FrameKnows, [Next]_vars
             PROVE  GoodIsPast'
  OBVIOUS
<1> USE CommsAssumption, AgeFacts DEF CommsAssumption, TypeOK, GoodIsPast, FrameKnows, Servers
<1>1. ASSUME NEW s \in Servers, ResetFlag(s) PROVE GoodIsPast'
  BY <1>1 DEF ResetFlag, vars, serverVars, frameVars, timeVars
<1>2. ASSUME NEW s \in Servers, Connect(s) PROVE GoodIsPast'
  BY <1>2 DEF Connect, vars, serverVars, frameVars, timeVars
<1>3. ASSUME NEW s \in Servers, Disconnect(s) PROVE GoodIsPast'
  BY <1>3 DEF Disconnect, vars, serverVars, frameVars, timeVars
<1>4. ASSUME NEW s \in Servers, Ping(s) PROVE GoodIsPast'
  BY <1>4 DEF Ping, SetFlag, vars, serverVars, frameVars, timeVars
<1>5. ASSUME NEW s \in Servers, AddMessage(s) PROVE GoodIsPast'
  BY <1>5 DEF AddMessage, vars, serverVars, frameVars, timeVars
<1>6. ASSUME NEW s \in Servers, Acknowledge(s) PROVE GoodIsPast'
  BY <1>6 DEF Acknowledge, SetFlag, vars, serverVars, frameVars, timeVars
<1>7. CASE BeginFrame
  BY <1>7 DEF BeginFrame, vars, serverVars, frameVars, timeVars
<1>8. CASE ReadFlag
  BY <1>8 DEF ReadFlag, vars, serverVars, frameVars, timeVars
<1>9. CASE Judge
  BY <1>9 DEF Judge, vars, serverVars, frameVars, timeVars
<1>10. CASE EndFrame
  BY <1>10 DEF EndFrame, vars, serverVars, frameVars, timeVars
<1>11. CASE Tick
  BY <1>11 DEF Tick, Older, vars, serverVars, frameVars, timeVars
<1>12. CASE UNCHANGED vars
  BY <1>12 DEF vars, serverVars, frameVars, timeVars
<1> QED BY <1>1, <1>2, <1>3, <1>4, <1>5, <1>6, <1>7, <1>8, <1>9, <1>10, <1>11, <1>12
   DEF Next, Draw

\* ... keeps a frame's own times, ...
LEMMA FrameStep ==
  TypeOK /\ SetIsNotQuiet /\ FrameKnows /\ [Next]_vars => FrameKnows'
<1> SUFFICES ASSUME TypeOK, SetIsNotQuiet, FrameKnows, [Next]_vars PROVE FrameKnows'
  OBVIOUS
<1> USE CommsAssumption, AgeFacts DEF CommsAssumption, TypeOK, SetIsNotQuiet, FrameKnows
<1>1. ASSUME NEW s \in Servers, ResetFlag(s) PROVE FrameKnows'
  BY <1>1 DEF ResetFlag, vars, serverVars, frameVars, timeVars
<1>2. ASSUME NEW s \in Servers, Connect(s) PROVE FrameKnows'
  BY <1>2 DEF Connect, vars, serverVars, frameVars, timeVars
<1>3. ASSUME NEW s \in Servers, Disconnect(s) PROVE FrameKnows'
  BY <1>3 DEF Disconnect, vars, serverVars, frameVars, timeVars
<1>4. ASSUME NEW s \in Servers, Ping(s) PROVE FrameKnows'
  BY <1>4 DEF Ping, SetFlag, vars, serverVars, frameVars, timeVars
<1>5. ASSUME NEW s \in Servers, AddMessage(s) PROVE FrameKnows'
  BY <1>5 DEF AddMessage, vars, serverVars, frameVars, timeVars
<1>6. ASSUME NEW s \in Servers, Acknowledge(s) PROVE FrameKnows'
  BY <1>6 DEF Acknowledge, SetFlag, vars, serverVars, frameVars, timeVars
<1>7. CASE BeginFrame
  <2>1. goodAge' <= since' + frameAge'
    <3>1. goodAge' = goodAge /\ since' = goodAge /\ frameAge' = 0
      BY <1>7 DEF BeginFrame
    <3> QED BY <3>1
  <2>2. any' => Hosts = 0
    BY <1>7 DEF BeginFrame
  <2> QED BY <2>1, <2>2
<1>8. CASE ReadFlag
  BY <1>8 DEF ReadFlag, vars, serverVars, frameVars, timeVars
<1>9. CASE Judge
  BY <1>9 DEF Judge, vars, serverVars, frameVars, timeVars
<1>10. CASE EndFrame
  BY <1>10 DEF EndFrame, vars, serverVars, frameVars, timeVars
<1>11. CASE Tick
  BY <1>11 DEF Tick, Older, vars, serverVars, frameVars, timeVars
<1>12. CASE UNCHANGED vars
  BY <1>12 DEF vars, serverVars, frameVars, timeVars
<1> QED BY <1>1, <1>2, <1>3, <1>4, <1>5, <1>6, <1>7, <1>8, <1>9, <1>10, <1>11, <1>12
   DEF Next, Draw

\* ... keeps a later message's flag in sight, ...
LEMMA LaterStep == TypeOK /\ LaterIsSeen /\ [Next]_vars => LaterIsSeen'
<1> SUFFICES ASSUME TypeOK, LaterIsSeen, [Next]_vars PROVE LaterIsSeen'
  OBVIOUS
<1> USE CommsAssumption DEF CommsAssumption, TypeOK, LaterIsSeen, Aged, Servers
<1>1. ASSUME NEW s \in Servers, ResetFlag(s) PROVE LaterIsSeen'
  BY <1>1 DEF ResetFlag, vars, serverVars, frameVars, timeVars
<1>2. ASSUME NEW s \in Servers, Connect(s) PROVE LaterIsSeen'
  BY <1>2 DEF Connect, vars, serverVars, frameVars, timeVars
<1>3. ASSUME NEW s \in Servers, Disconnect(s) PROVE LaterIsSeen'
  BY <1>3 DEF Disconnect, vars, serverVars, frameVars, timeVars
<1>4. ASSUME NEW s \in Servers, Ping(s) PROVE LaterIsSeen'
  BY <1>4 DEF Ping, SetFlag, vars, serverVars, frameVars, timeVars
<1>5. ASSUME NEW s \in Servers, AddMessage(s) PROVE LaterIsSeen'
  BY <1>5 DEF AddMessage, vars, serverVars, frameVars, timeVars
<1>6. ASSUME NEW s \in Servers, Acknowledge(s) PROVE LaterIsSeen'
  BY <1>6 DEF Acknowledge, SetFlag, vars, serverVars, frameVars, timeVars
<1>7. CASE BeginFrame
  BY <1>7 DEF BeginFrame, vars, serverVars, frameVars, timeVars
<1>8. CASE ReadFlag
  BY <1>8 DEF ReadFlag, vars, serverVars, frameVars, timeVars
<1>9. CASE Judge
  BY <1>9 DEF Judge, vars, serverVars, frameVars, timeVars
<1>10. CASE EndFrame
  BY <1>10 DEF EndFrame, vars, serverVars, frameVars, timeVars
<1>11. CASE Tick
  BY <1>11 DEF Tick, Older, vars, serverVars, frameVars, timeVars
<1>12. CASE UNCHANGED vars
  BY <1>12 DEF vars, serverVars, frameVars, timeVars
<1> QED BY <1>1, <1>2, <1>3, <1>4, <1>5, <1>6, <1>7, <1>8, <1>9, <1>10, <1>11, <1>12
   DEF Next, Draw

\* ... and draws no stale tally.
LEMMA StaleStep == IInv /\ [Next]_vars => StaleTalliesGone'
<1> SUFFICES ASSUME IInv, [Next]_vars PROVE StaleTalliesGone'
  OBVIOUS
<1> USE CommsAssumption, AgeFacts
    DEF CommsAssumption, IInv, TypeOK, GoodIsPast, FrameKnows, StaleTalliesGone, Shown,
        Aged, Servers
<1>1. ASSUME NEW s \in Servers, ResetFlag(s) PROVE StaleTalliesGone'
  BY <1>1 DEF ResetFlag, vars, serverVars, frameVars, timeVars
<1>2. ASSUME NEW s \in Servers, Connect(s) PROVE StaleTalliesGone'
  BY <1>2 DEF Connect, vars, serverVars, frameVars, timeVars
<1>3. ASSUME NEW s \in Servers, Disconnect(s) PROVE StaleTalliesGone'
  BY <1>3 DEF Disconnect, vars, serverVars, frameVars, timeVars
<1>4. ASSUME NEW s \in Servers, Ping(s) PROVE StaleTalliesGone'
  BY <1>4 DEF Ping, SetFlag, vars, serverVars, frameVars, timeVars
<1>5. ASSUME NEW s \in Servers, AddMessage(s) PROVE StaleTalliesGone'
  BY <1>5 DEF AddMessage, vars, serverVars, frameVars, timeVars
<1>6. ASSUME NEW s \in Servers, Acknowledge(s) PROVE StaleTalliesGone'
  BY <1>6 DEF Acknowledge, SetFlag, vars, serverVars, frameVars, timeVars
<1>7. CASE BeginFrame
  BY <1>7 DEF BeginFrame, vars, serverVars, frameVars, timeVars
<1>8. CASE ReadFlag
  BY <1>8 DEF ReadFlag, vars, serverVars, frameVars, timeVars
<1>9. CASE Judge
  BY <1>9 DEF Judge, vars, serverVars, frameVars, timeVars
<1>10. CASE EndFrame
  BY <1>10 DEF EndFrame, vars, serverVars, frameVars, timeVars
<1>11. CASE Tick
  BY <1>11 DEF Tick, Older, vars, serverVars, frameVars, timeVars
<1>12. CASE UNCHANGED vars
  BY <1>12 DEF vars, serverVars, frameVars, timeVars
<1> QED BY <1>1, <1>2, <1>3, <1>4, <1>5, <1>6, <1>7, <1>8, <1>9, <1>10, <1>11, <1>12
   DEF Next, Draw

\* The inductive invariant: flags, messages and ages together.
THEOREM Invariance == Spec => []IInv
<1>1. Init => IInv
  <2> SUFFICES ASSUME Init PROVE IInv
    OBVIOUS
  <2>1. TypeOK
    <3>1. Ancient \in 0 .. Ancient /\ 0 \in 0 .. MaxFrame
      BY CommsAssumption, AgeFacts DEF CommsAssumption
    <3> QED BY <3>1, AgeFacts DEF Init, TypeOK, Origins
  <2>2. SetIsNotQuiet /\ LaterIsSeen
    BY DEF Init, SetIsNotQuiet, LaterIsSeen
  <2> QED BY <2>1, <2>2, AgeFacts
          DEF Init, IInv, GoodIsPast, FrameKnows, StaleTalliesGone
<1>2. IInv /\ [Next]_vars => IInv'
  BY TypeStep, QuietStep, GoodStep, FrameStep, LaterStep, StaleStep DEF IInv
<1> QED BY <1>1, <1>2, PTL DEF Spec

\* Every variable keeps its type.
THEOREM TypeCorrect == Spec => []TypeOK
<1>1. IInv => TypeOK
  BY DEF IInv
<1> QED BY <1>1, Invariance, PTL

\* No frame draws a tally after more than Grace seconds without comms, however
\* long the frames are and whenever the flags change while they are read.
THEOREM StaleTalliesAreGone == Spec => []StaleTalliesGone
<1>1. IInv => StaleTalliesGone
  BY DEF IInv
<1> QED BY <1>1, Invariance, PTL

\* A tally set while its session's flag was set outlives the other servers'
\* sessions, however many there are.
THEOREM LaterTalliesAreKept == Spec => LaterIsKept
<1> DEFINE Kept == \A s \in Servers : tallies[s] = "later" /\ up'[s] => tallies'[s] # "none"
<1>1. IInv /\ [Next]_vars => [Kept]_vars
  <2> SUFFICES ASSUME IInv, Next, NEW s \in Servers, tallies[s] = "later", up'[s]
               PROVE  tallies'[s] # "none"
    BY DEF vars, frameVars
  <2> USE CommsAssumption DEF CommsAssumption, IInv, TypeOK, LaterIsSeen, Servers
  <2>1. CASE \E t \in Servers :
               ResetFlag(t) \/ Connect(t) \/ Disconnect(t) \/ Ping(t) \/ AddMessage(t)
                 \/ Acknowledge(t)
    BY <2>1 DEF ResetFlag, Connect, Disconnect, Ping, AddMessage, Acknowledge, Aged, frameVars
  <2>2. CASE BeginFrame
    BY <2>2 DEF BeginFrame
  <2>3. CASE Judge
    <3>1. up[s] /\ at > s
      BY <2>3 DEF Judge, serverVars
    <3> QED BY <2>3, <3>1 DEF Judge
  <2>4. CASE ReadFlag \/ EndFrame \/ Tick
    BY <2>4 DEF ReadFlag, EndFrame, Tick, frameVars
  <2> QED BY <2>1, <2>2, <2>3, <2>4 DEF Next, Draw
<1> QED BY <1>1, Invariance, PTL DEF Spec, LaterIsKept
==============================================================================
