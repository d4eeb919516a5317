------------------------------ MODULE CommsClear ------------------------------
(***************************************************************************)
(* What becomes of the tallies when the servers fall silent: the server    *)
(* threads' comms flags and the messages they add to msgQueue, against the *)
(* draw thread, which takes the messages at the start of a frame, reads    *)
(* the flags later in it (DrawStatusArea) and clears every tally when it   *)
(* has seen no flag for more than Grace seconds.                           *)
(*                                                                         *)
(* Each server sets one indicator of its own.  What is kept of it is the   *)
(* session it came in, and whether that session's flag was set already.    *)
(* Ages stand for the differences of clock readings, in whole seconds; an  *)
(* age stays at Ancient, which is also how long ago the epoch is.          *)
(***************************************************************************)
EXTENDS Integers

CONSTANTS
  Hosts,    \* number of tally_hosts
  Grace,    \* seconds without comms after which the tallies go (5 in the code)
  MaxFrame  \* bound: seconds that pass in one frame

Servers == 1 .. Hosts
Ancient == Grace + MaxFrame + 1

ASSUME CommsAssumption == Hosts \in Nat /\ Grace \in Nat /\ MaxFrame \in Nat

VARIABLES
  \* the server threads
  up,       \* the server's session: whether lines are being read
  comms,    \* bComms
  added,    \* handle_tcp_message is between msgQueue.Add and *pbComms = true
  queue,    \* the server's newest message in msgQueue, see Origins
  \* the draw thread
  tallies,  \* the server's indicator on the displays
  pc, at,   \* "idle", "scan" (at the flag of server at), "draw"
  any,      \* bAnyComms
  \* time
  goodAge,  \* since tm_last_comms_good
  since,    \* now_epoch_secs - tm_last_comms_good at the start of the frame
  frameAge, \* since the frame took its time
  quiet     \* since the last moment at which some flag was set

serverVars == <<up, comms, added, queue>>
frameVars  == <<tallies, pc, at, any>>
timeVars   == <<goodAge, since, frameAge, quiet>>
vars == <<serverVars, frameVars, timeVars>>

\* "early" and "later": added in the present session, before or after its flag
\* was set; "old": in an earlier one.
Origins == {"none", "early", "later", "old"}
Aged(origin) == IF origin = "none" THEN "none" ELSE "old"

Older(age) == IF age < Ancient THEN age + 1 ELSE Ancient

Init ==
  /\ up = [s \in Servers |-> FALSE] /\ comms = [s \in Servers |-> FALSE]
  /\ added = [s \in Servers |-> FALSE]
  /\ queue = [s \in Servers |-> "none"] /\ tallies = [s \in Servers |-> "none"]
  /\ pc = "idle" /\ at = 1 /\ any = FALSE
  /\ goodAge = Ancient /\ since = Ancient /\ frameAge = 0 /\ quiet = Ancient

------------------------------------------------------------------------------
(* A server thread *)

\* Another round of tcp_thread resets the flag ...
ResetFlag(s) ==
  /\ ~ up[s] /\ comms[s]
  /\ comms' = [comms EXCEPT ![s] = FALSE]
  /\ UNCHANGED <<up, added, queue, frameVars, timeVars>>

\* ... before its client connects.
Connect(s) ==
  /\ ~ up[s] /\ ~ comms[s]
  /\ up' = [up EXCEPT ![s] = TRUE]
  /\ UNCHANGED <<comms, added, queue, frameVars, timeVars>>

Disconnect(s) ==
  /\ up[s] /\ ~ added[s]
  /\ up' = [up EXCEPT ![s] = FALSE]
  /\ queue' = [queue EXCEPT ![s] = Aged(@)]
  /\ tallies' = [tallies EXCEPT ![s] = Aged(@)]
  /\ UNCHANGED <<comms, added, pc, at, any, timeVars>>

SetFlag(s) == comms' = [comms EXCEPT ![s] = TRUE] /\ quiet' = 0

Ping(s) ==
  /\ up[s] /\ ~ added[s]
  /\ SetFlag(s)
  /\ UNCHANGED <<up, added, queue, frameVars, goodAge, since, frameAge>>

\* A command that parses is queued for the draw thread first ...
AddMessage(s) ==
  /\ up[s] /\ ~ added[s]
  /\ queue' = [queue EXCEPT ![s] = IF comms[s] THEN "later" ELSE "early"]
  /\ added' = [added EXCEPT ![s] = TRUE]
  /\ UNCHANGED <<up, comms, frameVars, timeVars>>

\* ... then it is acknowledged and the flag is set.
Acknowledge(s) ==
  /\ added[s]
  /\ added' = [added EXCEPT ![s] = FALSE]
  /\ SetFlag(s)
  /\ UNCHANGED <<up, queue, frameVars, goodAge, since, frameAge>>

------------------------------------------------------------------------------
(* The draw thread *)

\* DrawFrame takes the time, and then the messages, which it handles.  With no
\* hosts there is no server to lose.
BeginFrame ==
  /\ pc = "idle" /\ pc' = "scan" /\ at' = 1 /\ any' = (Hosts = 0)
  /\ tallies' = [s \in Servers |-> IF queue[s] = "none" THEN tallies[s] ELSE queue[s]]
  /\ queue' = [s \in Servers |-> "none"]
  /\ since' = goodAge /\ frameAge' = 0
  /\ UNCHANGED <<up, comms, added, goodAge, quiet>>

\* Mutant of ReadFlag: the last server decides.
ReadFlagOnly ==
  /\ pc = "scan" /\ at \in Servers
  /\ any' = comms[at] /\ at' = at + 1
  /\ UNCHANGED <<serverVars, tallies, pc, timeVars>>

\* DrawConnComms reads one flag after the other.
ReadFlag ==
  /\ pc = "scan" /\ at \in Servers
  /\ any' = (any \/ comms[at]) /\ at' = at + 1
  /\ UNCHANGED <<serverVars, tallies, pc, timeVars>>

\* Mutant of Judge: one second too late.
JudgeLate ==
  /\ pc = "scan" /\ at = Hosts + 1 /\ pc' = "draw"
  /\ goodAge' = IF any THEN frameAge ELSE goodAge
  /\ tallies' = IF ~ any /\ since > Grace + 1 THEN [s \in Servers |-> "none"] ELSE tallies
  /\ UNCHANGED <<serverVars, at, any, since, frameAge, quiet>>

\* Mutant of Judge: the time is noted in any case.
JudgeAlwaysGood ==
  /\ pc = "scan" /\ at = Hosts + 1 /\ pc' = "draw"
  /\ goodAge' = frameAge
  /\ tallies' = IF ~ any /\ since > Grace THEN [s \in Servers |-> "none"] ELSE tallies
  /\ UNCHANGED <<serverVars, at, any, since, frameAge, quiet>>

\* Comms were good at the frame's time, or the tallies go.
Judge ==
  /\ pc = "scan" /\ at = Hosts + 1 /\ pc' = "draw"
  /\ goodAge' = IF any THEN frameAge ELSE goodAge
  /\ tallies' = IF ~ any /\ since > Grace THEN [s \in Servers |-> "none"] ELSE tallies
  /\ UNCHANGED <<serverVars, at, any, since, frameAge, quiet>>

\* DrawTallies, and the end of the frame
EndFrame ==
  /\ pc = "draw" /\ pc' = "idle"
  /\ UNCHANGED <<serverVars, tallies, at, any, timeVars>>

Draw == BeginFrame \/ ReadFlag \/ Judge \/ EndFrame

\* Mutant of Tick: the age of the frame is not bounded.
TickOn ==
  /\ goodAge' = Older(goodAge) /\ frameAge' = frameAge + 1
  /\ quiet' = IF \E s \in Servers : comms[s] THEN 0 ELSE Older(quiet)
  /\ UNCHANGED <<serverVars, frameVars, since>>

Tick ==
  /\ pc # "idle" => frameAge < MaxFrame
  /\ goodAge' = Older(goodAge)
  /\ frameAge' = IF pc = "idle" THEN frameAge ELSE frameAge + 1
  /\ quiet' = IF \E s \in Servers : comms[s] THEN 0 ELSE Older(quiet)
  /\ UNCHANGED <<serverVars, frameVars, since>>

Next ==
  \/ \E s \in Servers :
       ResetFlag(s) \/ Connect(s) \/ Disconnect(s) \/ Ping(s) \/ AddMessage(s) \/ Acknowledge(s)
  \/ Draw
  \/ Tick

Spec == Init /\ [][Next]_vars

\* A frame follows every frame, time passes, and a line that has been read is
\* handled to its end.
Fairness == WF_vars(Draw) /\ WF_vars(Tick) /\ \A s \in Servers : WF_vars(Acknowledge(s))

FairSpec == Spec /\ Fairness

------------------------------------------------------------------------------
(* Properties *)

TypeOK ==
  /\ up \in [Servers -> BOOLEAN] /\ comms \in [Servers -> BOOLEAN]
  /\ added \in [Servers -> BOOLEAN]
  /\ queue \in [Servers -> Origins] /\ tallies \in [Servers -> Origins]
  /\ pc \in {"idle", "scan", "draw"} /\ at \in 1 .. Hosts + 1 /\ any \in BOOLEAN
  /\ goodAge \in 0 .. Ancient /\ since \in 0 .. Ancient /\ quiet \in 0 .. Ancient
  /\ frameAge \in 0 .. MaxFrame

Shown == \E s \in Servers : tallies[s] # "none"

\* No frame draws a tally when, at the frame's time, it had been more than Grace
\* seconds since any server's comms were good.  The draw thread only samples the
\* flags, one after the other, in frames of any length.
StaleTalliesGone == pc = "draw" /\ Shown => quiet <= Grace + frameAge

\* A tally that was set in a session whose flag was already set is not cleared
\* as long as that session lasts, whatever the other servers do.
LaterIsKept ==
  [][\A s \in Servers : tallies[s] = "later" /\ up'[s] => tallies'[s] # "none"]_vars

\* When the comms with every server stay bad, the tallies go.
EventuallyCleared ==
  Hosts > 0 /\ <>[](\A s \in Servers : ~ comms[s]) => <>[](~ Shown)

\* What TallyProtocol.md says of the tallies (they disappear after five seconds
\* of comms loss) and the ACK of a command (it was understood): a tally of a
\* session that goes on is not cleared.
KeptWhileConnected ==
  [][\A s \in Servers :
       tallies[s] \in {"early", "later"} /\ up'[s] => tallies'[s] # "none"]_vars
==============================================================================
