----------------------------- MODULE GpiFeedback -----------------------------
(***************************************************************************)
(* The state of the GPIs, told to every tally server: update_tcp_gpis,     *)
(* which the draw thread calls in every frame, against the server threads  *)
(* (tcp_thread), which replace their clients and, on a CRYPT line, ask for *)
(* the state to be sent again.  Nothing but atomicity of single accesses   *)
(* keeps them apart: last_gpi_value and lastGpioValue are plain ints that  *)
(* both sides write, and the order of the writes is what makes it work.    *)
(*                                                                         *)
(* The clients' own machinery is TcpClient's: here a line that is queued   *)
(* on a client is a line its server is told.                               *)
(***************************************************************************)
EXTENDS Integers

CONSTANTS
  Hosts,       \* number of tally_hosts, each with a slot of conns
  Inputs,      \* the values read_gpi returns
  Unsent,      \* 0x1FFFF, no value of 16 bits
  MaxClients,  \* bound: clients a server thread makes
  MaxCrypts,   \* bound: CRYPT lines a client receives
  MaxChanges   \* bound: changes of the inputs

Servers == 1 .. Hosts

ASSUME GpiAssumption ==
  /\ Hosts \in Nat \ {0} /\ Unsent \notin Inputs /\ Inputs # {}
  /\ MaxClients \in Nat /\ MaxCrypts \in Nat /\ MaxChanges \in Nat

VARIABLES
  \* shared by the threads
  clients,  \* how many clients a server's thread has stored in its slot
  known,    \* last_gpi_value of the client in the slot
  last,     \* lastGpioValue
  \* the server threads
  crypt,    \* CRYPT handler: "idle", or the write it does next, "known" or "last"
  crypts,   \* CRYPT lines the client has received
  told,     \* the last GPI line since the last AUTH line on the client, or Unsent
  \* the draw thread
  input,    \* what read_gpi returns
  changes,  \* how often that has changed
  pc,       \* next step of update_tcp_gpis, "idle" outside it
  newval,   \* newval
  at,       \* the slot it has come to
  stale,    \* the client it holds is no longer the one in the slot
  cut       \* it has returned at an empty slot

sharedVars == <<clients, known, last>>
threadVars == <<crypt, crypts, told>>
drawVars   == <<pc, newval, at, stale, cut>>
vars == <<sharedVars, threadVars, input, changes, drawVars>>

Init ==
  /\ clients = [s \in Servers |-> 0] /\ known = [s \in Servers |-> Unsent]
  /\ last = Unsent
  /\ crypt = [s \in Servers |-> "idle"] /\ crypts = [s \in Servers |-> 0]
  /\ told = [s \in Servers |-> Unsent]
  /\ input \in Inputs /\ changes = 0
  /\ pc = "idle" /\ newval = input /\ at = 1 /\ stale = FALSE /\ cut = FALSE

------------------------------------------------------------------------------
(* The server threads *)

\* tcp_thread stores a new client in its slot; the draw thread may still hold
\* the old one.
StoreClient(s) ==
  /\ crypt[s] = "idle" /\ clients[s] < MaxClients
  /\ clients' = [clients EXCEPT ![s] = @ + 1]
  /\ known' = [known EXCEPT ![s] = Unsent]
  /\ told' = [told EXCEPT ![s] = Unsent]
  /\ crypts' = [crypts EXCEPT ![s] = 0]
  /\ stale' = (stale \/ (at = s /\ pc \in {"compare", "set", "queue"}))
  /\ UNCHANGED <<last, crypt, input, changes, pc, newval, at, cut>>

\* A CRYPT line: the AUTH line is queued ...
QueueAuth(s) ==
  /\ crypt[s] = "idle" /\ clients[s] > 0 /\ crypts[s] < MaxCrypts
  /\ crypt' = [crypt EXCEPT ![s] = "known"]
  /\ crypts' = [crypts EXCEPT ![s] = @ + 1]
  /\ told' = [told EXCEPT ![s] = Unsent]
  /\ UNCHANGED <<sharedVars, input, changes, drawVars>>

\* Mutant of ForgetKnown: the client's value is left as it is.
ForgetKnownNever(s) ==
  /\ crypt[s] = "known"
  /\ crypt' = [crypt EXCEPT ![s] = "last"]
  /\ UNCHANGED <<clients, known, last, crypts, told, input, changes, drawVars>>

\* ... then the client's value is forgotten, ...
ForgetKnown(s) ==
  /\ crypt[s] = "known"
  /\ known' = [known EXCEPT ![s] = Unsent]
  /\ crypt' = [crypt EXCEPT ![s] = "last"]
  /\ UNCHANGED <<clients, last, crypts, told, input, changes, drawVars>>

\* Mutant of ForgetLast: the global value is left as it is.
ForgetLastNever(s) ==
  /\ crypt[s] = "last"
  /\ crypt' = [crypt EXCEPT ![s] = "idle"]
  /\ UNCHANGED <<clients, known, last, crypts, told, input, changes, drawVars>>

\* ... and then the draw thread is made to look at the clients again.
ForgetLast(s) ==
  /\ crypt[s] = "last"
  /\ last' = Unsent
  /\ crypt' = [crypt EXCEPT ![s] = "idle"]
  /\ UNCHANGED <<clients, known, crypts, told, input, changes, drawVars>>

------------------------------------------------------------------------------
(* The draw thread *)

InputChanges ==
  /\ changes < MaxChanges /\ changes' = changes + 1
  /\ \E v \in Inputs \ {input} : input' = v
  /\ UNCHANGED <<sharedVars, threadVars, drawVars>>

\* update_tcp_gpis(read_gpi()) refuses to update if identical ...
Test ==
  /\ pc = "idle" /\ input # last
  /\ newval' = input /\ pc' = "store"
  /\ UNCHANGED <<sharedVars, threadVars, input, changes, at, stale, cut>>

\* ... and otherwise notes the value first.
Store ==
  /\ pc = "store"
  /\ last' = newval
  /\ pc' = "load" /\ at' = 1 /\ cut' = FALSE
  /\ UNCHANGED <<clients, known, threadVars, input, changes, newval, stale>>

\* The loop's copy of the slot; an empty one ends the whole update.
Load ==
  /\ pc = "load" /\ at \in Servers
  /\ pc' = IF clients[at] = 0 THEN "idle" ELSE "compare"
  /\ cut' = (clients[at] = 0) /\ stale' = FALSE
  /\ UNCHANGED <<sharedVars, threadVars, input, changes, newval, at>>

\* A client that is no longer in the slot has any last_gpi_value; nobody sees
\* what becomes of it.
Compare ==
  /\ pc = "compare"
  /\ \/ pc' = "set" /\ (stale \/ known[at] # newval) /\ UNCHANGED at
     \/ pc' = "load" /\ (stale \/ known[at] = newval) /\ at' = at + 1
  /\ UNCHANGED <<sharedVars, threadVars, input, changes, newval, stale, cut>>

Set ==
  /\ pc = "set" /\ pc' = "queue"
  /\ known' = IF stale THEN known ELSE [known EXCEPT ![at] = newval]
  /\ UNCHANGED <<clients, last, threadVars, input, changes, newval, at, stale, cut>>

\* Mutant of Queue: the loop goes on after the next slot.
QueueSkips ==
  /\ pc = "queue" /\ pc' = "load" /\ at' = at + 2
  /\ told' = IF stale THEN told ELSE [told EXCEPT ![at] = newval]
  /\ UNCHANGED <<sharedVars, crypt, crypts, input, changes, newval, stale, cut>>

Queue ==
  /\ pc = "queue" /\ pc' = "load" /\ at' = at + 1
  /\ told' = IF stale THEN told ELSE [told EXCEPT ![at] = newval]
  /\ UNCHANGED <<sharedVars, crypt, crypts, input, changes, newval, stale, cut>>

\* The end of the loop
Return ==
  /\ pc = "load" /\ at = Hosts + 1 /\ pc' = "idle"
  /\ UNCHANGED <<sharedVars, threadVars, input, changes, newval, at, stale, cut>>

Draw == Test \/ Store \/ Load \/ Compare \/ Set \/ Queue \/ Return

Next ==
  \/ \E s \in Servers :
       StoreClient(s) \/ QueueAuth(s) \/ ForgetKnown(s) \/ ForgetLast(s)
  \/ InputChanges
  \/ Draw

Spec == Init /\ [][Next]_vars

\* A frame follows every frame, and a handler that has begun ends.
Fairness ==
  /\ WF_vars(Draw)
  /\ \A s \in Servers : WF_vars(ForgetKnown(s) \/ ForgetLast(s))

FairSpec == Spec /\ Fairness

------------------------------------------------------------------------------
(* Properties *)

TypeOK ==
  /\ clients \in [Servers -> Nat] /\ crypts \in [Servers -> Nat]
  /\ known \in [Servers -> Inputs \cup {Unsent}] /\ last \in Inputs \cup {Unsent}
  /\ crypt \in [Servers -> {"idle", "known", "last"}]
  /\ told \in [Servers -> Inputs \cup {Unsent}]
  /\ input \in Inputs /\ changes \in Nat /\ newval \in Inputs
  /\ pc \in {"idle", "store", "load", "compare", "set", "queue"}
  /\ at \in 1 .. Hosts + 1
  /\ stale \in BOOLEAN /\ cut \in BOOLEAN
  /\ pc \in {"compare", "set", "queue"} => at \in Servers

\* A server that has asked for authentication and has been answered
Authenticated(s) == crypts[s] > 0 /\ crypt[s] = "idle"

\* Between two frames, a value the draw thread takes for sent (so that it will
\* not send it again) has been told to every authenticated server since its
\* last AUTH line, whatever the CRYPT handlers did in between; except after an
\* update that met an empty slot.  lastGpioValue is global and last_gpi_value
\* the client's: it is the order of the two writes in the CRYPT handler, and of
\* the two in update_tcp_gpis, that keeps a state from being lost.
SentIsTold ==
  pc = "idle" /\ last # Unsent /\ ~ cut =>
    \A s \in Servers : Authenticated(s) => told[s] = last

\* A server that stays authenticated hears of the state the inputs settle in.
EventuallyTold ==
  \A s \in Servers, v \in Inputs :
    <>[](input = v /\ Authenticated(s) /\ ~ cut) => <>[](told[s] = v)
==============================================================================
