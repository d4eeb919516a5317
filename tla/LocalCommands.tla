---------------------------- MODULE LocalCommands ----------------------------
(***************************************************************************)
(* Commands that come from no server (tally_mode 5): main handles the      *)
(* lines of initial_command_file before the first frame, and DrawFrame     *)
(* handles the commands set for the inputs that have changed since the     *)
(* last one.  Both queue what ClockMsg_Parse makes of a command, and the   *)
(* next frame applies it.  All this is one thread; only the inputs change  *)
(* at any time, also while read_gpi reads them one by one.                 *)
(*                                                                         *)
(* The module's own Init, Next and Spec are prefixed: InputsProofs extends *)
(* GpiFeedback as well.                                                    *)
(***************************************************************************)
EXTENDS Integers, Sequences

CONSTANTS
  Pins,     \* the number of inputs
  Cells,    \* indicators and outputs that commands set
  Texts,    \* what they can be set to
  Nothing,  \* what a cell shows before
  OnCommands, OffCommands,  \* gpi_<n>_on and gpi_<n>_off
  Files     \* what initial_command_file can contain, line after line

\* What ClockMsg_Parse makes of a command: a message that sets a cell; nothing,
\* for an empty or an unknown command (SETGPO of an output that does not exist
\* comes to the same); or an exception, for a SETTALLY with a
\* colour that is no number.
Command == [outcome : {"message", "none", "exception"}, cell : Cells, text : Texts]

ASSUME LocalAssumption ==
  /\ Pins \in Nat \ {0} /\ Nothing \notin Texts
  /\ OnCommands \in [1 .. Pins -> Seq(Command)]
  /\ OffCommands \in [1 .. Pins -> Seq(Command)]
  /\ Files \subseteq Seq(Command)

VARIABLES
  inputs,   \* the levels of the inputs
  lines,    \* the lines of the file that are still to be handled
  phase,    \* "file", "handle", "read", "react" or "terminated"
  gpis,     \* what read_gpi has read, for the pins it has come to
  oldGpis,  \* what the last frame read; nothing on the first pass
  pin, nth, \* the pin, and which of its commands, the loops of DrawFrame are at
  queue,    \* msgQueue
  shown     \* TD.displays, and the outputs

localVars == <<inputs, lines, phase, gpis, oldGpis, pin, nth, queue, shown>>

LocalInit ==
  /\ inputs \in [1 .. Pins -> BOOLEAN]
  /\ lines \in Files /\ phase = "file"
  /\ gpis = <<>> /\ oldGpis = <<>> /\ pin = 1 /\ nth = 1
  /\ queue = <<>> /\ shown = [c \in Cells |-> Nothing]

\* handle_faked_tcp_message, for a command that does not throw
Add(cmd) == queue' = IF cmd.outcome = "message" THEN Append(queue, cmd) ELSE queue

------------------------------------------------------------------------------
(* main *)

\* Mutant of HandleLine: the exception is not caught.
HandleLineUncaught ==
  /\ phase = "file" /\ lines # <<>>
  /\ IF Head(lines).outcome = "exception"
       THEN phase' = "terminated" /\ UNCHANGED <<lines, queue>>
       ELSE lines' = Tail(lines) /\ Add(Head(lines)) /\ UNCHANGED phase
  /\ UNCHANGED <<inputs, gpis, oldGpis, pin, nth, shown>>

\* The exception of a line is caught outside of the loop over the lines: the
\* rest of the file is not looked at.
HandleLine ==
  /\ phase = "file" /\ lines # <<>>
  /\ IF Head(lines).outcome = "exception"
       THEN phase' = "handle" /\ UNCHANGED <<lines, queue>>
       ELSE lines' = Tail(lines) /\ Add(Head(lines)) /\ UNCHANGED phase
  /\ UNCHANGED <<inputs, gpis, oldGpis, pin, nth, shown>>

FileDone ==
  /\ phase = "file" /\ lines = <<>> /\ phase' = "handle"
  /\ UNCHANGED <<inputs, lines, gpis, oldGpis, pin, nth, queue, shown>>

------------------------------------------------------------------------------
(* DrawFrame *)

\* Get takes the whole queue, and HandleClockMessages applies message after
\* message; nothing is queued meanwhile.
HandleMessage ==
  /\ phase = "handle" /\ queue # <<>>
  /\ shown' = [shown EXCEPT ![Head(queue).cell] = Head(queue).text]
  /\ queue' = Tail(queue)
  /\ UNCHANGED <<inputs, lines, phase, gpis, oldGpis, pin, nth>>

MessagesDone ==
  /\ phase = "handle" /\ queue = <<>>
  /\ phase' = "read" /\ gpis' = <<>>
  /\ UNCHANGED <<inputs, lines, oldGpis, pin, nth, queue, shown>>

\* read_gpi asks for one pin after the other, in the order the compiler gave
\* to the operands of |.
ReadPin ==
  /\ phase = "read"
  /\ \E i \in (1 .. Pins) \ DOMAIN gpis :
       gpis' = [j \in DOMAIN gpis \cup {i} |-> IF j = i THEN inputs[i] ELSE gpis[j]]
  /\ phase' = IF DOMAIN gpis' = 1 .. Pins THEN "react" ELSE "read"
  /\ pin' = 1 /\ nth' = 1
  /\ UNCHANGED <<inputs, lines, oldGpis, queue, shown>>

\* Mutant of Changed: the first pass compares with zero.
ChangedFromZero(i) == IF oldGpis = <<>> THEN gpis[i] ELSE gpis[i] # oldGpis[i]

\* On the first pass oldGpis = ~gpis: every input counts as changed.
Changed(i) == oldGpis # <<>> => gpis[i] # oldGpis[i]

\* The commands of an input's new level
CommandsFor(i, level) == IF level THEN OnCommands[i] ELSE OffCommands[i]

\* A command of a changed input is parsed and queued.  Nobody catches its
\* exception.
RunCommand ==
  LET cmds == CommandsFor(pin, gpis[pin]) IN
  /\ phase = "react" /\ pin <= Pins /\ Changed(pin) /\ nth <= Len(cmds)
  /\ IF cmds[nth].outcome = "exception"
       THEN phase' = "terminated" /\ UNCHANGED <<nth, queue>>
       ELSE nth' = nth + 1 /\ Add(cmds[nth]) /\ UNCHANGED phase
  /\ UNCHANGED <<inputs, lines, gpis, oldGpis, pin, shown>>

NextPin ==
  /\ phase = "react" /\ pin <= Pins
  /\ Changed(pin) => nth > Len(CommandsFor(pin, gpis[pin]))
  /\ pin' = pin + 1 /\ nth' = 1
  /\ UNCHANGED <<inputs, lines, phase, gpis, oldGpis, queue, shown>>

\* Mutant of PinsDone: the inputs are read again for the next comparison.
PinsDoneRereads ==
  /\ phase = "react" /\ pin > Pins
  /\ oldGpis' = inputs /\ phase' = "handle"
  /\ UNCHANGED <<inputs, lines, gpis, pin, nth, queue, shown>>

PinsDone ==
  /\ phase = "react" /\ pin > Pins
  /\ oldGpis' = gpis /\ phase' = "handle"
  /\ UNCHANGED <<inputs, lines, gpis, pin, nth, queue, shown>>

------------------------------------------------------------------------------
LevelChanges ==
  /\ \E i \in 1 .. Pins : inputs' = [inputs EXCEPT ![i] = ~@]
  /\ UNCHANGED <<lines, phase, gpis, oldGpis, pin, nth, queue, shown>>

LocalStep ==
  \/ HandleLine \/ FileDone
  \/ HandleMessage \/ MessagesDone \/ ReadPin
  \/ RunCommand \/ NextPin \/ PinsDone

LocalNext == LocalStep \/ LevelChanges

LocalSpec == LocalInit /\ [][LocalNext]_localVars

\* main and the frames go on.
LocalFairSpec == LocalSpec /\ WF_localVars(LocalStep)

------------------------------------------------------------------------------
(* Properties *)

Sets(cmd, c) == cmd.outcome = "message" /\ cmd.cell = c

LeaveAlone(cmds, c) == \A k \in 1 .. Len(cmds) : ~ Sets(cmds[k], c)

\* text is the last that cmds set the cell to.
Leave(cmds, c, text) ==
  \E k \in 1 .. Len(cmds) :
    /\ Sets(cmds[k], c) /\ cmds[k].text = text
    /\ \A l \in k + 1 .. Len(cmds) : ~ Sets(cmds[l], c)

\* What the cell shows once the queue has been handled
WillShow(c, text) ==
  Leave(queue, c, text) \/ (LeaveAlone(queue, c) /\ shown[c] = text)

\* No input but this one sets the cell.
Owns(i, c) ==
  \A j \in (1 .. Pins) \ {i}, level \in BOOLEAN : LeaveAlone(CommandsFor(j, level), c)

\* "commands to be run on GPI state change (and startup state)" (piclock.cfg):
\* with what is queued, an indicator that only one input sets is as the
\* commands of that input's level leave it, for the level it was last read at;
\* in every frame from the first, whatever the file sets.
FollowsInputs ==
  phase \in {"handle", "read"} /\ oldGpis # <<>> =>
    \A i \in 1 .. Pins, c \in Cells, text \in Texts :
      Owns(i, c) /\ Leave(CommandsFor(i, oldGpis[i]), c, text) => WillShow(c, text)

\* No line of the file, however wrong, keeps the clock from running: only a
\* command of an input that has just been read, and had changed, ends it.
FileCannotStop ==
  phase = "terminated" =>
    \E i \in DOMAIN gpis :
      /\ Changed(i)
      /\ \E k \in 1 .. Len(CommandsFor(i, gpis[i])) :
           CommandsFor(i, gpis[i])[k].outcome = "exception"

\* An indicator ends up as the input that sets it, once that stays as it is,
\* even when it bounced while it was read, unless a wrong command has ended
\* the program.
SettledInputsShown ==
  \A i \in 1 .. Pins, c \in Cells, level \in BOOLEAN, text \in Texts :
    Owns(i, c) /\ Leave(CommandsFor(i, level), c, text) =>
      (<>[](inputs[i] = level) => <>[](phase = "terminated" \/ shown[c] = text))
=============================================================================
