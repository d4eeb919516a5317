---------------------------- MODULE ReplyChannel ----------------------------
(***************************************************************************)
(* What a tally connection promises about the lines queued on it: while    *)
(* the connection is open they reach the server one at a time, in the      *)
(* order they were queued, none skipped and none repeated.  Lines are lost *)
(* only once the connection is closed.  The one weakness admitted here is  *)
(* the transmit buffer: a line may reach the wire as Garbage (see          *)
(* TcpClient!WriteCompletes).                                              *)
(***************************************************************************)
EXTENDS Sequences

CONSTANTS Lines,    \* the lines a client may send
          Garbage,  \* what an overwritten transmit buffer holds
          Nothing   \* nothing has been sent on this connection yet

VARIABLES owed,     \* lines accepted for sending, oldest first
          wire,     \* the last line the server received
          open      \* the connection has not been given up

vars == <<owed, wire, open>>

Init == owed = <<>> /\ wire = Nothing /\ open = TRUE

\* A line is accepted; on a closed connection it can only be lost later.
Accept == /\ \E l \in Lines : owed' = Append(owed, l)
          /\ UNCHANGED <<wire, open>>

\* The oldest line reaches the server.
Deliver == /\ owed # <<>>
           /\ wire' \in {Head(owed), Garbage}
           /\ owed' = Tail(owed)
           /\ UNCHANGED open

\* The connection is given up, the line being sent possibly with it.
Close == /\ open /\ ~open'
         /\ owed' = owed \/ (owed # <<>> /\ owed' = Tail(owed))
         /\ UNCHANGED wire

\* A closed connection drops its lines.
Lose == /\ ~open /\ owed # <<>>
        /\ owed' = Tail(owed)
        /\ UNCHANGED <<wire, open>>

\* The next connection starts afresh.
Reopen == owed' = <<>> /\ wire' = Nothing /\ open' = TRUE

Next == Accept \/ Deliver \/ Close \/ Lose \/ Reopen

Spec == Init /\ [][Next]_vars
=============================================================================
