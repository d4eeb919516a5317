---------------------------- MODULE MCTcpClient ----------------------------
\* TcpClient on small instances.
EXTENDS TcpClient

\* A line that is answered and marks the session as good, and one that makes
\* handle_tcp_message throw.  A PING differs from a COMMAND in nothing but the
\* text of the reply, a CRYPT in not setting the comms flag.
NormalLines == {"COMMAND", "MALFORMED"}
OneKind == {"COMMAND"}
=============================================================================
