------------------------------- MODULE Connection -------------------------------
(***************************************************************************)
(* How the processes get connected (src/util/connection.cpp) and what they *)
(* can do with a socket (src/util/socket.h).                               *)
(*                                                                         *)
(* A connection is named <<p, k>> by the process that opened it and how    *)
(* many that process had opened before.  Its ends are <<c, "client">> and  *)
(* <<c, "server">>, and inbox[e] is what was sent to the end e and not yet *)
(* received.  TCP itself is external: reliable and in order, and the end   *)
(* of a process closes its sockets.  All connections go to one port, which *)
(* one process listens on; its queue is never full here.                   *)
(***************************************************************************)
EXTENDS Integers, Sequences, SequencesExt

CONSTANTS
  Process,         \* the processes
  NoProcess,       \* nobody
  NoSocket,        \* INVALID_SOCKET
  MaxSockets,      \* bound of the connections of a process
  RETRY_CONNECT    \* attempts of connect

ASSUME ConnectionOK ==
  /\ IsFiniteSet(Process) /\ NoProcess \notin Process
  /\ NoSocket \notin (Process \X Nat) \X {"client", "server"}
  /\ MaxSockets \in Nat \ {0}
  /\ RETRY_CONNECT \in Nat \ {0}

VARIABLES
  sockets,     \* sockets[p]: the vector sockfd of p, as far as it is filled
  tries,       \* tries[p]: loop variable i of connect
  listener,    \* who listens on the port
  backlog,     \* connections that nobody has accepted
  inbox,       \* inbox[e]: messages on their way to the end e
  exited       \* the processes that have ended

netVars == <<sockets, tries, listener, backlog, inbox, exited>>

Conn == Process \X (0 .. MaxSockets - 1)

End == Conn \X {"client", "server"}

Peer(e) == <<e[1], IF e[2] = "client" THEN "server" ELSE "client">>

(* The process that holds the other end, or whose queue it is in. *)
PeerOf(e) == IF e[2] = "client" THEN listener ELSE e[1][1]

NetInit ==
  /\ sockets = [p \in Process |-> <<>>]
  /\ tries = [p \in Process |-> 0]
  /\ listener = NoProcess
  /\ backlog = <<>>
  /\ inbox = [e \in End |-> <<>>]
  /\ exited = {}

NetTypeOK(Message) ==
  /\ \A p \in Process : sockets[p] \in Seq(End \cup {NoSocket}) /\ Len(sockets[p]) <= MaxSockets
  /\ tries \in [Process -> 0 .. RETRY_CONNECT - 1]
  /\ listener \in Process \cup {NoProcess}
  /\ backlog \in Seq(Conn)
  /\ DOMAIN inbox = End /\ \A e \in End : inbox[e] \in Seq(Message)
  /\ exited \subseteq Process

Listening == listener \in Process \ exited

(* connect of p succeeds as soon as somebody listens, whether or not he ever accepts. *)
ConnectSucceeds(p) ==
  LET c == <<p, Len(sockets[p])>> IN
  /\ Listening
  /\ sockets' = [sockets EXCEPT ![p] = Append(@, <<c, "client">>)]
  /\ backlog' = Append(backlog, c)
  /\ tries' = [tries EXCEPT ![p] = 0]
  /\ UNCHANGED <<listener, inbox, exited>>

(* Otherwise the socket is closed, and after RETRY_CONNECT attempts it stays so: connect
   returns false, which nobody looks at. *)
ConnectFails(p) ==
  /\ ~Listening
  /\ IF tries[p] < RETRY_CONNECT - 1
       THEN /\ tries' = [tries EXCEPT ![p] = @ + 1]
            /\ UNCHANGED sockets
       ELSE /\ tries' = [tries EXCEPT ![p] = 0]
            /\ sockets' = [sockets EXCEPT ![p] = Append(@, NoSocket)]
  /\ UNCHANGED <<listener, backlog, inbox, exited>>

(* Socket, Bind and Listen of listen: p gets the port. *)
Bind(p) ==
  /\ listener = NoProcess
  /\ listener' = p
  /\ UNCHANGED <<sockets, tries, backlog, inbox, exited>>

(* Another process has the port: listen returns false, which nobody looks at. *)
BindFails(p, n) ==
  /\ listener # NoProcess
  /\ sockets' = [sockets EXCEPT ![p] = [i \in 1 .. n |-> NoSocket]]
  /\ UNCHANGED <<tries, listener, backlog, inbox, exited>>

Oldest == 1

Youngest == Len(backlog)

(* The place in the queue that accept serves. *)
Accepted == Oldest

(* One round of listen: the accepted connection goes to the next place of sockfds.  The
   last place held the listening socket, which stays open without a name. *)
AcceptNext(p) ==
  /\ listener = p
  /\ backlog # <<>>
  /\ sockets' = [sockets EXCEPT ![p] = Append(@, <<backlog[Accepted], "server">>)]
  /\ backlog' = RemoveAt(backlog, Accepted)
  /\ UNCHANGED <<tries, listener, inbox, exited>>

Closed(e) == e # NoSocket => PeerOf(e) \in exited

(* The inbox after Send of m over e: without a partner m is lost. *)
Sent(e, m) == IF Closed(e) THEN inbox ELSE [inbox EXCEPT ![Peer(e)] = Append(@, m)]

(* Receive over e gets a message, or returns without one: the partner is gone. *)
Gets(e) == e # NoSocket /\ inbox[e] # <<>>

GetsNothingUnconnected(e) == e = NoSocket

GetsNothing(e) == Closed(e) /\ ~Gets(e)

================================================================================
