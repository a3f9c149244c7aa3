--------------------------- MODULE CommandChannel ---------------------------
(***************************************************************************)
(* The commands that clients send to the daemon (src/client.c,             *)
(* src/lib/socket.c, src/lib/socket_handler.c, exit_client of              *)
(* src/lib/signal_handler.c).                                              *)
(*                                                                         *)
(* A client makes one request per connection and waits for the answer.  A  *)
(* signal makes it ask for the deletion of its port, on top of whatever it *)
(* is doing, and exit: the request it was making is never resumed, and its *)
(* connection stays open until the process is gone.  The daemon serves one *)
(* connection at a time, in the order of their arrival, until the client   *)
(* closes it or nothing arrives for a second: a connection inherits the    *)
(* timeout that was set for accept.  It is set after listen, and           *)
(* connections that were made in between have none.                        *)
(*                                                                         *)
(* A command is executed as a whole, and answered with "OK" whether or not *)
(* a call in it failed.                                                    *)
(*                                                                         *)
(* Every client has a name of its own, and the port it asks for bears it.  *)
(***************************************************************************)
EXTENDS Integers, Sequences, Functions

CONSTANTS
  Clients,   \* the clients, and their ports
  BACKLOG,   \* how many connections wait to be accepted
  SIGNALS    \* how many signals the clients are sent

ASSUME ChannelAssumption == BACKLOG \in Nat \ {0} /\ SIGNALS \in Nat

VARIABLES
  stage,      \* stage[c]: how far client c has come
  requests,   \* requests[c]: what c has asked for, the request at hand last
  signals,    \* signals[c]: how many signals c was sent
  backlog,    \* the connections that wait to be accepted
  server,     \* where the socket thread of the daemon is
  serving,    \* the connection it serves
  flag,       \* the global_exit_flag of the daemon
  ports       \* the ports whose veth pair exists

vars == <<stage, requests, signals, backlog, server, serving, flag, ports>>
clientVars == <<stage, signals>>
serverVars == <<backlog, server, serving, flag, ports>>

None == <<>>
Ops == {"create_port", "get_phy_if", "delete_port"}

\* A request, and the connection it is made on: where the client is, what
\* became of the command, whether it was answered, the daemon's end and whether
\* that has a timeout.
Request(op) ==
  [op |-> op, step |-> "connect", data |-> "none", answered |-> FALSE, peer |-> "none",
   timed |-> FALSE]

Init ==
  /\ stage = [c \in Clients |-> "requesting"]
  /\ requests = [c \in Clients |-> <<Request("create_port")>>]
  /\ signals = [c \in Clients |-> 0]
  /\ backlog = <<>>
  /\ server = "bind" /\ serving = None /\ flag = 0
  /\ ports = {}

Over(c) == stage[c] \in {"exited", "failed"}

Last(c) == Len(requests[c])
Now(c) == requests[c][Last(c)]
At(c, step) == ~Over(c) /\ Now(c).step = step
Become(c, r) == requests' = [requests EXCEPT ![c][Last(c)] = r]

\* The listening socket takes connections; the timeout is set on it.
Listening == server \notin {"bind", "ended"}
TimeoutSet == Listening /\ server # "listen"

-----------------------------------------------------------------------------
(* The client.                                                             *)

\* Mutant of Connect: every connection gets a place in the backlog.
ConnectAlways(c) ==
  /\ At(c, "connect")
  /\ Listening
  /\ Become(c, [Now(c) EXCEPT !.step = "write", !.peer = "backlog", !.timed = TimeoutSet])
  /\ backlog' = Append(backlog, <<c, Last(c)>>)
  /\ UNCHANGED <<clientVars, server, serving, flag, ports>>

\* socket_connect.  When the backlog is full the kernel tries again.
Connect(c) ==
  /\ At(c, "connect")
  /\ Listening
  /\ Len(backlog) < BACKLOG
  /\ Become(c, [Now(c) EXCEPT !.step = "write", !.peer = "backlog", !.timed = TimeoutSet])
  /\ backlog' = Append(backlog, <<c, Last(c)>>)
  /\ UNCHANGED <<clientVars, server, serving, flag, ports>>

\* The write of socket_write_with_timeout.  A command that is written when the
\* daemon has closed its end is lost without an error.
Write(c) ==
  /\ At(c, "write")
  /\ Now(c).peer # "reset"
  /\ Become(c, [Now(c) EXCEPT !.step = "read",
                              !.data = IF Now(c).peer = "closed" THEN "lost" ELSE "sent"])
  /\ UNCHANGED <<clientVars, serverVars>>

\* Mutant of MayProceed: the client does not read an answer.
ProceedsAtOnce(c) == TRUE

\* The read of socket_write_with_timeout returns: with the answer, or with
\* nothing when the daemon has closed its end, which passes for an answer.
MayProceed(c) == Now(c).answered \/ Now(c).peer = "closed"

\* The answer is read and the connection closed; what the client does next.
Proceed(c) ==
  /\ At(c, "read")
  /\ MayProceed(c)
  /\ LET done == [requests EXCEPT ![c][Last(c)] =
                   [@ EXCEPT !.step = "done", !.answered = FALSE, !.peer = "closed",
                             !.timed = FALSE]]
     IN  \/ /\ Now(c).op = "create_port"
            /\ requests' = [done EXCEPT ![c] = Append(@, Request("get_phy_if"))]
            /\ UNCHANGED stage
         \/ /\ Now(c).op = "get_phy_if"
            /\ requests' = done
            /\ stage' = [stage EXCEPT ![c] = "setup"]
         \/ /\ Now(c).op = "delete_port"
            /\ requests' = done
            /\ stage' = [stage EXCEPT ![c] = "exited"]
  /\ UNCHANGED <<signals, serverVars>>

\* The sockets are set up.  Without a raw socket to send on, rx_and_process
\* returns at once, and main asks for the deletion of the port itself.
Run(c) ==
  /\ stage[c] = "setup" /\ Now(c).step = "done"
  /\ \/ stage' = [stage EXCEPT ![c] = "running"] /\ UNCHANGED requests
     \/ requests' = [requests EXCEPT ![c] = Append(@, Request("delete_port"))] /\ UNCHANGED stage
  /\ UNCHANGED <<signals, serverVars>>

\* exit(EXIT_FAILURE): there is no daemon to connect to, the connection is
\* reset, or the sockets cannot be set up.  Nobody deletes the port.
Fail(c) ==
  /\ \/ At(c, "connect") /\ ~Listening
     \/ At(c, "write") /\ Now(c).peer = "reset"
     \/ At(c, "read") /\ ~Now(c).answered
          /\ (Now(c).peer = "reset" \/ Now(c).data = "lost")
     \/ stage[c] = "setup" /\ Now(c).step = "done"
  /\ stage' = [stage EXCEPT ![c] = "failed"]
  /\ UNCHANGED <<requests, signals, serverVars>>

\* exit_client, run by the handler of SIGINT or SIGTERM; each masks its own
\* signal only.
Signal(c) ==
  /\ ~Over(c)
  /\ signals[c] < 2
  /\ FoldFunction(+, 0, signals) < SIGNALS
  /\ signals' = [signals EXCEPT ![c] = @ + 1]
  /\ requests' = [requests EXCEPT ![c] = Append(@, Request("delete_port"))]
  /\ UNCHANGED <<stage, serverVars>>

ClientStep(c) == Connect(c) \/ Write(c) \/ Proceed(c) \/ Run(c) \/ Fail(c)

-----------------------------------------------------------------------------
(* The socket thread of the daemon.                                        *)

Served == requests[serving[1]][serving[2]]
BecomeServed(r) == requests' = [requests EXCEPT ![serving[1]][serving[2]] = r]
ClientClosed == Served.step = "done" \/ Over(serving[1])

\* The socket is bound and listens.
Listen ==
  /\ server = "bind"
  /\ server' = "listen"
  /\ UNCHANGED <<clientVars, requests, backlog, serving, flag, ports>>

\* SO_RCVTIMEO is set for accept and for the connections made from now on.
SetTimeout ==
  /\ server = "listen"
  /\ server' = "check"
  /\ UNCHANGED <<clientVars, requests, backlog, serving, flag, ports>>

\* Mutant of CheckFlag: the listening socket stays open when the loop is left.
CheckFlagKeeps ==
  /\ server = "check"
  /\ server' = IF flag = 0 THEN "accept" ELSE "ended"
  /\ UNCHANGED <<clientVars, requests, backlog, serving, flag, ports>>

\* The connections that wait to be accepted are reset.
BacklogReset ==
  [c \in Clients |-> [n \in DOMAIN requests[c] |->
     IF requests[c][n].peer = "backlog"
       THEN [requests[c][n] EXCEPT !.peer = "reset"] ELSE requests[c][n]]]

\* The loop tests the flag; behind it the listening socket is closed, and with
\* it every connection that waits.
CheckFlag ==
  /\ server = "check"
  /\ \/ flag = 0 /\ server' = "accept" /\ UNCHANGED <<requests, backlog>>
     \/ flag = 1 /\ server' = "ended" /\ requests' = BacklogReset /\ backlog' = <<>>
  /\ UNCHANGED <<clientVars, serving, flag, ports>>

\* SO_RCVTIMEO: accept gives up after a second.
AcceptTimeout ==
  /\ server = "accept"
  /\ backlog = <<>>
  /\ server' = "check"
  /\ UNCHANGED <<clientVars, requests, backlog, serving, flag, ports>>

Accept ==
  /\ server = "accept"
  /\ backlog # <<>>
  /\ LET c == Head(backlog)[1]
         n == Head(backlog)[2]
     IN  requests' = [requests EXCEPT ![c][n].peer = "open"]
  /\ serving' = Head(backlog)
  /\ backlog' = Tail(backlog)
  /\ server' = "read"
  /\ UNCHANGED <<clientVars, flag, ports>>

\* What a command makes of the ports when every call in it succeeds.
Executed(op, c) ==
  CASE op = "create_port" -> ports \cup {c}
    [] op = "delete_port" -> ports \ {c}
    [] op = "get_phy_if"  -> ports

\* handle_client reads a command and executes it, be the client there or not.  A
\* call of create_port or delete_port that fails, the script or another one, is
\* logged.
ReadCommand ==
  /\ server = "read"
  /\ Served.data = "sent"
  /\ \/ /\ BecomeServed([Served EXCEPT !.data = "taken"])
        /\ ports' = Executed(Served.op, serving[1])
     \/ /\ Served.op # "get_phy_if"
        /\ BecomeServed([Served EXCEPT !.data = "failed"])
        /\ ports' \in {ports, Executed(Served.op, serving[1])}
  /\ server' = "write"
  /\ UNCHANGED <<clientVars, backlog, serving, flag>>

\* The answer is "OK" in any case.
WriteAnswer ==
  /\ server = "write"
  /\ BecomeServed([Served EXCEPT !.answered = ~ClientClosed])
  /\ server' = "read"
  /\ UNCHANGED <<clientVars, backlog, serving, flag, ports>>

\* read finds the connection closed by the client.
ReadEnd ==
  /\ server = "read"
  /\ Served.data # "sent"
  /\ ClientClosed
  /\ server' = "close"
  /\ UNCHANGED <<clientVars, requests, backlog, serving, flag, ports>>

\* Mutant of ReadTimeout: an accepted socket has no timeout.
ReadWaits == FALSE /\ UNCHANGED vars

\* The inherited SO_RCVTIMEO: nothing was read for a second.
ReadTimeout ==
  /\ server = "read"
  /\ Served.timed
  /\ Served.data # "sent"
  /\ ~ClientClosed
  /\ server' = "close"
  /\ UNCHANGED <<clientVars, requests, backlog, serving, flag, ports>>

\* The thread waits for a client that neither writes nor closes a connection made
\* before the timeout was set; a client that waits behind it waits with it.
Stuck == server = "read" /\ Served.data # "sent" /\ ~ClientClosed /\ ~Served.timed
ReadBlocks == Stuck /\ UNCHANGED vars

\* The connection is closed; a command that has arrived meanwhile resets it.
Close ==
  /\ server = "close"
  /\ BecomeServed([Served EXCEPT !.peer = IF Served.data = "sent" THEN "reset" ELSE "closed",
                                 !.timed = FALSE])
  /\ serving' = None
  /\ server' = "check"
  /\ UNCHANGED <<clientVars, backlog, flag, ports>>

ServerStep ==
  \/ Listen \/ SetTimeout \/ CheckFlag \/ AcceptTimeout \/ Accept
  \/ ReadCommand \/ WriteAnswer \/ ReadEnd \/ ReadTimeout \/ Close

\* The daemon is told to stop.
Stop ==
  /\ flag = 0
  /\ flag' = 1
  /\ UNCHANGED <<clientVars, requests, backlog, server, serving, ports>>

\* The daemon has stopped and no client has anything left to do.
Finished ==
  /\ server = "ended"
  /\ \A c \in Clients : Over(c) \/ stage[c] = "running"
  /\ UNCHANGED vars

Next == (\E c \in Clients : ClientStep(c) \/ Signal(c)) \/ ServerStep \/ ReadBlocks \/ Stop
          \/ Finished

Spec == Init /\ [][Next]_vars

\* The scheduler runs the socket thread and every client; signals are not owed.
FairSpec == Spec /\ WF_vars(ServerStep) /\ \A c \in Clients : WF_vars(ClientStep(c))

-----------------------------------------------------------------------------
(* Properties.                                                             *)

RequestType ==
  [op : Ops, step : {"connect", "write", "read", "done"},
   data : {"none", "sent", "lost", "taken", "failed"}, answered : BOOLEAN,
   peer : {"none", "backlog", "open", "closed", "reset"}, timed : BOOLEAN]

Connections == Clients \X (1 .. 5)

\* The type of every variable.
TypeOK ==
  /\ stage \in [Clients -> {"requesting", "setup", "running", "exited", "failed"}]
  /\ requests \in [Clients -> Seq(RequestType)]
  /\ signals \in [Clients -> 0 .. 2]
  /\ backlog \in Seq(Connections) /\ Len(backlog) <= BACKLOG
  /\ server \in {"bind", "listen", "check", "accept", "read", "write", "close", "ended"}
  /\ serving \in {None} \cup Connections
  /\ flag \in {0, 1}
  /\ ports \subseteq Clients

\* The answer says nothing about the command: it was written too late, to a
\* connection that had timed out, or a call in it failed.
Missed(r) == r.data \in {"lost", "failed"}

\* A client goes on only when its port was created, unless its create_port was
\* missed; and the port stays until the client asks for its deletion.
PortBeforeUse ==
  \A c \in Clients :
    /\ stage[c] \in {"setup", "running"} /\ Now(c).op # "delete_port"
    /\ ~Missed(requests[c][1])
    => c \in ports

\* A client that is stopped by a signal, at whatever point, has no port left
\* when it exits, unless the deletion it exits on was missed: a create_port that
\* it did not wait for was executed before the deletion.
ExitRemovesPort ==
  \A c \in Clients : stage[c] = "exited" /\ ~Missed(Now(c)) => c \notin ports

\* A client that was sent a signal ends, although it waits for the answer on
\* one connection and holds another one open that the daemon may be serving;
\* unless the daemon is stuck with a connection that has no timeout.
SignalledClientEnds ==
  \A c \in Clients : (signals[c] > 0 ~> Over(c)) \/ <>[]Stuck

\* No client waits for ever for an answer, even if the daemon stops, unless the
\* daemon is stuck with a connection that has no timeout.
AnswerOrError ==
  \A c \in Clients : (stage[c] = "requesting" ~> stage[c] # "requesting") \/ <>[]Stuck

\* The socket thread ends once the flag is set, whenever the clients of this
\* project are stopped and however they are timed, unless it is stuck with a
\* connection that has no timeout.  (They send one command on a connection; one
\* that kept sending would keep handle_client from looking at the flag.)
FlagStopsServer == (flag = 1 ~> server = "ended") \/ <>[]Stuck

\* "Waiting for socket thread to exit": the thread that exit_daemon joins exits.
SocketThreadExits == flag = 1 ~> server = "ended"
=============================================================================
