------------------------------- MODULE Daemon -------------------------------
(***************************************************************************)
(* The daemon (src/daemon.c, src/lib/signal_handler.c, src/lib/socket.c):  *)
(* the main thread loads the program of the physical interface and then    *)
(* sleeps, the socket thread executes the commands of the clients one      *)
(* after the other, and a signal runs exit_daemon on top of whatever the   *)
(* thread that takes it is doing.  The ports are those of module Ports.    *)
(*                                                                         *)
(* The daemon may be killed and started again.  Interfaces, programs and   *)
(* pinned maps outlive it; its table does not.                             *)
(***************************************************************************)
EXTENDS Ports

CONSTANTS
  COMMANDS,   \* how many commands the clients send
  SIGNALS,    \* how many signals are sent
  CRASHES     \* how often the daemon is killed

ASSUME DaemonAssumption ==
  /\ Threads = {"main", "socket"}
  /\ COMMANDS \in Nat /\ SIGNALS \in Nat /\ CRASHES \in Nat

VARIABLES
  proc,       \* whether the daemon runs, has exited or was aborted
  life,       \* how often it was started
  main,       \* where the main thread is
  socket,     \* where the socket thread is
  flag,       \* global_exit_flag
  handlers,   \* handlers[t]: the signal handlers on the stack of thread t
  joining,    \* whether a thread has called pthread_join for the socket thread
  sent        \* how many commands, signals and kills there were

threadVars == <<main, socket, flag, handlers, joining>>
vars == <<portVars, proc, life, threadVars, sent>>

Signals == {"SIGINT", "SIGTERM"}

Init ==
  /\ PortsInit
  /\ proc = "up" /\ life = 1
  /\ main = "spawn" /\ socket = "none"
  /\ flag = 0
  /\ handlers = [t \in Threads |-> <<>>]
  /\ joining = FALSE
  /\ sent = [commands |-> 0, signals |-> 0, crashes |-> 0]

\* A thread is in no signal handler, or at a stage of the innermost one.
Undisturbed(t) == proc = "up" /\ handlers[t] = <<>>
Stage(t) == IF handlers[t] = <<>> THEN "none" ELSE handlers[t][Len(handlers[t])].stage
InHandler(t, stage) == proc = "up" /\ Stage(t) = stage
NextStage(t, stage) ==
  handlers' = [handlers EXCEPT ![t][Len(handlers[t])].stage = stage]

-----------------------------------------------------------------------------
(* The main thread.                                                        *)

Spawn ==
  /\ Undisturbed("main") /\ main = "spawn"
  /\ main' = "attach"
  /\ socket' = "bind"
  /\ UNCHANGED <<portVars, proc, life, flag, handlers, joining, sent>>

\* load_xdp_and_attach_to_ifname on the device.  The program goes behind those
\* that an earlier life has left there.  What fails is logged.
AttachPhy ==
  /\ Undisturbed("main") /\ main = "attach"
  /\ \/ phy' = Append(phy, life) /\ main' = "unpin" /\ UNCHANGED faults
     \/ UNCHANGED phy /\ main' = "wait" /\ Fault
  /\ UNCHANGED <<job, veths, links, xdp, devpin, devmap, strays, proc, life,
                 socket, flag, handlers, joining, sent>>

\* Mutant of UnpinOld: a pin that is there already is left alone.
UnpinOldKeeps ==
  /\ Undisturbed("main") /\ main = "unpin"
  /\ main' = IF devpin = 0 THEN "pin" ELSE "wait"
  /\ UNCHANGED <<portVars, proc, life, socket, flag, handlers, joining, sent>>

\* pin_maps_in_bpf_object: a devmap that is pinned already is unpinned first.
UnpinOld ==
  /\ Undisturbed("main") /\ main = "unpin"
  /\ \/ devpin' = 0 /\ main' = "pin" /\ UNCHANGED faults
     \/ devpin # 0 /\ UNCHANGED devpin /\ main' = "wait" /\ Fault
  /\ UNCHANGED <<job, veths, links, xdp, phy, devmap, strays, proc, life,
                 socket, flag, handlers, joining, sent>>

\* Mutant of PinNew: a program whose maps cannot be pinned is attached again.
PinNewRetries ==
  /\ Undisturbed("main") /\ main = "pin"
  /\ \/ devpin' = life /\ main' = "wait" /\ UNCHANGED faults
     \/ UNCHANGED devpin /\ main' = "attach" /\ Fault
  /\ UNCHANGED <<job, veths, links, xdp, phy, devmap, strays, proc, life,
                 socket, flag, handlers, joining, sent>>

\* All maps of the program are pinned.
PinNew ==
  /\ Undisturbed("main") /\ main = "pin"
  /\ main' = "wait"
  /\ \/ devpin' = life /\ UNCHANGED faults
     \/ UNCHANGED devpin /\ Fault
  /\ UNCHANGED <<job, veths, links, xdp, phy, devmap, strays, proc, life,
                 socket, flag, handlers, joining, sent>>

\* The loop of main sleeps, even if the socket thread has given up.
Sleep ==
  /\ Undisturbed("main") /\ main = "wait"
  /\ flag = 0
  /\ UNCHANGED vars

-----------------------------------------------------------------------------
(* The socket thread.                                                      *)

\* The listening socket is made, bound and given its timeout, in one step:
\* clients are commands here, each of them one exchange.  What a connection made
\* before the timeout was set does to the thread is in module CommandChannel.
Bind ==
  /\ Undisturbed("socket") /\ socket = "bind"
  /\ socket' = "check"
  /\ UNCHANGED <<portVars, proc, life, main, flag, handlers, joining, sent>>

\* The loop of socket_server_thread_func tests the flag before it accepts.
CheckFlag ==
  /\ Undisturbed("socket") /\ socket = "check"
  /\ socket' = IF flag = 0 THEN "accept" ELSE "ended"
  /\ UNCHANGED <<portVars, proc, life, main, flag, handlers, joining, sent>>

\* Mutant of AcceptTimeout: without SO_RCVTIMEO accept waits for a client.
AcceptWaits == FALSE /\ UNCHANGED vars

\* SO_RCVTIMEO: accept gives up after a second.
AcceptTimeout ==
  /\ Undisturbed("socket") /\ socket = "accept"
  /\ socket' = "check"
  /\ UNCHANGED <<portVars, proc, life, main, flag, handlers, joining, sent>>

\* Any other error of accept ends the loop.
AcceptFails ==
  /\ Undisturbed("socket") /\ socket = "accept"
  /\ Fault
  /\ socket' = "ended"
  /\ UNCHANGED <<job, veths, links, xdp, phy, devpin, devmap, strays, proc, life,
                 main, flag, handlers, joining, sent>>

\* handle_client reads a command; it answers "OK" in any case.
Accept(op, p) ==
  /\ Undisturbed("socket") /\ socket = "accept"
  /\ sent.commands < COMMANDS
  /\ sent' = [sent EXCEPT !.commands = @ + 1]
  /\ Start("socket", op, p)
  /\ socket' = "command"
  /\ UNCHANGED <<veths, links, xdp, phy, devpin, devmap, strays, faults, proc, life,
                 main, flag, handlers, joining>>

Answer ==
  /\ Undisturbed("socket") /\ socket = "command"
  /\ job["socket"] = NoJob
  /\ socket' = "check"
  /\ UNCHANGED <<portVars, proc, life, main, flag, handlers, joining, sent>>

-----------------------------------------------------------------------------
(* Signals.                                                                *)

\* signal() keeps a signal masked while its handler runs.
Masked(t, sig) == \E n \in DOMAIN handlers[t] : handlers[t][n].sig = sig

\* Linux gives a signal of the process to the main thread if that can take it,
\* and to another thread only when the main thread has one to handle already.
MayTake(t, sig) ==
  /\ ~Masked(t, sig)
  /\ t = "socket" => socket \notin {"none", "ended"} /\ handlers["main"] # <<>>

\* The handler starts: exit_daemon sets the flag.  The command that the thread
\* was executing is never resumed, since exit_daemon does not return.
Signal(t, sig) ==
  /\ proc = "up"
  /\ sent.signals < SIGNALS
  /\ MayTake(t, sig)
  /\ sent' = [sent EXCEPT !.signals = @ + 1]
  /\ handlers' = [handlers EXCEPT ![t] = Append(@, [sig |-> sig, stage |-> "join"])]
  /\ flag' = 1
  /\ job' = [job EXCEPT ![t] = NoJob]
  /\ UNCHANGED <<veths, links, xdp, phy, devpin, devmap, strays, faults, proc, life,
                 main, socket, joining>>

\* system() makes the whole process ignore SIGINT while a script runs.
SignalIgnored ==
  /\ proc = "up"
  /\ sent.signals < SIGNALS
  /\ \E t \in Threads : At(t, "script") \/ At(t, "unlink")
  /\ sent' = [sent EXCEPT !.signals = @ + 1]
  /\ UNCHANGED <<portVars, proc, life, threadVars>>

\* pthread_join by the socket thread itself fails with EDEADLK, a second call,
\* from a handler on top of one that waits, with EINVAL.
JoinReturns(t) == t = "socket" \/ joining \/ socket = "ended"

\* Before the socket thread is created pthread_join is given no thread at all.
JoinNothing ==
  /\ InHandler("main", "join")
  /\ socket = "none"
  /\ proc' = "aborted"
  /\ UNCHANGED <<portVars, life, threadVars, sent>>

\* Mutant of Join: exit_daemon does not wait for the socket thread.
JoinSkipped(t) ==
  /\ InHandler(t, "join")
  /\ socket # "none"
  /\ NextStage(t, "unload")
  /\ UNCHANGED <<portVars, proc, life, main, socket, flag, joining, sent>>

\* pthread_join, whose result is not looked at.
Join(t) ==
  /\ InHandler(t, "join")
  /\ socket # "none"
  /\ NextStage(t, IF JoinReturns(t) THEN "unload" ELSE "joining")
  /\ joining' = (joining \/ t = "main")
  /\ UNCHANGED <<portVars, proc, life, main, socket, flag, sent>>

Joined ==
  /\ InHandler("main", "joining")
  /\ socket = "ended"
  /\ NextStage("main", "unload")
  /\ UNCHANGED <<portVars, proc, life, main, socket, flag, joining, sent>>

\* unload_xdp_from_ifname on the device detaches every program there is.
UnloadPhy(t) ==
  /\ InHandler(t, "unload")
  /\ \/ phy' = <<>> /\ UNCHANGED faults
     \/ phy # <<>> /\ UNCHANGED phy /\ Fault
  /\ NextStage(t, "list")
  /\ UNCHANGED <<job, veths, links, xdp, devpin, devmap, strays, proc, life,
                 main, socket, flag, joining, sent>>

\* unload_list deletes the ports of the table one by one, then exit.
UnloadNext(t) ==
  /\ InHandler(t, "list")
  /\ veths # <<>>
  /\ Start(t, "delete", Head(veths))
  /\ UNCHANGED <<veths, links, xdp, phy, devpin, devmap, strays, faults, proc, life,
                 threadVars, sent>>

\* Mutant of Exit: exit_daemon returns to what the signal interrupted.
ExitReturns(t) ==
  /\ InHandler(t, "list")
  /\ veths = <<>>
  /\ job[t] = NoJob
  /\ handlers' = [handlers EXCEPT ![t] = SubSeq(@, 1, Len(@) - 1)]
  /\ UNCHANGED <<portVars, proc, life, main, socket, flag, joining, sent>>

Exit(t) ==
  /\ InHandler(t, "list")
  /\ veths = <<>>
  /\ job[t] = NoJob
  /\ proc' = "exited"
  /\ UNCHANGED <<portVars, life, threadVars, sent>>

-----------------------------------------------------------------------------
(* Commands, crashes and restarts.                                         *)

\* A step of the command that a thread executes.
Execute(t) ==
  /\ proc = "up"
  /\ \/ t = "socket" /\ handlers[t] = <<>>
     \/ Stage(t) = "list"
  /\ Work(t)
  /\ UNCHANGED <<proc, life, threadVars, sent>>

\* The errors on which the daemon exits where it is: no thread can be created,
\* no program loaded (in the main thread or in a command), the socket not bound,
\* no memory for the buckets of the table, the answer not written.
Quit ==
  /\ \/ Undisturbed("main") /\ main \in {"spawn", "attach"}
     \/ Undisturbed("socket") /\ socket = "bind"
     \/ Undisturbed("socket") /\ job["socket"].step \in {"add", "outer", "inner"}
     \/ Undisturbed("socket") /\ socket = "command" /\ job["socket"] = NoJob
  /\ Fault
  /\ proc' = "aborted"
  /\ UNCHANGED <<job, veths, links, xdp, phy, devpin, devmap, strays, life, threadVars, sent>>

\* The daemon is killed.
Crash ==
  /\ proc = "up"
  /\ sent.crashes < CRASHES
  /\ sent' = [sent EXCEPT !.crashes = @ + 1]
  /\ proc' = "aborted"
  /\ UNCHANGED <<portVars, life, threadVars>>

Restart ==
  /\ proc # "up"
  /\ life < LIVES
  /\ life' = life + 1
  /\ proc' = "up"
  /\ strays' = links
  /\ job' = [t \in Threads |-> NoJob]
  /\ veths' = <<>>
  /\ main' = "spawn" /\ socket' = "none"
  /\ flag' = 0
  /\ handlers' = [t \in Threads |-> <<>>]
  /\ joining' = FALSE
  /\ UNCHANGED <<links, xdp, phy, devpin, devmap, faults, sent>>

\* The last life is over.
Over == proc # "up" /\ life = LIVES /\ UNCHANGED vars

MainThread == Spawn \/ AttachPhy \/ UnpinOld \/ PinNew \/ Sleep \/ JoinNothing \/ Joined
                \/ Join("main") \/ UnloadPhy("main") \/ UnloadNext("main")
                \/ Execute("main") \/ Exit("main")

SocketThread == Bind \/ CheckFlag \/ AcceptTimeout \/ Answer \/ Execute("socket")
                  \/ Join("socket") \/ UnloadPhy("socket") \/ UnloadNext("socket")
                  \/ Exit("socket")

Environment ==
  \/ \E op \in {"create", "delete"}, p \in Prefixes : Accept(op, p)
  \/ \E t \in Threads, sig \in Signals : Signal(t, sig)
  \/ SignalIgnored \/ AcceptFails \/ Quit \/ Crash \/ Restart

Next == MainThread \/ SocketThread \/ Environment \/ Over

Spec == Init /\ [][Next]_vars

\* The scheduler runs each thread; clients, signals and faults are not owed.
FairSpec == Spec /\ WF_vars(MainThread) /\ WF_vars(SocketThread)

-----------------------------------------------------------------------------
(* Properties.                                                             *)

\* The type of every variable; each life attaches one program to the device.
TypeOK ==
  /\ PortsTypeOK
  /\ proc \in {"up", "exited", "aborted"}
  /\ life \in Lives /\ Len(phy) <= life
  /\ main \in {"spawn", "attach", "unpin", "pin", "wait"}
  /\ socket \in {"none", "bind", "check", "accept", "command", "ended"}
  /\ flag \in {0, 1}
  /\ handlers \in [Threads -> Seq([sig : Signals, stage : {"join", "joining", "unload", "list"}])]
  /\ joining \in BOOLEAN

Deleting(p) == \E t \in Threads : job[t].op = "delete" /\ job[t].prefix = p

\* create_port and delete_port, whatever else fails in them: a pair that this
\* daemon made, and had the memory to remember, is in its table or is being
\* deleted, so that unload_list will find it.
LinksAreKnown ==
  proc = "up" => \A p \in links \ strays : p \in Range(veths) \/ Deleting(p)

\* exit_daemon leaves nothing behind: no pair that this daemon made, remembered
\* and could delete, and, unless a call failed, no program on the device, be it
\* that of an earlier daemon.
CleanExit == proc = "exited" => links \subseteq strays /\ (faults = 0 => phy = <<>>)

\* "Waiting for socket thread to exit": nothing is unloaded while the socket
\* thread may still be executing a command.
UnloadsAlone ==
  \A t \in Threads : Stage(t) \in {"unload", "list"} => socket = "ended"

\* The main thread never sees the flag in the loop of main: exit_daemon runs on
\* top of it and never returns.  The veth_list_destroy behind the loop, which
\* leaves veths dangling for the unload_list that follows, is never reached.
LoopNeverLeft == Undisturbed("main") => flag = 0

Idle == \A t \in Threads : job[t] = NoJob /\ handlers[t] = <<>>

\* Between two commands, if no call failed, the table says what is there: its
\* prefixes are the pairs that this daemon made, each with both its programs.
TableIsTrue ==
  proc = "up" /\ Idle /\ faults = 0 =>
    /\ Range(veths) = links \ strays
    /\ \A p \in Range(veths) : xdp[p] = {"outer", "inner"}

\* Where the program of the device redirects to: it looks up entry 0 of its own
\* devmap, and the oldest program on the device decides.
Targets == IF phy = <<>> THEN {} ELSE {devmap[Head(phy)]} \ {None}

\* create_port on a daemon that has finished starting redirects the traffic of
\* the device to the new port, even if an earlier daemon left its pin behind.
CreateRedirects ==
  [][ /\ proc = "up" /\ At("socket", "devmap") /\ job'["socket"] = NoJob
      /\ handlers' = handlers
      /\ main = "wait" /\ phy = <<life>> /\ faults' = 0
      /\ job["socket"].prefix \in links
      => Targets' = {job["socket"].prefix} ]_vars

\* "Redirect packets from PHY to veth": a daemon that has finished starting and
\* has a port redirects the traffic of the device to some port.
PortServedOnceStarted ==
  proc = "up" /\ Idle /\ faults = 0 /\ main = "wait" /\ veths # <<>> => Targets # {}

\* Once the flag is set the daemon stops: the accept of the socket thread gives
\* up in time, and the join returns.  handle_client always returns here; that it
\* may wait for its client is in module CommandChannel.
FlagStopsDaemon == flag = 1 ~> proc # "up"
=============================================================================
