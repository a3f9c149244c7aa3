------------------------------ MODULE PacketPath -----------------------------
(***************************************************************************)
(* Where a frame ends that arrives at the device or an inner interface:    *)
(* the XDP programs there (src/kern), the interfaces, programs and maps    *)
(* that create_port and delete_port leave behind                           *)
(* (src/lib/socket_cmds.c, src/lib/xdp_utils.c), and the set-up of the     *)
(* clients (src/client.c, src/lib/xsk_utils.c), which start, stop, are     *)
(* killed and start again under the same name.                             *)
(*                                                                         *)
(* The daemon runs, with one program on its device, and its calls succeed  *)
(* (module Daemon has the others).  No command is lost (CommandChannel).   *)
(* libxdp runs the programs of an interface from the oldest to the newest, *)
(* and goes on to the next only after XDP_PASS.                            *)
(***************************************************************************)
EXTENDS Integers, Sequences, Functions

CONSTANTS
  Clients,
  Prefixes,
  Name,      \* Name[c]: the prefix that client c is given
  STARTS,    \* how often clients are started
  KILLS      \* how many clients are killed, or cannot get memory

ASSUME PacketPathAssumption ==
  /\ Name \in [Clients -> Prefixes]
  /\ Clients \cap {"none", "stack", "dropped"} = {} /\ "none" \notin Prefixes
  /\ STARTS \in Nat /\ KILLS \in Nat

VARIABLES
  links,     \* the prefixes whose veth pair exists
  inner,     \* inner[p]: the programs on the inner interface of p, oldest first
  xsks_map,  \* xsks_map[n]: the client whose socket is in the map of the nth program
  pinned,    \* pinned[p]: the program whose map is pinned for p, 0 when none is
  devmap,    \* the prefix whose outer interface is entry 0 of the devmap
  job,       \* the command that the daemon executes, its client and its step
  pending,   \* pending[c]: the commands of c that the daemon has not taken
  stage,     \* stage[c]: how far client c has come
  bound,     \* the clients whose socket is bound to an interface that exists
  map,       \* map[c]: the program whose map c has opened
  starts,    \* how often clients were started
  kills      \* how many clients were killed

portVars == <<links, inner, xsks_map, pinned, devmap>>
clientVars == <<stage, bound, map, starts, kills>>
vars == <<portVars, job, pending, clientVars>>

None == "none"
NoJob == [op |-> "none", client |-> None, step |-> "done"]

Init ==
  /\ links = {}
  /\ inner = [p \in Prefixes |-> <<>>]
  /\ xsks_map = <<>>
  /\ pinned = [p \in Prefixes |-> 0]
  /\ devmap = None
  /\ job = NoJob /\ pending = [c \in Clients |-> <<>>]
  /\ stage = [c \in Clients |-> "off"]
  /\ bound = {} /\ map = [c \in Clients |-> 0]
  /\ starts = 0 /\ kills = 0

-----------------------------------------------------------------------------
(* The programs.  A frame: whether it is long enough for an Ethernet       *)
(* header, whether that says IP, whether it is long enough for an IP       *)
(* header too, whether that says ICMP.                                     *)

Frames == [eth : BOOLEAN, ip : BOOLEAN, iph : BOOLEAN, icmp : BOOLEAN]

\* Mutant of Verdict: the length of the IP header is not looked at.
VerdictUnchecked(f, icmp) ==
  CASE ~f.eth -> "XDP_DROP"
    [] f.eth /\ (~f.ip \/ ~f.icmp) -> "XDP_PASS"
    [] OTHER -> icmp

\* What the programs do alike; they differ in what becomes of ICMP.
Verdict(f, icmp) ==
  CASE ~f.eth -> "XDP_DROP"
    [] f.eth /\ ~f.ip -> "XDP_PASS"
    [] f.eth /\ f.ip /\ ~f.iph -> "XDP_DROP"
    [] f.eth /\ f.ip /\ f.iph /\ ~f.icmp -> "XDP_PASS"
    [] OTHER -> icmp

\* phy_xdp.c, on the device.
xdp_redirect(f) == Verdict(f, IF devmap = None THEN "XDP_DROP" ELSE "XDP_REDIRECT")

\* inner_xdp.c, as program n.
xdp_sock_prog(f, n) ==
  Verdict(f, IF xsks_map[n] = None THEN "XDP_DROP" ELSE "XDP_REDIRECT")

\* The programs on the inner interface of p that do not pass a frame on.
Deciding(f, p) == {k \in DOMAIN inner[p] : xdp_sock_prog(f, inner[p][k]) # "XDP_PASS"}

\* A frame arrives there: the first of them decides, and a socket takes the
\* frame only if it is bound to the interface.
AtInner(f, p) ==
  LET first == CHOOSE k \in Deciding(f, p) : \A l \in Deciding(f, p) : k <= l
      n == inner[p][first]
      c == xsks_map[n]
  IN CASE Deciding(f, p) = {} -> "stack"
       [] Deciding(f, p) # {} /\ xdp_sock_prog(f, n) = "XDP_DROP" -> "dropped"
       [] OTHER -> IF c \in bound /\ Name[c] = p THEN c ELSE "dropped"

\* A frame arrives at the device; what that redirects to an outer interface
\* comes out of the inner one, if that has a program.
AtDevice(f) ==
  CASE xdp_redirect(f) = "XDP_PASS" -> "stack"
    [] xdp_redirect(f) = "XDP_DROP" -> "dropped"
    [] OTHER -> IF inner[devmap] = <<>> THEN "dropped" ELSE AtInner(f, devmap)

-----------------------------------------------------------------------------
(* The daemon.                                                             *)

Prefix == Name[job.client]
At(step) == job.step = step
Goto(step) == job' = IF step = "done" THEN NoJob ELSE [job EXCEPT !.step = step]

\* The next command of a client is taken.
Take(c) ==
  /\ job = NoJob
  /\ pending[c] # <<>>
  /\ job' = [op |-> Head(pending[c]), client |-> c,
             step |-> IF Head(pending[c]) = "create" THEN "script" ELSE "unload"]
  /\ pending' = [pending EXCEPT ![c] = Tail(@)]
  /\ UNCHANGED <<portVars, clientVars>>

\* create_veth.sh leaves a pair that exists as it is.
Script ==
  /\ At("script")
  /\ links' = links \cup {Prefix}
  /\ Goto("attach")
  /\ UNCHANGED <<inner, xsks_map, pinned, devmap, pending, clientVars>>

\* Mutant of Attach: the program that was loaded last is attached.
AttachAgain ==
  /\ At("attach")
  /\ inner' = [inner EXCEPT ![Prefix] = Append(@, Len(xsks_map))]
  /\ Goto("unpin")
  /\ UNCHANGED <<links, xsks_map, pinned, devmap, pending, clientVars>>

\* xdp_program__attach: a new program with a map of its own goes behind those
\* that are there.
Attach ==
  /\ At("attach")
  /\ xsks_map' = Append(xsks_map, None)
  /\ inner' = [inner EXCEPT ![Prefix] = Append(@, Len(xsks_map'))]
  /\ Goto("unpin")
  /\ UNCHANGED <<links, pinned, devmap, pending, clientVars>>

\* Mutant of Unpin: what an earlier program left is not cleaned up.
UnpinForgets ==
  /\ At("unpin")
  /\ Goto("pin")
  /\ UNCHANGED <<portVars, pending, clientVars>>

\* pin_maps_in_bpf_object removes what is pinned,
Unpin ==
  /\ At("unpin")
  /\ pinned' = [pinned EXCEPT ![Prefix] = 0]
  /\ Goto("pin")
  /\ UNCHANGED <<links, inner, xsks_map, devmap, pending, clientVars>>

\* and pins the map of the new program, which replaces nothing.
Pin ==
  /\ At("pin")
  /\ pinned' = [pinned EXCEPT ![Prefix] = IF @ = 0 THEN Len(xsks_map) ELSE @]
  /\ Goto("devmap")
  /\ UNCHANGED <<links, inner, xsks_map, devmap, pending, clientVars>>

UpdateDevmap ==
  /\ At("devmap")
  /\ devmap' = Prefix
  /\ Goto("done")
  /\ UNCHANGED <<links, inner, xsks_map, pinned, pending, clientVars>>

\* unload_xdp_from_ifname detaches every program; the pins stay.
Unload ==
  /\ At("unload")
  /\ inner' = [inner EXCEPT ![Prefix] = <<>>]
  /\ Goto("unlink")
  /\ UNCHANGED <<links, xsks_map, pinned, devmap, pending, clientVars>>

\* delete_veth.sh: with the pair go the devmap entry and what is bound to it.
Unlink ==
  /\ At("unlink")
  /\ links' = links \ {Prefix}
  /\ devmap' = IF devmap = Prefix THEN None ELSE devmap
  /\ bound' = {c \in bound : Name[c] # Prefix}
  /\ Goto("done")
  /\ UNCHANGED <<inner, xsks_map, pinned, pending, stage, map, starts, kills>>

Daemon ==
  \/ \E c \in Clients : Take(c)
  \/ Script \/ Attach \/ Unpin \/ Pin \/ UpdateDevmap \/ Unload \/ Unlink

-----------------------------------------------------------------------------
(* The clients.                                                            *)

\* Mutant of Answered: the daemon answers when it has taken the command.
AnsweredWhenTaken(c) == pending[c] = <<>>

\* The commands of c were executed.
Answered(c) == pending[c] = <<>> /\ job.client # c

\* request_port.
Start(c) ==
  /\ stage[c] = "off" /\ starts < STARTS
  /\ starts' = starts + 1
  /\ stage' = [stage EXCEPT ![c] = "create"]
  /\ pending' = [pending EXCEPT ![c] = Append(@, "create")]
  /\ UNCHANGED <<portVars, job, bound, map, kills>>

\* Mutant of Created: the map is opened before there is a socket.
CreatedMapFirst(c) ==
  /\ stage[c] = "create" /\ Answered(c)
  /\ stage' = [stage EXCEPT ![c] = "map"]
  /\ UNCHANGED <<portVars, job, pending, bound, map, starts, kills>>

\* The answer to request_port has come.
Created(c) ==
  /\ stage[c] = "create" /\ Answered(c)
  /\ stage' = [stage EXCEPT ![c] = "socket"]
  /\ UNCHANGED <<portVars, job, pending, bound, map, starts, kills>>

\* The process is gone: its socket is closed and leaves every map.
Gone(c) ==
  /\ stage' = [stage EXCEPT ![c] = "off"]
  /\ bound' = bound \ {c}
  /\ map' = [map EXCEPT ![c] = 0]
  /\ xsks_map' = [n \in DOMAIN xsks_map |-> IF xsks_map[n] = c THEN None ELSE xsks_map[n]]
  /\ UNCHANGED <<links, inner, pinned, devmap, job, pending, starts>>

MayBind(c) == Name[c] \in links /\ \A d \in bound : Name[d] # Name[c]

\* xsk_socket__create binds queue 0 of the interface, which has one socket.
CreateSocket(c) ==
  /\ stage[c] = "socket"
  /\ MayBind(c)
  /\ stage' = [stage EXCEPT ![c] = "map"]
  /\ bound' = bound \cup {c}
  /\ UNCHANGED <<portVars, job, pending, map, starts, kills>>

\* open_bpf_map_file finds a map.
OpenMap(c) ==
  /\ stage[c] = "map"
  /\ pinned[Name[c]] # 0
  /\ map' = [map EXCEPT ![c] = pinned[Name[c]]]
  /\ stage' = [stage EXCEPT ![c] = "insert"]
  /\ UNCHANGED <<portVars, job, pending, bound, starts, kills>>

\* xsk_socket__update_xskmap replaces what is there.
Insert(c) ==
  /\ stage[c] = "insert"
  /\ xsks_map' = [xsks_map EXCEPT ![map[c]] = c]
  /\ stage' = [stage EXCEPT ![c] = "running"]
  /\ UNCHANGED <<links, inner, pinned, devmap, job, pending, bound, map, starts, kills>>

\* Without a socket, or with no map pinned, xsk_configure_socket returns NULL; the
\* client goes on, and crashes.
Crash(c) ==
  /\ \/ stage[c] = "socket" /\ ~MayBind(c)
     \/ stage[c] = "map" /\ pinned[Name[c]] = 0
  /\ Gone(c)
  /\ UNCHANGED kills

\* Mutant of Stop: the client exits without a word.
StopSilently(c) ==
  /\ stage[c] \in {"create", "socket", "map", "insert", "running"}
  /\ stage' = [stage EXCEPT ![c] = "delete"]
  /\ UNCHANGED <<portVars, job, pending, bound, map, starts, kills>>

\* exit_client asks for the deletion of the port, whatever the client was doing.
Stop(c) ==
  /\ stage[c] \in {"create", "socket", "map", "insert", "running"}
  /\ stage' = [stage EXCEPT ![c] = "delete"]
  /\ pending' = [pending EXCEPT ![c] = Append(@, "delete")]
  /\ UNCHANGED <<portVars, job, bound, map, starts, kills>>

Exit(c) ==
  /\ stage[c] = "delete" /\ Answered(c)
  /\ Gone(c)
  /\ UNCHANGED kills

\* SIGKILL, or an error on which the client exits at once.
Kill(c) ==
  /\ stage[c] # "off"
  /\ kills < KILLS
  /\ kills' = kills + 1
  /\ Gone(c)

Client(c) ==
  \/ Start(c) \/ Created(c) \/ CreateSocket(c) \/ OpenMap(c) \/ Insert(c)
  \/ Crash(c) \/ Stop(c) \/ Exit(c) \/ Kill(c)

Over ==
  /\ job = NoJob /\ starts = STARTS
  /\ \A c \in Clients : stage[c] = "off" /\ pending[c] = <<>>
  /\ UNCHANGED vars

Next == Daemon \/ (\E c \in Clients : Client(c)) \/ Over

Spec == Init /\ [][Next]_vars
-----------------------------------------------------------------------------
(* Properties.                                                             *)

Stages == {"off", "create", "socket", "map", "insert", "running", "delete"}
Jobs == {NoJob}
  \cup [op : {"create"}, client : Clients, step : {"script", "attach", "unpin", "pin", "devmap"}]
  \cup [op : {"delete"}, client : Clients, step : {"unload", "unlink"}]

\* The type of every variable; a program is on one interface at most.
TypeOK ==
  /\ links \subseteq Prefixes
  /\ inner \in [Prefixes -> Seq(DOMAIN xsks_map)]
  /\ \A p, q \in Prefixes : p # q => Range(inner[p]) \cap Range(inner[q]) = {}
  /\ xsks_map \in Seq(Clients \cup {None})
  /\ pinned \in [Prefixes -> DOMAIN xsks_map \cup {0}]
  /\ devmap \in Prefixes \cup {None}
  /\ job \in Jobs /\ pending \in [Clients -> Seq({"create", "delete"})]
  /\ stage \in [Clients -> Stages]
  /\ bound \subseteq Clients /\ map \in [Clients -> DOMAIN xsks_map \cup {0}]
  /\ starts \in 0 .. STARTS /\ kills \in 0 .. KILLS

\* A frame that the programs take for ICMP: whole up to its IP header, whatever
\* comes behind that, and of whatever type it is.
IcmpFrame == [eth |-> TRUE, ip |-> TRUE, iph |-> TRUE, icmp |-> TRUE]

\* No other client is given the name of c.
Alone(c) == \A d \in Clients : Name[d] = Name[c] => d = c

\* "Receive packets from veth in user space": a client that runs, with a name of
\* its own, gets the ICMP frames that the device redirects to its port, also if
\* it was started and stopped before.  Not so if it was killed: its port stays,
\* with a program that is now the first of two, and not the one whose map is
\* pinned.
RunningIsServed ==
  kills = 0 =>
    \A c \in Clients :
      Alone(c) /\ stage[c] = "running" /\ devmap = Name[c] => AtDevice(IcmpFrame) = c

\* "Existing/previous XDP prog might not have cleaned up": from the answer to
\* request_port on, the map that is pinned for a client with a name of its own,
\* and the one it opens, is that of the program attached last, whatever earlier
\* lives of the client left pinned, attached or under way, killed or not.
MapIsOfNewest ==
  \A c \in Clients :
    Alone(c) /\ stage[c] \in {"socket", "map", "insert", "running"} =>
      /\ inner[Name[c]] # <<>>
      /\ pinned[Name[c]] = inner[Name[c]][Len(inner[Name[c]])]
      /\ stage[c] \in {"insert", "running"} => map[c] = pinned[Name[c]]

\* A frame that ends in a socket ends in that of a client that is alive and whose
\* port is the one the device redirects to; and the frame has a whole Ethernet
\* and IP header and says ICMP.  More the programs do not look at: an ICMP header
\* that is cut off, or no echo request, is for process_packet to find out.
SocketsGetTheirFrames ==
  \A f \in Frames :
    AtDevice(f) \in Clients =>
      /\ stage[AtDevice(f)] \in {"running", "delete"}
      /\ devmap = Name[AtDevice(f)]
      /\ f = IcmpFrame

\* ICMP never slips past the programs of an inner interface to the stack.
NoIcmpToTheStack ==
  \A p \in Prefixes : inner[p] # <<>> => AtInner(IcmpFrame, p) # "stack"

\* "A set entry here means that the corresponding queue_id has an active AF_XDP
\* socket bound to it", in the map of every program that is attached, unless two
\* clients share a name: one may then delete the port under the other.
EntryIsBound ==
  \A p \in Prefixes : \A n \in Range(inner[p]) :
    xsks_map[n] # None /\ Alone(xsks_map[n]) => xsks_map[n] \in bound

\* When every client is gone of its own accord, no pair is left, and nothing is
\* redirected.
NothingLeft ==
  kills = 0 /\ job = NoJob /\ (\A c \in Clients : stage[c] = "off" /\ pending[c] = <<>>) =>
    links = {} /\ devmap = None
=============================================================================
