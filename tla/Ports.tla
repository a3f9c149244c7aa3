-------------------------------- MODULE Ports -------------------------------
(***************************************************************************)
(* The ports of the daemon: the steps of create_port, delete_port          *)
(* (src/lib/socket_cmds.c) and of the functions they call                  *)
(* (src/lib/veth_list.c, src/lib/xdp_utils.c, scripts/), and the kernel    *)
(* objects they change.  A port is named by its prefix; its veth pair      *)
(* exists or does not exist as a whole.  Prefixes are short enough that    *)
(* neither the key of the table nor the names of the interfaces are        *)
(* truncated.                                                              *)
(*                                                                         *)
(* A step is one call whose effects others may see.  Every error is only   *)
(* logged, and the command goes on, except those on which the daemon exits *)
(* (Quit in module Daemon).                                                *)
(***************************************************************************)
EXTENDS Integers, Sequences, Functions

Sq == INSTANCE SequencesExt

CONSTANTS
  Prefixes,   \* the names that clients give their ports
  Threads,    \* the threads of the daemon
  LIVES,      \* how often the daemon is started
  FAULTS      \* how often a call to the system fails

ASSUME PortsAssumption == LIVES \in Nat \ {0} /\ FAULTS \in Nat /\ "none" \notin Prefixes

VARIABLES
  job,       \* job[t]: the command thread t executes and the step it is at
  veths,     \* the table of the daemon: the prefixes in it, oldest first
  links,     \* the prefixes whose veth pair exists
  xdp,       \* xdp[p]: the ends of the pair of p that have a program attached
  phy,       \* the lives whose program is attached to the device, oldest first
  devpin,    \* the life whose devmap is pinned, 0 when none is
  devmap,    \* devmap[n]: entry 0 of the devmap of life n: a prefix or None
  strays,    \* prefixes whose pair this daemon did not make, could not enter
             \* in its table or failed to delete
  faults     \* how many calls have failed

portVars == <<job, veths, links, xdp, phy, devpin, devmap, strays, faults>>

None == "none"
Lives == 1 .. LIVES

NoJob == [op |-> "none", prefix |-> None, step |-> "done"]
Job(op, p, step) == [op |-> op, prefix |-> p, step |-> step]

PortsInit ==
  /\ job = [t \in Threads |-> NoJob]
  /\ veths = <<>>
  /\ links = {}
  /\ xdp = [p \in Prefixes |-> {}]
  /\ phy = <<>> /\ devpin = 0
  /\ devmap = [n \in Lives |-> None]
  /\ strays = {} /\ faults = 0

\* A command starts: create_port adds to the table first, delete_port removes
\* from it first.
Start(t, op, p) ==
  /\ job[t] = NoJob
  /\ job' = [job EXCEPT ![t] = Job(op, p, IF op = "create" THEN "add" ELSE "remove")]

At(t, step) == job[t].step = step
Goto(t, step) == job' = [job EXCEPT ![t] = IF step = "done" THEN NoJob ELSE [@ EXCEPT !.step = step]]

\* A call fails; how often is bounded.
Fault == faults < FAULTS /\ faults' = faults + 1

-----------------------------------------------------------------------------
(* create_port.                                                            *)

\* Mutant of Add: create_port returns nothing to remember a port by.
AddForgets(t) ==
  /\ At(t, "add")
  /\ Goto(t, "script")
  /\ UNCHANGED <<veths, links, xdp, phy, devpin, devmap, strays, faults>>

\* veth_list_add, which refuses a prefix that is in the table and has no memory
\* for another; create_port goes on all the same, with a pair that is then in no
\* table.
Add(t) ==
  /\ At(t, "add")
  /\ \/ /\ job[t].prefix \in Range(veths)
        /\ strays' = strays \ {job[t].prefix}
        /\ UNCHANGED <<veths, faults>>
     \/ /\ job[t].prefix \notin Range(veths)
        /\ veths' = Append(veths, job[t].prefix)
        /\ strays' = strays \ {job[t].prefix}
        /\ UNCHANGED faults
     \/ /\ job[t].prefix \notin Range(veths) /\ Fault
        /\ strays' = strays \cup {job[t].prefix}
        /\ UNCHANGED veths
  /\ Goto(t, "script")
  /\ UNCHANGED <<links, xdp, phy, devpin, devmap>>

\* create_veth.sh, which leaves a pair that exists as it is.
Script(t) ==
  /\ At(t, "script")
  /\ \/ links' = links \cup {job[t].prefix} /\ UNCHANGED faults
     \/ UNCHANGED links /\ Fault
  /\ Goto(t, "outer")
  /\ UNCHANGED <<veths, xdp, phy, devpin, devmap, strays>>

\* load_xdp_and_attach_to_ifname on one end of the pair: without an interface
\* there is nothing to attach to.
Load(t, end, next) ==
  /\ At(t, end)
  /\ \/ /\ xdp' = IF job[t].prefix \in links
                    THEN [xdp EXCEPT ![job[t].prefix] = @ \cup {end}] ELSE xdp
        /\ UNCHANGED faults
     \/ UNCHANGED xdp /\ Fault
  /\ Goto(t, next)
  /\ UNCHANGED <<veths, links, phy, devpin, devmap, strays>>

\* update_devmap: entry 0 of the devmap that is pinned now; index 0, of an
\* interface that does not exist, empties the entry.
UpdateDevmap(t) ==
  /\ At(t, "devmap")
  /\ \/ /\ devpin # 0
        /\ devmap' = [devmap EXCEPT ![devpin] =
                        IF job[t].prefix \in links THEN job[t].prefix ELSE None]
        /\ UNCHANGED faults
     \/ devpin = 0 /\ UNCHANGED <<devmap, faults>>
     \/ devpin # 0 /\ UNCHANGED devmap /\ Fault
  /\ Goto(t, "done")
  /\ UNCHANGED <<veths, links, xdp, phy, devpin, strays>>

-----------------------------------------------------------------------------
(* delete_port.                                                            *)

\* Mutant of Remove: the entry is found but not taken out of the table.
RemoveKeeps(t) ==
  /\ At(t, "remove")
  /\ Goto(t, "unload")
  /\ UNCHANGED <<veths, links, xdp, phy, devpin, devmap, strays, faults>>

\* veth_list_remove, which may find nothing; delete_port goes on all the same.
Remove(t) ==
  /\ At(t, "remove")
  /\ \/ \E n \in DOMAIN veths : veths[n] = job[t].prefix /\ veths' = Sq!RemoveAt(veths, n)
     \/ job[t].prefix \notin Range(veths) /\ UNCHANGED veths
  /\ Goto(t, "unload")
  /\ UNCHANGED <<links, xdp, phy, devpin, devmap, strays, faults>>

\* unload_xdp_from_ifname on the outer and then on the inner end, nothing
\* else being able to tell the two steps apart; either may fail.
Unload(t) ==
  /\ At(t, "unload")
  /\ \/ xdp' = [xdp EXCEPT ![job[t].prefix] = {}] /\ UNCHANGED faults
     \/ \E end \in xdp[job[t].prefix] :
          xdp' = [xdp EXCEPT ![job[t].prefix] = {end}] /\ Fault
  /\ Goto(t, "unlink")
  /\ UNCHANGED <<veths, links, phy, devpin, devmap, strays>>

\* delete_veth.sh.  With the interfaces go their programs and, in the kernel,
\* every devmap entry that leads to them.
Unlink(t) ==
  /\ At(t, "unlink")
  /\ \/ /\ links' = links \ {job[t].prefix}
        /\ xdp' = [xdp EXCEPT ![job[t].prefix] = {}]
        /\ devmap' = [n \in Lives |-> IF devmap[n] = job[t].prefix THEN None ELSE devmap[n]]
        /\ strays' = strays \ {job[t].prefix}
        /\ UNCHANGED faults
     \/ /\ job[t].prefix \in links /\ Fault
        /\ strays' = strays \cup {job[t].prefix}
        /\ UNCHANGED <<links, xdp, devmap>>
  /\ Goto(t, "done")
  /\ UNCHANGED <<veths, phy, devpin>>

Work(t) ==
  \/ Add(t) \/ Script(t) \/ Load(t, "outer", "inner") \/ Load(t, "inner", "devmap")
  \/ UpdateDevmap(t)
  \/ Remove(t) \/ Unload(t) \/ Unlink(t)

-----------------------------------------------------------------------------
(* The type of the variables.                                              *)

Steps == {"add", "script", "outer", "inner", "devmap", "remove", "unload", "unlink"}

PortsTypeOK ==
  /\ job \in [Threads -> {NoJob} \cup [op : {"create", "delete"}, prefix : Prefixes, step : Steps]]
  /\ veths \in Seq(Prefixes)
  /\ links \subseteq Prefixes
  /\ xdp \in [Prefixes -> SUBSET {"outer", "inner"}]
  /\ phy \in Seq(Lives)
  /\ devpin \in 0 .. LIVES
  /\ devmap \in [Lives -> Prefixes \cup {None}]
  /\ strays \subseteq Prefixes
  /\ faults \in 0 .. FAULTS
=============================================================================
