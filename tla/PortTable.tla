------------------------------ MODULE PortTable -----------------------------
(***************************************************************************)
(* What the table of the daemon promises: a list of prefixes, oldest       *)
(* first, none of them twice.  A call that has returned says what it did.  *)
(***************************************************************************)
EXTENDS Integers, Sequences, Functions

Sq == INSTANCE SequencesExt

CONSTANT Prefixes

VARIABLES
  ports,   \* the prefixes in the table
  last     \* the call that returned last: what, of which prefix, and how

Init == ports = <<>> /\ last = [op |-> "none"]

\* A prefix is added, unless it is there already or there is no memory.
Add(p) ==
  \/ /\ p \notin Range(ports)
     /\ ports' = Append(ports, p)
     /\ last' = [op |-> "add", prefix |-> p, ret |-> 0]
  \/ /\ UNCHANGED ports
     /\ last' = [op |-> "add", prefix |-> p, ret |-> -1]

\* A prefix is removed, exactly if it is there.
Remove(p) ==
  /\ \/ p \notin Range(ports) /\ UNCHANGED ports
     \/ \E n \in DOMAIN ports : ports[n] = p /\ ports' = Sq!RemoveAt(ports, n)
  /\ last' = [op |-> "remove", prefix |-> p, ret |-> IF p \in Range(ports) THEN 0 ELSE -1]

Next == \E p \in Prefixes : Add(p) \/ Remove(p)

Spec == Init /\ [][Next]_<<ports, last>>
=============================================================================
