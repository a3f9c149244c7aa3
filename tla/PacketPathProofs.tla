--------------------------- MODULE PacketPathProofs ---------------------------
(***************************************************************************)
(* Theorems about module PacketPath, for any number of clients, starts and *)
(* kills, and, where it is not said otherwise, for clients that share      *)
(* names as for clients that do not.                                       *)
(***************************************************************************)
EXTENDS PacketPath, TLAPS, SequenceTheorems, WellFoundedInduction

InMap(c) == \E n \in DOMAIN xsks_map : xsks_map[n] = c

\* A create_port of c is under way or will be.
CreateDue(c) == (job.client = c /\ job.op = "create") \/ "create" \in Range(pending[c])

\* The commands of a client are executed before it makes its socket, and
\* only then it holds anything.
SetUpInOrder ==
  \A c \in Clients :
    /\ stage[c] \in {"socket", "map", "insert", "running"} => Answered(c)
    /\ c \in bound => stage[c] \in {"map", "insert", "running", "delete"} /\ ~CreateDue(c)
    /\ InMap(c) => stage[c] \in {"running", "delete"} /\ ~CreateDue(c)

\* The inductive invariant for any names.
IInv == TypeOK /\ SetUpInOrder

\* A program is known, as pinned, opened or entered, only for the interface it
\* is attached to.
KnownWhereAttached ==
  \A p \in Prefixes : \A n \in Range(inner[p]) :
    /\ \A q \in Prefixes : pinned[q] = n => q = p
    /\ \A c \in Clients : map[c] = n \/ xsks_map[n] = c => Name[c] = p
    /\ At("unpin") \/ At("pin") => (n = Len(xsks_map) => p = Prefix)

\* A port whose client has the name for itself is taken down only when that
\* client asks for it: programs first, then the interface, and with it what is
\* bound to it.
TakenDownInOrder ==
  /\ At("unlink") => inner[Prefix] = <<>>
  /\ \A c \in Clients : Alone(c) =>
       /\ stage[c] \in {"map", "insert", "running"} => c \in bound
       /\ InMap(c) /\ c \notin bound => inner[Name[c]] = <<>>

\* The inductive invariant for what clients with a name of their own hold.
OwnInv == IInv /\ KnownWhereAttached /\ TakenDownInOrder

\* Where the program that was attached last for c is pinned.
Newest(c) ==
  /\ inner[Name[c]] # <<>>
  /\ pinned[Name[c]] = inner[Name[c]][Len(inner[Name[c]])]

\* How far a create_port of c has brought the program it attaches.
Loading(c) ==
  /\ At("unpin") \/ At("pin") =>
       inner[Name[c]] # <<>> /\ inner[Name[c]][Len(inner[Name[c]])] = Len(xsks_map)
  /\ At("pin") => pinned[Name[c]] = 0
  /\ At("devmap") => Newest(c)

\* The last command of c that is executed before it goes on is its create_port.
MapOf(c) ==
  /\ job.client = c => Loading(c)
  /\ stage[c] = "create" =>
       \/ pending[c] # <<>> /\ pending[c][Len(pending[c])] = "create"
       \/ pending[c] = <<>> /\ job.client = c /\ job.op = "create"
       \/ Answered(c) /\ Newest(c)
  /\ stage[c] \in {"socket", "map", "insert", "running"} => Newest(c)
  /\ stage[c] \in {"insert", "running"} => map[c] = pinned[Name[c]]

\* The inductive invariant for the maps that are pinned, killed clients included.
NewestInv == IInv /\ \A c \in Clients : Alone(c) => MapOf(c)

Absent(c) == Name[c] \notin links /\ inner[Name[c]] = <<>>
Ready(c) ==
  /\ Name[c] \in links
  /\ pinned[Name[c]] # 0
  /\ inner[Name[c]] = <<pinned[Name[c]]>>

\* create_port of c is under way.
Creating(c) ==
  /\ job.op = "create"
  /\ At("script") => Absent(c)
  /\ ~At("script") => Name[c] \in links
  /\ At("attach") => inner[Name[c]] = <<>>
  /\ At("unpin") \/ At("pin") => Len(xsks_map) > 0 /\ inner[Name[c]] = <<Len(xsks_map)>>
  /\ At("pin") => pinned[Name[c]] = 0
  /\ At("devmap") => Ready(c)

\* How far the port of c has come, at each stage of c.
PortOf(c) ==
  /\ stage[c] = "off" => Answered(c) /\ Absent(c)
  /\ stage[c] = "create" =>
       \/ pending[c] = <<"create">> /\ job.client # c /\ Absent(c)
       \/ pending[c] = <<>> /\ job.client = c /\ Creating(c)
       \/ Answered(c) /\ Ready(c)
  /\ stage[c] \in {"socket", "map", "insert", "running"} => Ready(c)
  /\ stage[c] \in {"insert", "running"} => map[c] = pinned[Name[c]]
  /\ stage[c] = "running" => xsks_map[map[c]] = c
  /\ stage[c] = "delete" =>
       \/ pending[c] = <<"create", "delete">> /\ job.client # c /\ Absent(c)
       \/ pending[c] = <<"delete">> /\ job.client = c /\ Creating(c)
       \/ pending[c] = <<"delete">> /\ job.client # c
       \/ pending[c] = <<>> /\ job.client = c /\ job.op = "delete"
       \/ Answered(c) /\ Absent(c)

\* The inductive invariant for clients none of which was killed.
ServedInv ==
  /\ OwnInv
  /\ links \subseteq {Name[c] : c \in Clients}
  /\ devmap \in links \cup {None}
  /\ At("attach") \/ At("unpin") \/ At("pin") \/ At("devmap") => Prefix \in links
  /\ kills = 0 => \A c \in Clients : Alone(c) => PortOf(c)
-----------------------------------------------------------------------------
(* Sequences.                                                              *)

\* What is appended to a sequence of one.
LEMMA AppendToOne ==
  ASSUME NEW x, NEW y
  PROVE  Append(<<x>>, y) = <<x, y>>
<1> DEFINE S == {x, y}
           s == <<x>>
           t == <<x, y>>
<1>1. s \in Seq(S) /\ t \in Seq(S) /\ y \in S
  OBVIOUS
<1>2. Len(s) = 1 /\ Len(t) = 2 /\ s[1] = x /\ t[1] = x /\ t[2] = y
  OBVIOUS
<1> HIDE DEF s, t, S
<1>3. /\ Append(s, y) \in Seq(S) /\ Len(Append(s, y)) = Len(s) + 1
      /\ \A i \in 1 .. Len(s) : Append(s, y)[i] = s[i]
      /\ Append(s, y)[Len(s) + 1] = y
  BY <1>1, AppendProperties
<1>4. \A i \in 1 .. 2 : Append(s, y)[i] = t[i]
  BY <1>2, <1>3
<1>5. Append(s, y) = t
  BY <1>1, <1>2, <1>3, <1>4, SeqEqual
<1> QED BY <1>5 DEF s, t

\* The values of a sequence to which one is appended.
LEMMA RangeOfAppend ==
  ASSUME NEW S, NEW s \in Seq(S), NEW e
  PROVE  Range(Append(s, e)) = Range(s) \cup {e}
<1>1. DOMAIN s = 1 .. Len(s) /\ Len(s) \in Nat
  BY LenProperties
<1>2. DOMAIN Append(s, e) = 1 .. Len(s) + 1
  BY <1>1
<1>3. Append(s, e)[Len(s) + 1] = e /\ \A k \in 1 .. Len(s) : Append(s, e)[k] = s[k]
  BY <1>1
<1>4. 1 .. Len(s) + 1 = (1 .. Len(s)) \cup {Len(s) + 1}
  BY <1>1
<1> QED BY <1>1, <1>2, <1>3, <1>4 DEF Range

LEMMA RangeOfTail ==
  ASSUME NEW S, NEW s \in Seq(S), s # <<>>
  PROVE  Range(Tail(s)) \subseteq Range(s) /\ Head(s) \in Range(s) /\ Head(s) \in S /\ Tail(s) \in Seq(S)
<1>1. Len(s) \in Nat \ {0} /\ DOMAIN s = 1 .. Len(s)
  BY LenProperties, EmptySeq
<1>2. /\ Tail(s) \in Seq(S) /\ Len(Tail(s)) = Len(s) - 1
      /\ \A k \in 1 .. Len(Tail(s)) : Tail(s)[k] = s[k + 1]
      /\ Head(s) = s[1] /\ Head(s) \in S
  BY HeadTailProperties
<1>3. DOMAIN Tail(s) = 1 .. Len(s) - 1
  BY <1>2, LenProperties
<1> QED BY <1>1, <1>2, <1>3 DEF Range

LEMMA RangeOfEmpty == Range(<<>>) = {}
  BY DEF Range

LEMMA RangeOfOne == \A e : Range(<<e>>) = {e}
  BY DEF Range

LEMMA RangeWithin ==
  ASSUME NEW S, NEW s \in Seq(S)
  PROVE  Range(s) \subseteq S
  BY ElementOfSeq, LenProperties DEF Range

-----------------------------------------------------------------------------
(* Types.                                                                  *)

\* What a step of a command may rely on.
LEMMA Working ==
  ASSUME TypeOK, job # NoJob
  PROVE  /\ job.client \in Clients /\ Prefix \in Prefixes
         /\ job.op = "create" <=> job.step \in {"script", "attach", "unpin", "pin", "devmap"}
         /\ job.op = "delete" <=> job.step \in {"unload", "unlink"}
  BY PacketPathAssumption DEF TypeOK, Jobs, Prefix

LEMMA Idle == \A step : step # "done" /\ At(step) => job # NoJob
  BY DEF At, NoJob

LEMMA InitType == Init => TypeOK
  BY PacketPathAssumption, RangeOfEmpty DEF Init, TypeOK, Stages, Jobs

LEMMA DaemonType == TypeOK /\ Daemon => TypeOK'
<1> SUFFICES ASSUME TypeOK, Daemon PROVE TypeOK'
  OBVIOUS
<1> USE PacketPathAssumption
<1>1. ASSUME NEW c \in Clients, Take(c) PROVE TypeOK'
  <2>1. /\ pending[c] \in Seq({"create", "delete"}) /\ pending[c] # <<>>
    BY <1>1 DEF TypeOK, Take
  <2>2. Tail(pending[c]) \in Seq({"create", "delete"}) /\ Head(pending[c]) \in {"create", "delete"}
    BY <2>1, RangeOfTail
  <2>3. job' \in Jobs
    BY <1>1, <2>2 DEF Take, Jobs
  <2>4. pending' \in [Clients -> Seq({"create", "delete"})]
    BY <1>1, <2>2 DEF Take, TypeOK
  <2> QED BY <1>1, <2>3, <2>4 DEF Take, TypeOK, portVars, clientVars
<1>2. CASE Script
  BY <1>2, Idle, Working DEF Script, At, Goto, TypeOK, clientVars, Jobs
<1>3. CASE Attach
  <2>1. job # NoJob
    BY <1>3, Idle DEF Attach
  <2>2. job' \in Jobs
    BY <1>3, <2>1 DEF Attach, At, Goto, TypeOK, Jobs
  <2> DEFINE n == Len(xsks_map) + 1
  <2>3. /\ xsks_map \in Seq(Clients \cup {None}) /\ DOMAIN xsks_map = 1 .. Len(xsks_map)
        /\ Len(xsks_map) \in Nat
    BY LenProperties DEF TypeOK
  <2>4. /\ xsks_map' \in Seq(Clients \cup {None}) /\ DOMAIN xsks_map' = 1 .. n /\ Len(xsks_map') = n
    BY <1>3, <2>3 DEF Attach
  <2>5. /\ DOMAIN xsks_map \subseteq DOMAIN xsks_map' /\ n \in DOMAIN xsks_map'
        /\ n \notin DOMAIN xsks_map
    BY <2>3, <2>4
  <2>6. inner' = [inner EXCEPT ![Prefix] = Append(@, n)]
    BY <1>3, <2>4 DEF Attach
  <2>7. ASSUME NEW p \in Prefixes
        PROVE  /\ inner'[p] \in Seq(DOMAIN xsks_map')
               /\ inner[p] \in Seq(DOMAIN xsks_map)
               /\ Range(inner[p]) \subseteq DOMAIN xsks_map
               /\ Range(inner'[p]) = IF p = Prefix THEN Range(inner[p]) \cup {n} ELSE Range(inner[p])
    <3>1. inner[p] \in Seq(DOMAIN xsks_map) /\ inner[p] \in Seq(DOMAIN xsks_map')
      BY <2>5, SeqMonotonic DEF TypeOK
    <3>2. Append(inner[p], n) \in Seq(DOMAIN xsks_map')
      BY <2>5, <3>1, AppendProperties
    <3>3. inner'[p] = IF p = Prefix THEN Append(inner[p], n) ELSE inner[p]
      BY <2>6 DEF TypeOK
    <3>4. Range(inner[p]) \subseteq DOMAIN xsks_map
      BY <3>1, RangeWithin
    <3>5. Range(Append(inner[p], n)) = Range(inner[p]) \cup {n}
      BY <3>1, RangeOfAppend
    <3> QED BY <3>1, <3>2, <3>3, <3>4, <3>5
  <2>8. inner' \in [Prefixes -> Seq(DOMAIN xsks_map')]
    <3>1. inner' \in [Prefixes -> {inner'[p] : p \in Prefixes}]
      BY <2>6 DEF TypeOK
    <3> QED BY <2>7, <3>1
  <2>9. \A p, q \in Prefixes : p # q => Range(inner'[p]) \cap Range(inner'[q]) = {}
    <3>1. \A p, q \in Prefixes : p # q => Range(inner[p]) \cap Range(inner[q]) = {}
      BY DEF TypeOK
    <3>2. ASSUME NEW p \in Prefixes, NEW q \in Prefixes, p # q
          PROVE  Range(inner'[p]) \cap Range(inner'[q]) = {}
      <4>1. /\ Range(inner[p]) \cap Range(inner[q]) = {}
            /\ n \notin Range(inner[p]) /\ n \notin Range(inner[q])
        BY <2>5, <2>7, <3>1, <3>2
      <4>2. /\ Range(inner'[p]) = IF p = Prefix THEN Range(inner[p]) \cup {n} ELSE Range(inner[p])
            /\ Range(inner'[q]) = IF q = Prefix THEN Range(inner[q]) \cup {n} ELSE Range(inner[q])
        BY <2>7
      <4> QED BY ONLY <3>2, <4>1, <4>2
    <3> QED BY <3>2
  <2>10. pinned' \in [Prefixes -> DOMAIN xsks_map' \cup {0}] /\ map' \in [Clients -> DOMAIN xsks_map' \cup {0}]
    BY <1>3, <2>5 DEF Attach, TypeOK, clientVars
  <2> QED BY <1>3, <2>2, <2>4, <2>8, <2>9, <2>10 DEF Attach, TypeOK, clientVars
<1>4. CASE Pin
  <2>1. job # NoJob
    BY <1>4, Idle DEF Pin
  <2>2. job' \in Jobs
    BY <1>4, <2>1 DEF Pin, At, Goto, TypeOK, Jobs
  <2>3. Len(xsks_map) \in DOMAIN xsks_map \cup {0}
    BY LenProperties DEF TypeOK
  <2>4. \A p \in Prefixes : pinned[p] \in DOMAIN xsks_map \cup {0}
    BY DEF TypeOK
  <2>5. pinned' \in [Prefixes -> DOMAIN xsks_map \cup {0}]
    BY <1>4, <2>3, <2>4 DEF Pin, TypeOK
  <2> QED BY <1>4, <2>2, <2>5 DEF Pin, TypeOK, clientVars
<1>5. CASE UpdateDevmap
  <2>1. job # NoJob
    BY <1>5, Idle DEF UpdateDevmap
  <2> QED BY <1>5, <2>1, Working DEF UpdateDevmap, Goto, TypeOK, Jobs, clientVars
<1>6. CASE Unload
  <2>1. job # NoJob
    BY <1>6, Idle DEF Unload
  <2>2. job' \in Jobs
    BY <1>6, <2>1 DEF Unload, At, Goto, TypeOK, Jobs
  <2>3. <<>> \in Seq(DOMAIN xsks_map)
    BY EmptySeq
  <2>4. \A p \in Prefixes : inner'[p] = IF p = Prefix THEN <<>> ELSE inner[p]
    BY <1>6 DEF Unload, TypeOK
  <2>5. inner' \in [Prefixes -> Seq(DOMAIN xsks_map)]
    BY <1>6, <2>3 DEF Unload, TypeOK
  <2>6. \A p, q \in Prefixes : p # q => Range(inner'[p]) \cap Range(inner'[q]) = {}
    BY <2>4, RangeOfEmpty DEF TypeOK
  <2> QED BY <1>6, <2>2, <2>5, <2>6 DEF Unload, TypeOK, clientVars
<1>7. CASE Unlink
  BY <1>7 DEF Unlink, Goto, TypeOK, Jobs, None
<1>8. CASE Unpin
  <2>1. job # NoJob
    BY <1>8, Idle DEF Unpin
  <2>2. job' \in Jobs
    BY <1>8, <2>1 DEF Unpin, At, Goto, TypeOK, Jobs
  <2> QED BY <1>8, <2>2 DEF Unpin, TypeOK, clientVars
<1> QED BY <1>1, <1>2, <1>3, <1>4, <1>5, <1>6, <1>7, <1>8 DEF Daemon

\* A map that loses or gets an entry stays a map for the same programs.
LEMMA MapKept ==
  ASSUME TypeOK, DOMAIN xsks_map' = DOMAIN xsks_map, xsks_map' = [n \in DOMAIN xsks_map |-> xsks_map'[n]],
         \A n \in DOMAIN xsks_map : xsks_map'[n] \in Clients \cup {None}
  PROVE  xsks_map' \in Seq(Clients \cup {None}) /\ Len(xsks_map') = Len(xsks_map)
<1>1. DOMAIN xsks_map = 1 .. Len(xsks_map) /\ Len(xsks_map) \in Nat
  BY LenProperties DEF TypeOK
<1>2. xsks_map' \in Seq(Clients \cup {None})
  BY <1>1, IsASeq
<1>3. DOMAIN xsks_map' = 1 .. Len(xsks_map') /\ Len(xsks_map') \in Nat
  BY <1>2, LenProperties
<1>4. Len(xsks_map') = Len(xsks_map)
  BY <1>1, <1>3
<1> QED BY <1>2, <1>4

LEMMA GoneType ==
  ASSUME TypeOK, NEW c \in Clients, Gone(c)
  PROVE  /\ xsks_map' \in Seq(Clients \cup {None}) /\ Len(xsks_map') = Len(xsks_map)
         /\ DOMAIN xsks_map' = DOMAIN xsks_map
         /\ \A n \in DOMAIN xsks_map : xsks_map'[n] = IF xsks_map[n] = c THEN None ELSE xsks_map[n]
         /\ kills' \in 0 .. KILLS => TypeOK'
<1>1. /\ DOMAIN xsks_map' = DOMAIN xsks_map
      /\ \A n \in DOMAIN xsks_map : xsks_map'[n] = IF xsks_map[n] = c THEN None ELSE xsks_map[n]
      /\ xsks_map' = [n \in DOMAIN xsks_map |-> xsks_map'[n]]
  BY DEF Gone
<1>2. \A n \in DOMAIN xsks_map : xsks_map[n] \in Clients \cup {None}
  BY ElementOfSeq, LenProperties DEF TypeOK
<1>3. xsks_map' \in Seq(Clients \cup {None}) /\ Len(xsks_map') = Len(xsks_map)
  BY <1>1, <1>2, MapKept
<1>4. kills' \in 0 .. KILLS => TypeOK'
  BY <1>1, <1>3 DEF Gone, TypeOK, Stages
<1> QED BY <1>1, <1>3, <1>4

LEMMA InsertType ==
  ASSUME TypeOK, NEW c \in Clients, Insert(c)
  PROVE  /\ xsks_map' \in Seq(Clients \cup {None}) /\ Len(xsks_map') = Len(xsks_map)
         /\ DOMAIN xsks_map' = DOMAIN xsks_map
         /\ \A n \in DOMAIN xsks_map : xsks_map'[n] = IF n = map[c] THEN c ELSE xsks_map[n]
         /\ TypeOK'
<1>1. /\ DOMAIN xsks_map' = DOMAIN xsks_map
      /\ \A n \in DOMAIN xsks_map : xsks_map'[n] = IF n = map[c] THEN c ELSE xsks_map[n]
      /\ xsks_map' = [n \in DOMAIN xsks_map |-> xsks_map'[n]]
  BY DEF Insert
<1>2. \A n \in DOMAIN xsks_map : xsks_map[n] \in Clients \cup {None}
  BY ElementOfSeq, LenProperties DEF TypeOK
<1>3. xsks_map' \in Seq(Clients \cup {None}) /\ Len(xsks_map') = Len(xsks_map)
  BY <1>1, <1>2, MapKept
<1>4. TypeOK'
  BY <1>1, <1>3 DEF Insert, TypeOK, Stages
<1> QED BY <1>1, <1>3, <1>4

\* A command goes to the end of those that wait.
LEMMA Queued ==
  ASSUME TypeOK, NEW c \in Clients, NEW op \in {"create", "delete"},
         pending' = [pending EXCEPT ![c] = Append(@, op)]
  PROVE  /\ pending' \in [Clients -> Seq({"create", "delete"})]
         /\ Range(pending'[c]) = Range(pending[c]) \cup {op}
         /\ \A d \in Clients \ {c} : pending'[d] = pending[d]
<1>1. pending[c] \in Seq({"create", "delete"})
  BY DEF TypeOK
<1>2. Append(pending[c], op) \in Seq({"create", "delete"})
  BY <1>1, AppendProperties
<1>3. Range(Append(pending[c], op)) = Range(pending[c]) \cup {op}
  BY <1>1, RangeOfAppend
<1> QED BY <1>2, <1>3 DEF TypeOK

LEMMA ClientType == ASSUME TypeOK, NEW c \in Clients, Client(c) PROVE TypeOK'
<1>1. CASE Start(c)
  <2>1. pending' \in [Clients -> Seq({"create", "delete"})]
    BY <1>1, Queued DEF Start
  <2>2. starts' \in 0 .. STARTS
    BY <1>1, PacketPathAssumption DEF Start, TypeOK
  <2> QED BY <1>1, <2>1, <2>2 DEF Start, TypeOK, Stages, portVars
<1>2. CASE Created(c)
  BY <1>2 DEF Created, TypeOK, Stages, portVars
<1>3. CASE CreateSocket(c)
  BY <1>3 DEF CreateSocket, TypeOK, Stages, portVars
<1>4. CASE OpenMap(c)
  BY <1>4, PacketPathAssumption DEF OpenMap, TypeOK, Stages, portVars
<1>5. CASE Insert(c)
  BY <1>5, InsertType
<1>6. CASE Crash(c)
  BY <1>6, GoneType DEF Crash, TypeOK
<1>7. CASE Stop(c)
  <2>1. pending' \in [Clients -> Seq({"create", "delete"})]
    BY <1>7, Queued DEF Stop
  <2> QED BY <1>7, <2>1 DEF Stop, TypeOK, Stages, portVars
<1>8. CASE Exit(c)
  BY <1>8, GoneType DEF Exit, TypeOK
<1>9. CASE Kill(c)
  <2>1. kills' \in 0 .. KILLS
    BY <1>9, PacketPathAssumption DEF Kill, TypeOK
  <2> QED BY <1>9, <2>1, GoneType DEF Kill
<1> QED BY <1>1, <1>2, <1>3, <1>4, <1>5, <1>6, <1>7, <1>8, <1>9 DEF Client

LEMMA NextType == TypeOK /\ [Next]_vars => TypeOK'
<1> SUFFICES ASSUME TypeOK, [Next]_vars PROVE TypeOK'
  OBVIOUS
<1>1. CASE UNCHANGED vars
  BY <1>1 DEF vars, portVars, clientVars, TypeOK
<1>2. CASE Over
  BY <1>2 DEF Over, vars, portVars, clientVars, TypeOK
<1> QED BY <1>1, <1>2, DaemonType, ClientType DEF Next

\* Every variable keeps its type, and a program is never on two interfaces.
THEOREM TypeCorrect == Spec => []TypeOK
BY InitType, NextType, PTL DEF Spec

-----------------------------------------------------------------------------
(* The order of a client's set-up.                                         *)

LEMMA InitOrder == Init => SetUpInOrder
<1> SUFFICES ASSUME Init PROVE SetUpInOrder
  OBVIOUS
<1>1. \A c \in Clients : stage[c] = "off" /\ c \notin bound /\ ~InMap(c)
  BY DEF Init, InMap
<1> QED BY <1>1 DEF SetUpInOrder

\* A step of the daemon neither makes a create_port due nor undoes an answer.
LEMMA DaemonOrder == IInv /\ Daemon => SetUpInOrder'
<1> SUFFICES ASSUME IInv, Daemon PROVE SetUpInOrder'
  OBVIOUS
<1> USE DEF IInv
<1>1. stage' = stage /\ bound' \subseteq bound
  BY DEF Daemon, Take, Script, Attach, Unpin, Pin, UpdateDevmap, Unload, Unlink, clientVars
<1>2. \A c \in Clients : InMap(c)' => InMap(c)
  <2>1. CASE Attach
    <3>1. xsks_map \in Seq(Clients \cup {None}) /\ DOMAIN xsks_map = 1 .. Len(xsks_map)
          /\ Len(xsks_map) \in Nat
      BY LenProperties DEF TypeOK
    <3>2. /\ DOMAIN xsks_map' = 1 .. Len(xsks_map) + 1
          /\ \A n \in 1 .. Len(xsks_map) : xsks_map'[n] = xsks_map[n]
          /\ xsks_map'[Len(xsks_map) + 1] = None
      BY <2>1, <3>1 DEF Attach
    <3> QED BY <3>1, <3>2, PacketPathAssumption DEF InMap, None
  <2>2. CASE ~Attach
    BY <2>2 DEF Daemon, Take, Script, Unpin, Pin, UpdateDevmap, Unload, Unlink, portVars, InMap
  <2> QED BY <2>1, <2>2
<1>3. \A c \in Clients : (Answered(c) => Answered(c)') /\ (CreateDue(c)' => CreateDue(c))
  <2>1. ASSUME NEW d \in Clients, Take(d)
        PROVE  \A c \in Clients : (Answered(c) => Answered(c)') /\ (CreateDue(c)' => CreateDue(c))
    <3>1. pending[d] \in Seq({"create", "delete"}) /\ pending[d] # <<>>
      BY <2>1 DEF Take, TypeOK
    <3>2. Range(Tail(pending[d])) \subseteq Range(pending[d]) /\ Head(pending[d]) \in Range(pending[d])
      BY <3>1, RangeOfTail
    <3>3. /\ pending'[d] = Tail(pending[d])
          /\ \A c \in Clients \ {d} : pending'[c] = pending[c]
          /\ job'.client = d /\ job'.op = Head(pending[d])
      BY <2>1 DEF Take, TypeOK
    <3> QED BY <3>1, <3>2, <3>3 DEF Answered, CreateDue
  <2>2. CASE ~\E d \in Clients : Take(d)
    <3>1. pending' = pending
      BY <2>2 DEF Daemon, Script, Attach, Unpin, Pin, UpdateDevmap, Unload, Unlink
    <3>2. job' = NoJob \/ (job'.client = job.client /\ job'.op = job.op)
      <4>1. job # NoJob
        BY <2>2, Idle DEF Daemon, Script, Attach, Unpin, Pin, UpdateDevmap, Unload, Unlink
      <4>2. \E step : Goto(step)
        BY <2>2 DEF Daemon, Script, Attach, Unpin, Pin, UpdateDevmap, Unload, Unlink
      <4> QED BY <4>1, <4>2 DEF Goto, TypeOK, Jobs
    <3> QED BY <3>1, <3>2, PacketPathAssumption DEF Answered, CreateDue, NoJob, None
  <2> QED BY <2>1, <2>2
<1> QED BY <1>1, <1>2, <1>3 DEF SetUpInOrder

\* What a client that is gone held before is nobody's.
LEMMA GoneOrder == ASSUME IInv, NEW c \in Clients, Gone(c) PROVE SetUpInOrder'
<1>1. ~InMap(c)' /\ \A d \in Clients : InMap(d)' => InMap(d)
  BY GoneType, PacketPathAssumption DEF IInv, InMap, None
<1>2. /\ stage'[c] = "off" /\ \A d \in Clients \ {c} : stage'[d] = stage[d]
      /\ bound' = bound \ {c} /\ job' = job /\ pending' = pending
  BY DEF Gone, IInv, TypeOK
<1>3. \A d \in Clients : (Answered(d)' <=> Answered(d)) /\ (CreateDue(d)' <=> CreateDue(d))
  BY <1>2 DEF Answered, CreateDue
<1> QED BY <1>1, <1>2, <1>3 DEF IInv, SetUpInOrder

LEMMA ClientOrder == ASSUME IInv, NEW c \in Clients, Client(c) PROVE SetUpInOrder'
<1> USE DEF IInv
<1>1. CASE Start(c) \/ Stop(c)
  <2> DEFINE op == IF Start(c) THEN "create" ELSE "delete"
  <2>1. /\ Range(pending'[c]) = Range(pending[c]) \cup {op}
        /\ \A d \in Clients \ {c} : pending'[d] = pending[d]
    BY <1>1, Queued DEF Start, Stop
  <2>2. /\ \A d \in Clients \ {c} : stage'[d] = stage[d]
        /\ bound' = bound /\ job' = job /\ xsks_map' = xsks_map
        /\ Start(c) => stage[c] = "off" /\ stage'[c] = "create"
        /\ ~Start(c) => stage[c] # "off" /\ stage'[c] = "delete"
    <3>1. CASE Start(c)
      BY <3>1 DEF Start, TypeOK, portVars
    <3>2. CASE ~Start(c)
      BY <1>1, <3>2 DEF Stop, TypeOK, portVars
    <3> QED BY <3>1, <3>2
  <2>3. \A d \in Clients : InMap(d)' <=> InMap(d)
    BY <2>2 DEF InMap
  <2>4. /\ \A d \in Clients \ {c} : (Answered(d)' <=> Answered(d)) /\ (CreateDue(d)' <=> CreateDue(d))
        /\ ~Start(c) => (CreateDue(c)' <=> CreateDue(c))
    BY <2>1, <2>2 DEF Answered, CreateDue
  <2> QED BY <2>2, <2>3, <2>4 DEF SetUpInOrder
<1>2. CASE Created(c) \/ CreateSocket(c) \/ OpenMap(c) \/ Insert(c)
  <2>1. /\ \A d \in Clients \ {c} : stage'[d] = stage[d]
        /\ \/ Created(c) /\ stage[c] = "create" /\ stage'[c] = "socket" /\ bound' = bound
           \/ stage[c] = "socket" /\ stage'[c] = "map" /\ bound' = bound \cup {c}
           \/ stage[c] = "map" /\ stage'[c] = "insert" /\ bound' = bound
           \/ stage[c] = "insert" /\ stage'[c] = "running" /\ bound' = bound
        /\ Insert(c) => stage[c] = "insert"
        /\ job' = job /\ pending' = pending
    BY <1>2 DEF Created, CreateSocket, OpenMap, Insert, TypeOK
  <2>2. \A d \in Clients : (Answered(d)' <=> Answered(d)) /\ (CreateDue(d)' <=> CreateDue(d))
    BY <2>1 DEF Answered, CreateDue
  <2>3. Answered(c) /\ ~CreateDue(c)
    <3>1. Answered(c)
      BY <1>2, <2>1 DEF SetUpInOrder, Created
    <3> QED BY <3>1, RangeOfEmpty DEF Answered, CreateDue
  <2>4. \A d \in Clients : InMap(d)' => InMap(d) \/ (d = c /\ Insert(c))
    BY <1>2, InsertType DEF Created, CreateSocket, OpenMap, InMap, portVars
  <2>5. \A d \in Clients \ {c} :
          /\ stage'[d] \in {"socket", "map", "insert", "running"} => Answered(d)'
          /\ d \in bound' => stage'[d] \in {"map", "insert", "running", "delete"} /\ ~CreateDue(d)'
          /\ InMap(d)' => stage'[d] \in {"running", "delete"} /\ ~CreateDue(d)'
    BY <2>1, <2>2, <2>4 DEF SetUpInOrder
  <2>6. /\ c \in bound => stage[c] \in {"map", "insert"}
        /\ ~InMap(c)
    BY <2>1 DEF SetUpInOrder
  <2>7. /\ c \in bound' => stage'[c] \in {"map", "insert", "running", "delete"}
        /\ InMap(c)' => stage'[c] \in {"running", "delete"}
    BY <2>1, <2>4, <2>6
  <2> QED BY <2>2, <2>3, <2>5, <2>7 DEF SetUpInOrder
<1>3. CASE Crash(c) \/ Exit(c) \/ Kill(c)
  BY <1>3, GoneOrder DEF Crash, Exit, Kill
<1> QED BY <1>1, <1>2, <1>3 DEF Client

LEMMA NextIInv == IInv /\ [Next]_vars => IInv'
<1> SUFFICES ASSUME IInv, [Next]_vars PROVE SetUpInOrder'
  BY NextType DEF IInv
<1>1. CASE UNCHANGED vars \/ Over
  BY <1>1 DEF Over, vars, portVars, clientVars, IInv, SetUpInOrder, InMap, Answered, CreateDue
<1> QED BY <1>1, DaemonOrder, ClientOrder DEF Next

LEMMA Inductive == Spec => []IInv
<1>1. Init => IInv
  BY InitType, InitOrder DEF IInv
<1> QED BY <1>1, NextIInv, PTL DEF Spec

-----------------------------------------------------------------------------
(* What becomes of a frame.                                                *)

\* The first program of an interface that does not pass a frame on.
LEMMA FirstDecides ==
  ASSUME NEW f, NEW p, Deciding(f, p) # {}, TypeOK, p \in Prefixes
  PROVE  LET first == CHOOSE k \in Deciding(f, p) : \A l \in Deciding(f, p) : k <= l
         IN  first \in Deciding(f, p) /\ first \in DOMAIN inner[p] /\ inner[p][first] \in DOMAIN xsks_map
<1>1. inner[p] \in Seq(DOMAIN xsks_map) /\ DOMAIN inner[p] = 1 .. Len(inner[p])
  BY LenProperties DEF TypeOK
<1>2. Deciding(f, p) \subseteq 1 .. Len(inner[p]) /\ Len(inner[p]) \in Nat
  BY <1>1, LenProperties DEF Deciding
<1>3. \E k \in Deciding(f, p) : \A l \in Deciding(f, p) : k <= l
  <2>1. IsWellFoundedOn(OpToRel(<, Nat), Nat)
    BY NatLessThanWellFounded
  <2>2. Deciding(f, p) \subseteq Nat
    BY <1>2
  <2>3. PICK k \in Deciding(f, p) : \A l \in Deciding(f, p) : ~(<<l, k>> \in OpToRel(<, Nat))
    BY <2>1, <2>2, WFMin
  <2>4. \A l \in Deciding(f, p) : ~(l < k)
    BY <2>2, <2>3 DEF OpToRel
  <2> QED BY <2>2, <2>4
<1>4. \A k \in DOMAIN inner[p] : inner[p][k] \in DOMAIN xsks_map
  BY <1>1, ElementOfSeq
<1> QED BY <1>1, <1>2, <1>3, <1>4

\* Of all frames, only those taken for ICMP go further than to the stack.
LEMMA OnlyIcmp ==
  ASSUME NEW f \in Frames, NEW icmp, Verdict(f, icmp) \notin {"XDP_DROP", "XDP_PASS"}
  PROVE  f = IcmpFrame
BY DEF Verdict, Frames, IcmpFrame

\* A socket that gets a frame is that of a client that is alive and has made its
\* entry, on the port that the device redirects to; and the frame is whole up to
\* its IP header, which says ICMP.
THEOREM FramesToTheirSockets == Spec => []SocketsGetTheirFrames
<1>1. ASSUME IInv, NEW f \in Frames, AtDevice(f) \in Clients
      PROVE  /\ stage[AtDevice(f)] \in {"running", "delete"}
             /\ devmap = Name[AtDevice(f)]
             /\ f = IcmpFrame
  <2> USE PacketPathAssumption DEF IInv
  <2>1. xdp_redirect(f) \notin {"XDP_DROP", "XDP_PASS"} /\ AtDevice(f) = AtInner(f, devmap)
    BY <1>1 DEF AtDevice
  <2>2. f = IcmpFrame /\ devmap # None
    <3>1. f = IcmpFrame
      BY <2>1, OnlyIcmp DEF xdp_redirect
    <3>2. devmap = None => xdp_redirect(f) \in {"XDP_DROP", "XDP_PASS"}
      BY DEF xdp_redirect, Verdict, Frames
    <3> QED BY <2>1, <3>1, <3>2
  <2>3. devmap \in Prefixes
    BY <1>1, <2>2 DEF TypeOK
  <2> DEFINE first == CHOOSE k \in Deciding(f, devmap) : \A l \in Deciding(f, devmap) : k <= l
             n == inner[devmap][first]
             c == xsks_map[n]
  <2>4. /\ Deciding(f, devmap) # {}
        /\ AtInner(f, devmap) = c /\ c \in bound /\ Name[c] = devmap
    BY <1>1, <2>1 DEF AtInner
  <2>5. n \in DOMAIN xsks_map
    BY <1>1, <2>3, <2>4, FirstDecides
  <2>6. c \in Clients /\ InMap(c)
    BY <1>1, <2>1, <2>4, <2>5 DEF InMap
  <2>7. stage[c] \in {"running", "delete"}
    BY <1>1, <2>6 DEF SetUpInOrder
  <2> QED BY <2>1, <2>2, <2>4, <2>7
<1>2. IInv => SocketsGetTheirFrames
  BY <1>1 DEF SocketsGetTheirFrames
<1> QED BY Inductive, <1>2, PTL

\* No ICMP frame gets past the programs of an inner interface.
THEOREM IcmpNeverPasses == Spec => []NoIcmpToTheStack
<1>1. ASSUME TypeOK, NEW p \in Prefixes, inner[p] # <<>>
      PROVE  AtInner(IcmpFrame, p) # "stack"
  <2> USE PacketPathAssumption
  <2>1. inner[p] \in Seq(DOMAIN xsks_map) /\ 1 \in DOMAIN inner[p]
    BY <1>1, LenProperties, EmptySeq DEF TypeOK
  <2>2. Deciding(IcmpFrame, p) # {}
    BY <2>1 DEF Deciding, xdp_sock_prog, Verdict, IcmpFrame
  <2> QED BY <1>1, <2>2 DEF AtInner, TypeOK
<1>2. TypeOK => NoIcmpToTheStack
  BY <1>1 DEF NoIcmpToTheStack
<1> QED BY TypeCorrect, <1>2, PTL

-----------------------------------------------------------------------------
(* What the clients hold while their port is there.                        *)

LEMMA InitOwn == Init => KnownWhereAttached /\ TakenDownInOrder
<1> SUFFICES ASSUME Init PROVE KnownWhereAttached /\ TakenDownInOrder
  OBVIOUS
<1>1. \A p \in Prefixes : Range(inner[p]) = {} /\ inner[p] = <<>>
  BY RangeOfEmpty DEF Init
<1>2. ~At("unlink") /\ \A c \in Clients : ~InMap(c) /\ stage[c] = "off"
  BY DEF Init, At, NoJob, InMap
<1> QED BY <1>1, <1>2 DEF KnownWhereAttached, TakenDownInOrder

\* After a step of the daemon, which step the command is at.
LEMMA StepOfCommand ==
  ASSUME TypeOK, Daemon
  PROVE  /\ At("unpin")' => Attach
         /\ At("pin")' => Unpin
         /\ At("unlink")' => Unload
         /\ Attach \/ Unpin \/ Unload => Prefix' = Prefix /\ Prefix \in Prefixes
<1>1. CASE \E c \in Clients : Take(c)
  BY <1>1 DEF Take, At, Attach, Unpin, Unload, NoJob
<1>2. CASE Attach \/ Unpin \/ Unload
  <2>1. job # NoJob
    BY <1>2, Idle DEF Attach, Unpin, Unload
  <2>2. job'.client = job.client
    BY <1>2, <2>1 DEF Attach, Unpin, Unload, Goto, TypeOK, Jobs
  <2>3. Prefix \in Prefixes
    BY <2>1, Working
  <2>4. /\ Attach => job'.step = "unpin"
        /\ Unpin => job'.step = "pin"
        /\ Unload => job'.step = "unlink"
    BY <1>2, <2>1 DEF Attach, Unpin, Unload, Goto, TypeOK, Jobs
  <2> QED BY <1>2, <2>2, <2>3, <2>4 DEF Prefix, At
<1>3. CASE Script \/ Pin \/ UpdateDevmap \/ Unlink
  <2>1. job # NoJob
    BY <1>3, Idle DEF Script, Pin, UpdateDevmap, Unlink
  <2>2. job'.step \in {"attach", "devmap", "done"}
    BY <1>3, <2>1 DEF Script, Pin, UpdateDevmap, Unlink, Goto, NoJob, TypeOK, Jobs
  <2>3. ~Attach /\ ~Unpin /\ ~Unload
    BY <1>3 DEF Script, Pin, UpdateDevmap, Unlink, Attach, Unpin, Unload, At
  <2> QED BY <2>2, <2>3 DEF At
<1> QED BY <1>1, <1>2, <1>3 DEF Daemon

\* A new program has no entry, is pinned for no interface and opened by nobody.
LEMMA AttachEffect ==
  ASSUME TypeOK, Attach
  PROVE  LET n == Len(xsks_map) + 1 IN
         /\ n = Len(xsks_map') /\ n \notin DOMAIN xsks_map /\ n # 0
         /\ DOMAIN xsks_map' = DOMAIN xsks_map \cup {n}
         /\ \A m \in DOMAIN xsks_map : xsks_map'[m] = xsks_map[m]
         /\ xsks_map'[n] = None
         /\ \A p \in Prefixes : /\ Range(inner[p]) \subseteq DOMAIN xsks_map
                                /\ Range(inner'[p]) = IF p = Prefix THEN Range(inner[p]) \cup {n}
                                                                    ELSE Range(inner[p])
                                /\ inner'[p] = IF p = Prefix THEN Append(inner[p], n) ELSE inner[p]
<1> DEFINE n == Len(xsks_map) + 1
<1>1. /\ xsks_map \in Seq(Clients \cup {None}) /\ DOMAIN xsks_map = 1 .. Len(xsks_map)
      /\ Len(xsks_map) \in Nat
  BY LenProperties DEF TypeOK
<1>2. /\ Len(xsks_map') = n /\ DOMAIN xsks_map' = 1 .. n
      /\ \A m \in 1 .. Len(xsks_map) : xsks_map'[m] = xsks_map[m]
      /\ xsks_map'[n] = None
  BY <1>1 DEF Attach
<1>3. DOMAIN xsks_map' = DOMAIN xsks_map \cup {n} /\ n \notin DOMAIN xsks_map /\ n # 0
  BY <1>1, <1>2
<1>4. ASSUME NEW p \in Prefixes
      PROVE  /\ Range(inner[p]) \subseteq DOMAIN xsks_map
             /\ Range(inner'[p]) = IF p = Prefix THEN Range(inner[p]) \cup {n} ELSE Range(inner[p])
             /\ inner'[p] = IF p = Prefix THEN Append(inner[p], n) ELSE inner[p]
  <2>1. inner[p] \in Seq(DOMAIN xsks_map)
    BY DEF TypeOK
  <2>2. inner'[p] = IF p = Prefix THEN Append(inner[p], n) ELSE inner[p]
    BY <1>2 DEF Attach, TypeOK
  <2>3. Range(inner[p]) \subseteq DOMAIN xsks_map
    BY <2>1, RangeWithin
  <2>4. Range(Append(inner[p], n)) = Range(inner[p]) \cup {n}
    BY <2>1, RangeOfAppend
  <2> QED BY <2>2, <2>3, <2>4
<1> QED BY <1>1, <1>2, <1>3, <1>4

LEMMA UnloadEffect ==
  ASSUME TypeOK, Unload
  PROVE  \A p \in Prefixes : inner'[p] = IF p = Prefix THEN <<>> ELSE inner[p]
BY DEF Unload, TypeOK

\* The programs of an interface have maps.
LEMMA AttachedExist ==
  ASSUME TypeOK, NEW p \in Prefixes, NEW n \in Range(inner[p])
  PROVE  n \in DOMAIN xsks_map /\ n \in Nat \ {0}
<1>1. inner[p] \in Seq(DOMAIN xsks_map) /\ DOMAIN xsks_map = 1 .. Len(xsks_map) /\ Len(xsks_map) \in Nat
  BY LenProperties DEF TypeOK
<1> QED BY <1>1, RangeWithin

LEMMA DaemonKnown == OwnInv /\ Daemon => KnownWhereAttached'
<1> SUFFICES ASSUME OwnInv, Daemon PROVE KnownWhereAttached'
  OBVIOUS
<1>0. TypeOK /\ KnownWhereAttached
  BY DEF OwnInv, IInv
<1>1. CASE Attach
  <2> DEFINE new == Len(xsks_map) + 1
  <2>1. ASSUME NEW p \in Prefixes, NEW n \in Range(inner'[p])
        PROVE  /\ \A q \in Prefixes : pinned'[q] = n => q = p
               /\ \A c \in Clients : map'[c] = n \/ xsks_map'[n] = c => Name[c] = p
               /\ At("unpin")' \/ At("pin")' => (n = Len(xsks_map') => p = Prefix')
    <3>1. pinned' = pinned /\ map' = map
      BY <1>1 DEF Attach, clientVars
    <3>2. CASE n \in Range(inner[p])
      <4>1. n \in DOMAIN xsks_map /\ xsks_map'[n] = xsks_map[n] /\ n # Len(xsks_map')
        BY <1>0, <1>1, <3>2, AttachEffect
      <4> QED BY <1>0, <3>1, <3>2, <4>1 DEF KnownWhereAttached
    <3>3. CASE n = new /\ p = Prefix
      <4>1. new \notin DOMAIN xsks_map \cup {0} /\ xsks_map'[new] = None
        BY <1>0, <1>1, AttachEffect
      <4>2. (\A q \in Prefixes : pinned[q] # new) /\ (\A c \in Clients : map[c] # new /\ None # c)
        BY <1>0, <4>1, PacketPathAssumption DEF TypeOK, None
      <4> QED BY <1>0, <1>1, <3>1, <3>3, <4>1, <4>2, StepOfCommand
    <3> QED BY <1>0, <1>1, <2>1, <3>2, <3>3, AttachEffect
  <2> QED BY <2>1 DEF KnownWhereAttached
<1>2. CASE ~Attach
  <2>1. ~At("unpin")' /\ (At("pin")' => Unpin)
    BY <1>0, <1>2, StepOfCommand
  <2>2. map' = map /\ xsks_map' = xsks_map
    BY <1>2 DEF Daemon, Take, Script, Unpin, Pin, UpdateDevmap, Unload, Unlink, portVars, clientVars
  <2>3. ASSUME NEW p \in Prefixes, NEW n \in Range(inner'[p])
        PROVE  n \in Range(inner[p])
    <3>1. CASE Unload
      BY <1>0, <2>3, <3>1, UnloadEffect, RangeOfEmpty
    <3>2. CASE ~Unload
      BY <1>2, <2>3, <3>2 DEF Daemon, Take, Script, Unpin, Pin, UpdateDevmap, Unlink, portVars
    <3> QED BY <3>1, <3>2
  <2>4. ASSUME NEW p \in Prefixes, NEW n \in Range(inner[p]), NEW q \in Prefixes, pinned'[q] = n
        PROVE  q = p
    <3>1. CASE Pin
      <4>1. pinned'[q] = IF q = Prefix /\ pinned[q] = 0 THEN Len(xsks_map) ELSE pinned[q]
        BY <1>0, <3>1 DEF Pin, TypeOK
      <4>2. CASE q = Prefix
        BY <1>0, <2>4, <3>1, <4>1, <4>2 DEF KnownWhereAttached, Pin
      <4>3. CASE q # Prefix
        BY <1>0, <2>4, <4>1, <4>3 DEF KnownWhereAttached
      <4> QED BY <4>2, <4>3
    <3>2. CASE Unpin
      <4>1. pinned'[q] = IF q = Prefix THEN 0 ELSE pinned[q]
        BY <1>0, <3>2 DEF Unpin, TypeOK
      <4> QED BY <1>0, <2>4, <4>1, AttachedExist DEF KnownWhereAttached
    <3>3. CASE ~Pin /\ ~Unpin
      <4>1. pinned' = pinned
        BY <1>2, <3>3 DEF Daemon, Take, Script, UpdateDevmap, Unload, Unlink, portVars
      <4> QED BY <1>0, <2>4, <4>1 DEF KnownWhereAttached
    <3> QED BY <3>1, <3>2, <3>3
  <2>5. ASSUME NEW p \in Prefixes, NEW n \in Range(inner[p]), At("pin")', n = Len(xsks_map')
        PROVE  p = Prefix'
    BY <1>0, <2>1, <2>2, <2>5, StepOfCommand DEF KnownWhereAttached, Unpin
  <2> QED BY <1>0, <2>1, <2>2, <2>3, <2>4, <2>5 DEF KnownWhereAttached
<1> QED BY <1>1, <1>2

LEMMA ClientKnown == ASSUME OwnInv, NEW c \in Clients, Client(c) PROVE KnownWhereAttached'
<1>0. TypeOK /\ KnownWhereAttached
  BY DEF OwnInv, IInv
<1>1. inner' = inner /\ pinned' = pinned /\ job' = job
  BY DEF Client, Start, Created, CreateSocket, OpenMap, Insert, Crash, Stop, Exit, Kill, Gone, portVars
<1>2. Len(xsks_map') = Len(xsks_map)
  BY <1>0, GoneType, InsertType
     DEF Client, Start, Created, CreateSocket, OpenMap, Crash, Stop, Exit, Kill, portVars
<1>3. ASSUME NEW p \in Prefixes, NEW n \in Range(inner[p]), NEW d \in Clients,
             map'[d] = n \/ xsks_map'[n] = d
      PROVE  Name[d] = p
  <2>0. n \in DOMAIN xsks_map /\ n # 0
    BY <1>0, AttachedExist
  <2>1. CASE OpenMap(c)
    <3>1. xsks_map' = xsks_map /\ map'[d] = IF d = c THEN pinned[Name[c]] ELSE map[d]
      BY <1>0, <2>1 DEF OpenMap, portVars, TypeOK
    <3>2. Name[c] \in Prefixes
      BY PacketPathAssumption
    <3> QED BY <1>0, <1>3, <3>1, <3>2 DEF KnownWhereAttached
  <2>2. CASE Insert(c)
    <3>1. map' = map /\ xsks_map'[n] = IF n = map[c] THEN c ELSE xsks_map[n]
      BY <1>0, <2>0, <2>2, InsertType DEF Insert
    <3> QED BY <1>0, <1>3, <3>1 DEF KnownWhereAttached
  <2>3. CASE Gone(c)
    <3>1. map'[d] = IF d = c THEN 0 ELSE map[d]
      BY <1>0, <2>3 DEF Gone, TypeOK
    <3>2. xsks_map'[n] = d => xsks_map[n] = d
      BY <1>0, <2>0, <2>3, GoneType, PacketPathAssumption DEF None
    <3> QED BY <1>0, <1>3, <2>0, <3>1, <3>2 DEF KnownWhereAttached
  <2>4. CASE Start(c) \/ Created(c) \/ CreateSocket(c) \/ Stop(c)
    <3>1. map' = map /\ xsks_map' = xsks_map
      BY <2>4 DEF Start, Created, CreateSocket, Stop, portVars
    <3> QED BY <1>0, <1>3, <3>1 DEF KnownWhereAttached
  <2> QED BY <2>1, <2>2, <2>3, <2>4 DEF Client, Crash, Exit, Kill
<1>4. SUFFICES ASSUME NEW p \in Prefixes, NEW n \in Range(inner[p])
               PROVE  /\ \A q \in Prefixes : pinned'[q] = n => q = p
                      /\ \A d \in Clients : map'[d] = n \/ xsks_map'[n] = d => Name[d] = p
                      /\ At("unpin")' \/ At("pin")' => (n = Len(xsks_map') => p = Prefix')
  BY <1>1 DEF KnownWhereAttached
<1>5. \A q \in Prefixes : pinned'[q] = n => q = p
  BY <1>0, <1>1 DEF KnownWhereAttached
<1>6. \A d \in Clients : map'[d] = n \/ xsks_map'[n] = d => Name[d] = p
  BY <1>3
<1>7. At("unpin")' \/ At("pin")' => (n = Len(xsks_map') => p = Prefix')
  <2>1. (At("unpin")' <=> At("unpin")) /\ (At("pin")' <=> At("pin")) /\ Prefix' = Prefix
    BY <1>1 DEF At, Prefix
  <2> QED BY <1>0, <1>2, <2>1 DEF KnownWhereAttached
<1> QED BY <1>5, <1>6, <1>7

\* A client with a name of its own: only its commands touch its port.
LEMMA OwnCommands ==
  ASSUME IInv, job # NoJob, NEW c \in Clients, Alone(c), Name[c] = Prefix
  PROVE  job.client = c /\ ~Answered(c)
BY Working DEF IInv, Alone, Prefix, Answered

LEMMA DaemonDown == OwnInv /\ Daemon => TakenDownInOrder'
<1> SUFFICES ASSUME OwnInv, Daemon PROVE TakenDownInOrder'
  OBVIOUS
<1>0. IInv /\ TypeOK /\ SetUpInOrder /\ TakenDownInOrder
  BY DEF OwnInv, IInv
<1>1. At("unlink")' => inner'[Prefix'] = <<>>
  BY <1>0, StepOfCommand, UnloadEffect
<1>2. stage' = stage
  BY DEF Daemon, Take, Script, Attach, Unpin, Pin, UpdateDevmap, Unload, Unlink, clientVars
<1>3. ASSUME NEW c \in Clients, Alone(c), stage[c] \in {"map", "insert", "running"}
      PROVE  c \in bound'
  <2>1. c \in bound /\ Answered(c)
    BY <1>0, <1>3 DEF TakenDownInOrder, SetUpInOrder
  <2>2. CASE Unlink
    <3>1. job # NoJob
      BY <2>2, Idle DEF Unlink
    <3>2. Name[c] # Prefix
      BY <1>0, <1>3, <2>1, <3>1, OwnCommands
    <3> QED BY <2>1, <2>2, <3>2 DEF Unlink
  <2>3. CASE ~Unlink
    BY <2>1, <2>3 DEF Daemon, Take, Script, Attach, Unpin, Pin, UpdateDevmap, Unload, clientVars
  <2> QED BY <2>2, <2>3
<1>4. ASSUME NEW c \in Clients, Alone(c), InMap(c)', c \notin bound'
      PROVE  inner'[Name[c]] = <<>>
  <2>0. Name[c] \in Prefixes
    BY PacketPathAssumption
  <2>1. CASE Attach
    <3>1. InMap(c) /\ bound' = bound
      BY <1>0, <1>4, <2>1, AttachEffect, PacketPathAssumption DEF InMap, None, Attach, clientVars
    <3>2. inner[Name[c]] = <<>> /\ ~CreateDue(c)
      BY <1>0, <1>4, <3>1 DEF TakenDownInOrder, SetUpInOrder
    <3>3. job # NoJob
      BY <2>1, Idle DEF Attach
    <3>4. job.op = "create"
      BY <1>0, <2>1, <3>3, Working DEF Attach, At
    <3>5. Name[c] # Prefix
      BY <1>0, <1>4, <3>2, <3>3, <3>4, OwnCommands DEF CreateDue
    <3> QED BY <1>0, <2>0, <2>1, <3>2, <3>5, AttachEffect
  <2>2. CASE Unlink
    <3>1. InMap(c) /\ inner' = inner
      BY <1>4, <2>2 DEF InMap, Unlink
    <3>2. CASE c \in bound
      BY <1>0, <1>4, <2>2, <3>1, <3>2 DEF Unlink, TakenDownInOrder
    <3>3. CASE c \notin bound
      BY <1>0, <1>4, <3>1, <3>3 DEF TakenDownInOrder
    <3> QED BY <3>2, <3>3
  <2>3. CASE ~Attach /\ ~Unlink
    <3>1. InMap(c) /\ c \notin bound
      BY <1>4, <2>3 DEF InMap, Daemon, Take, Script, Unpin, Pin, UpdateDevmap, Unload, portVars, clientVars
    <3>2. inner[Name[c]] = <<>>
      BY <1>0, <1>4, <3>1 DEF TakenDownInOrder
    <3>3. CASE Unload
      BY <1>0, <2>0, <3>2, <3>3, UnloadEffect
    <3>4. CASE ~Unload
      BY <2>3, <3>2, <3>4 DEF Daemon, Take, Script, Unpin, Pin, UpdateDevmap, portVars
    <3> QED BY <3>3, <3>4
  <2> QED BY <2>1, <2>2, <2>3
<1> QED BY <1>1, <1>2, <1>3, <1>4 DEF TakenDownInOrder

LEMMA ClientDown == ASSUME OwnInv, NEW c \in Clients, Client(c) PROVE TakenDownInOrder'
<1>0. IInv /\ TypeOK /\ TakenDownInOrder
  BY DEF OwnInv, IInv
<1>1. inner' = inner /\ job' = job
  BY DEF Client, Start, Created, CreateSocket, OpenMap, Insert, Crash, Stop, Exit, Kill, Gone, portVars
<1>2. ASSUME NEW d \in Clients, Alone(d)
      PROVE  /\ stage'[d] \in {"map", "insert", "running"} => d \in bound'
             /\ InMap(d)' /\ d \notin bound' => inner[Name[d]] = <<>>
  <2>1. CASE Gone(c)
    <3>1. /\ d # c => stage'[d] = stage[d] /\ (d \in bound' <=> d \in bound)
          /\ d = c => stage'[d] = "off"
      BY <1>0, <2>1 DEF Gone, TypeOK
    <3>2. InMap(d)' => InMap(d) /\ d # c
      BY <1>0, <2>1, GoneType, PacketPathAssumption DEF InMap, None
    <3> QED BY <1>0, <1>2, <3>1, <3>2 DEF TakenDownInOrder
  <2>2. CASE Insert(c)
    <3>1. /\ bound' = bound
          /\ d # c => stage'[d] = stage[d]
          /\ stage[c] = "insert"
      BY <1>0, <2>2 DEF Insert, TypeOK
    <3>2. InMap(d)' => InMap(d) \/ d = c
      BY <1>0, <2>2, InsertType DEF InMap
    <3> QED BY <1>0, <1>2, <3>1, <3>2 DEF TakenDownInOrder
  <2>3. CASE Start(c) \/ Created(c) \/ CreateSocket(c) \/ OpenMap(c) \/ Stop(c)
    <3>1. bound \subseteq bound' /\ xsks_map' = xsks_map
      BY <2>3 DEF Start, Created, CreateSocket, OpenMap, Stop, portVars
    <3>2. stage'[d] \in {"map", "insert", "running"} => d \in bound' \/ stage[d] \in {"map", "insert", "running"}
      <4>1. CASE CreateSocket(c)
        BY <1>0, <4>1 DEF CreateSocket, TypeOK
      <4>2. CASE ~CreateSocket(c)
        BY <1>0, <2>3, <4>2 DEF Start, Created, OpenMap, Stop, TypeOK
      <4> QED BY <4>1, <4>2
    <3>3. InMap(d)' => InMap(d)
      BY <3>1 DEF InMap
    <3> QED BY <1>0, <1>2, <3>1, <3>2, <3>3 DEF TakenDownInOrder
  <2> QED BY <2>1, <2>2, <2>3 DEF Client, Crash, Exit, Kill
<1> QED BY <1>0, <1>1, <1>2 DEF TakenDownInOrder, At, Prefix

LEMMA NextOwnInv == OwnInv /\ [Next]_vars => OwnInv'
<1> SUFFICES ASSUME OwnInv, [Next]_vars PROVE KnownWhereAttached' /\ TakenDownInOrder'
  BY NextIInv DEF OwnInv
<1>1. CASE UNCHANGED vars \/ Over
  <2>1. /\ inner' = inner /\ xsks_map' = xsks_map /\ pinned' = pinned /\ job' = job
        /\ stage' = stage /\ bound' = bound /\ map' = map
    BY <1>1 DEF Over, vars, portVars, clientVars
  <2>2. /\ Prefix' = Prefix /\ (At("unlink")' <=> At("unlink"))
        /\ (At("unpin")' <=> At("unpin")) /\ (At("pin")' <=> At("pin"))
        /\ \A c : InMap(c)' <=> InMap(c)
    BY <2>1 DEF Prefix, At, InMap
  <2>3. KnownWhereAttached'
    BY <2>1, <2>2 DEF OwnInv, KnownWhereAttached
  <2>4. TakenDownInOrder'
    BY <2>1, <2>2 DEF OwnInv, TakenDownInOrder
  <2> QED BY <2>3, <2>4
<1> QED BY <1>1, DaemonKnown, ClientKnown, DaemonDown, ClientDown DEF Next

LEMMA OwnInductive == Spec => []OwnInv
<1>1. Init => OwnInv
  BY InitType, InitOrder, InitOwn DEF IInv, OwnInv
<1> QED BY <1>1, NextOwnInv, PTL DEF Spec

\* "A set entry here means that the corresponding queue_id has an active AF_XDP
\* socket bound to it": in the map of every program that is attached, for every
\* client that has its name for itself, whatever the others do.
THEOREM EntriesAreBound == Spec => []EntryIsBound
<1>1. OwnInv => EntryIsBound
  <2> SUFFICES ASSUME OwnInv, NEW p \in Prefixes, NEW n \in Range(inner[p]),
                      xsks_map[n] # None, Alone(xsks_map[n])
               PROVE  xsks_map[n] \in bound
    BY DEF EntryIsBound
  <2> DEFINE c == xsks_map[n]
  <2>0. TypeOK /\ KnownWhereAttached /\ TakenDownInOrder
    BY DEF OwnInv, IInv
  <2>1. n \in DOMAIN xsks_map
    BY <2>0, AttachedExist
  <2>2. c \in Clients /\ InMap(c)
    BY <2>0, <2>1, ElementOfSeq, LenProperties DEF TypeOK, InMap
  <2>3. Name[c] = p
    BY <2>0, <2>2 DEF KnownWhereAttached
  <2>4. inner[p] # <<>>
    BY RangeOfEmpty
  <2> QED BY <2>0, <2>2, <2>3, <2>4 DEF TakenDownInOrder
<1> QED BY OwnInductive, <1>1, PTL

-----------------------------------------------------------------------------
(* The map that is pinned.                                                 *)

LEMMA InitNewest == Init => NewestInv
<1> SUFFICES ASSUME Init PROVE NewestInv
  OBVIOUS
<1>1. \A c \in Clients : stage[c] = "off" /\ job.client # c
  BY PacketPathAssumption DEF Init, NoJob, None
<1> QED BY <1>1, InitType, InitOrder DEF NewestInv, IInv, MapOf

\* A step that leaves alone what the pinned map of c depends on.
LEMMA MapUndisturbed ==
  ASSUME NEW c \in Clients, MapOf(c),
         stage'[c] = stage[c], pending'[c] = pending[c], map'[c] = map[c],
         inner'[Name[c]] = inner[Name[c]], pinned'[Name[c]] = pinned[Name[c]],
         \/ job.client # c /\ job'.client # c
         \/ job' = job /\ Len(xsks_map') = Len(xsks_map)
  PROVE  MapOf(c)'
<1>1. Newest(c)' <=> Newest(c)
  BY DEF Newest
<1>2. CASE job.client # c /\ job'.client # c
  BY <1>1, <1>2 DEF MapOf, Answered
<1>3. CASE job' = job /\ Len(xsks_map') = Len(xsks_map)
  <2>1. (Loading(c)' <=> Loading(c)) /\ (Answered(c)' <=> Answered(c))
    BY <1>1, <1>3 DEF Loading, At, Answered
  <2> QED BY <1>1, <1>3, <2>1 DEF MapOf
<1> QED BY <1>2, <1>3

\* The end of a sequence that loses its head.
LEMMA LastOfTail ==
  ASSUME NEW S, NEW s \in Seq(S), s # <<>>
  PROVE  /\ Tail(s) = <<>> => Head(s) = s[Len(s)]
         /\ Tail(s) # <<>> => Tail(s)[Len(Tail(s))] = s[Len(s)]
<1>1. Len(s) \in Nat \ {0}
  BY LenProperties, EmptySeq
<1>2. /\ Tail(s) \in Seq(S) /\ Len(Tail(s)) = Len(s) - 1
      /\ \A k \in 1 .. Len(Tail(s)) : Tail(s)[k] = s[k + 1]
      /\ Head(s) = s[1]
  BY HeadTailProperties
<1>3. Tail(s) = <<>> <=> Len(Tail(s)) = 0
  BY <1>2, EmptySeq
<1>4. CASE Len(s) = 1
  BY <1>2, <1>3, <1>4
<1>5. CASE Len(s) > 1
  <2>1. Len(s) - 1 \in 1 .. Len(Tail(s)) /\ (Len(s) - 1) + 1 = Len(s)
    BY <1>1, <1>2, <1>5
  <2>2. Tail(s) # <<>>
    BY <1>1, <1>2, <1>3, <1>5
  <2> QED BY <1>2, <2>1, <2>2
<1> QED BY <1>1, <1>4, <1>5

LEMMA TakeMap ==
  ASSUME IInv, NEW c \in Clients, NEW d \in Clients, Take(d), MapOf(c)
  PROVE  MapOf(c)'
<1>0. TypeOK /\ SetUpInOrder
  BY DEF IInv
<1>1. /\ job = NoJob /\ job.client \notin Clients
      /\ inner' = inner /\ pinned' = pinned /\ stage' = stage /\ map' = map
      /\ pending[d] # <<>> /\ job'.client = d /\ job'.op = Head(pending[d])
      /\ job'.step \in {"script", "unload"}
      /\ pending' = [pending EXCEPT ![d] = Tail(@)]
  BY PacketPathAssumption DEF Take, NoJob, None, portVars, clientVars
<1>2. CASE c # d
  <2>1. pending'[c] = pending[c]
    BY <1>0, <1>1, <1>2 DEF TypeOK
  <2> QED BY <1>1, <1>2, <2>1, MapUndisturbed
<1>3. CASE c = d
  <2>1. pending'[c] = Tail(pending[c]) /\ pending[c] \in Seq({"create", "delete"}) /\ ~Answered(c)
    BY <1>0, <1>1, <1>3 DEF TypeOK, Answered
  <2>2. stage[c] \notin {"socket", "map", "insert", "running"}
    BY <1>0, <2>1 DEF SetUpInOrder
  <2>3. Loading(c)'
    BY <1>1 DEF Loading, At
  <2>4. ASSUME stage[c] = "create"
        PROVE  \/ pending'[c] # <<>> /\ pending'[c][Len(pending'[c])] = "create"
               \/ pending'[c] = <<>> /\ job'.client = c /\ job'.op = "create"
    <3>1. pending[c][Len(pending[c])] = "create"
      BY <1>1, <1>3, <2>1, <2>4 DEF MapOf
    <3> QED BY <1>1, <1>3, <2>1, <3>1, LastOfTail
  <2> QED BY <1>1, <2>2, <2>3, <2>4 DEF MapOf
<1> QED BY <1>2, <1>3

LEMMA WorkMap ==
  ASSUME IInv, NEW c \in Clients, Alone(c), MapOf(c),
         Script \/ Attach \/ Unpin \/ Pin \/ UpdateDevmap \/ Unload \/ Unlink
  PROVE  MapOf(c)'
<1>0. TypeOK /\ SetUpInOrder
  BY DEF IInv
<1>1. job # NoJob
  BY Idle DEF Script, Attach, Unpin, Pin, UpdateDevmap, Unload, Unlink
<1>2. /\ job.client \in Clients /\ Prefix = Name[job.client] /\ Prefix \in Prefixes
      /\ job.op = "create" <=> job.step \in {"script", "attach", "unpin", "pin", "devmap"}
  BY <1>0, <1>1, Working DEF Prefix
<1>3. pending' = pending /\ stage' = stage /\ map' = map
  BY DEF Script, Attach, Unpin, Pin, UpdateDevmap, Unload, Unlink, clientVars
<1>4. Name[c] \in Prefixes
  BY PacketPathAssumption
<1>5. job' = NoJob \/ (job'.client = job.client /\ job'.op = job.op)
  BY <1>0, <1>1 DEF Script, Attach, Unpin, Pin, UpdateDevmap, Unload, Unlink, Goto, TypeOK, Jobs
<1>6. CASE job.client # c
  <2>1. Name[c] # Prefix
    BY <1>2, <1>6 DEF Alone
  <2>2. job'.client # c
    BY <1>5, <1>6, PacketPathAssumption DEF NoJob, None
  <2>3. inner'[Name[c]] = inner[Name[c]]
    BY <1>0, <1>4, <2>1 DEF Script, Attach, Unpin, Pin, UpdateDevmap, Unload, Unlink, TypeOK
  <2>4. pinned'[Name[c]] = pinned[Name[c]]
    BY <1>0, <1>4, <2>1 DEF Script, Attach, Unpin, Pin, UpdateDevmap, Unload, Unlink, TypeOK
  <2> QED BY <1>3, <1>6, <2>2, <2>3, <2>4, MapUndisturbed
<1>7. CASE job.client = c
  <2>1. ~Answered(c) /\ Name[c] = Prefix /\ Loading(c)
    BY <1>2, <1>7 DEF Answered, MapOf
  <2>2. stage[c] \notin {"socket", "map", "insert", "running"}
    BY <1>0, <2>1 DEF SetUpInOrder
  <2>4. job'.client = c => Loading(c)'
    <3>1. CASE Attach
      <4>1. /\ inner[Name[c]] \in Seq(DOMAIN xsks_map)
            /\ inner'[Name[c]] = Append(inner[Name[c]], Len(xsks_map'))
        BY <1>0, <1>4, <2>1, <3>1, AttachEffect DEF TypeOK
      <4>2. /\ inner'[Name[c]] # <<>>
            /\ inner'[Name[c]][Len(inner'[Name[c]])] = Len(xsks_map')
        BY <4>1, AppendProperties
      <4>3. job'.step = "unpin"
        BY <1>0, <1>1, <3>1 DEF Attach, Goto, TypeOK, Jobs
      <4> QED BY <4>2, <4>3 DEF Loading, At
    <3>2. CASE Unpin
      <4>1. job'.step = "pin" /\ inner' = inner /\ xsks_map' = xsks_map /\ pinned'[Name[c]] = 0
        BY <1>0, <1>1, <1>4, <2>1, <3>2 DEF Unpin, Goto, TypeOK, Jobs
      <4> QED BY <2>1, <3>2, <4>1 DEF Loading, At, Unpin
    <3>3. CASE Pin
      <4>1. pinned[Name[c]] = 0
        BY <2>1, <3>3 DEF Loading, Pin
      <4>2. job'.step = "devmap" /\ inner' = inner /\ pinned'[Name[c]] = Len(xsks_map)
        BY <1>0, <1>1, <1>4, <2>1, <3>3, <4>1 DEF Pin, Goto, TypeOK, Jobs
      <4> QED BY <2>1, <3>3, <4>2 DEF Loading, At, Pin, Newest
    <3>4. CASE Script \/ UpdateDevmap \/ Unload \/ Unlink
      <4>1. job'.step \in {"attach", "unlink", "done"}
        BY <1>0, <1>1, <3>4 DEF Script, UpdateDevmap, Unload, Unlink, Goto, NoJob, TypeOK, Jobs
      <4> QED BY <4>1 DEF Loading, At
    <3> QED BY <3>1, <3>2, <3>3, <3>4
  <2>5. ASSUME stage[c] = "create", pending[c] = <<>>
        PROVE  \/ job'.client = c /\ job'.op = "create"
               \/ Answered(c)' /\ Newest(c)'
    <3>1. job.op = "create"
      BY <2>1, <2>5 DEF MapOf
    <3>2. CASE job' # NoJob
      BY <1>5, <1>7, <3>1, <3>2
    <3>3. CASE job' = NoJob
      <4>1. UpdateDevmap
        BY <1>0, <1>1, <1>2, <3>1, <3>3
           DEF Script, Attach, Unpin, Pin, Unload, Unlink, Goto, At, NoJob, TypeOK, Jobs
      <4>2. Newest(c)
        BY <2>1, <4>1 DEF Loading, UpdateDevmap
      <4>3. Newest(c)'
        BY <4>1, <4>2 DEF Newest, UpdateDevmap
      <4>4. Answered(c)'
        BY <1>3, <2>5, <3>3, PacketPathAssumption DEF Answered, NoJob, None
      <4> QED BY <4>3, <4>4
    <3> QED BY <3>2, <3>3
  <2>6. ASSUME stage[c] = "create", pending[c] # <<>>
        PROVE  pending[c][Len(pending[c])] = "create"
    BY <2>1, <2>6 DEF MapOf
  <2> QED BY <1>3, <2>2, <2>4, <2>5, <2>6 DEF MapOf
<1> QED BY <1>6, <1>7

LEMMA ClientMap ==
  ASSUME IInv, NEW c \in Clients, MapOf(c), NEW d \in Clients, Client(d)
  PROVE  MapOf(c)'
<1>0. TypeOK /\ SetUpInOrder
  BY DEF IInv
<1>1. inner' = inner /\ pinned' = pinned /\ job' = job
  BY DEF Client, Start, Created, CreateSocket, OpenMap, Insert, Crash, Stop, Exit, Kill, Gone, portVars
<1>2. Len(xsks_map') = Len(xsks_map)
  BY <1>0, GoneType, InsertType
     DEF Client, Start, Created, CreateSocket, OpenMap, Crash, Stop, Exit, Kill, portVars
<1>3. CASE d # c
  <2>1. stage'[c] = stage[c] /\ map'[c] = map[c]
    BY <1>0, <1>3 DEF Client, Start, Created, CreateSocket, OpenMap, Insert, Crash, Stop, Exit, Kill,
                      Gone, TypeOK
  <2>2. pending'[c] = pending[c]
    BY <1>0, <1>3, Queued
       DEF Client, Start, Created, CreateSocket, OpenMap, Insert, Crash, Stop, Exit, Kill, Gone
  <2> QED BY <1>1, <1>2, <2>1, <2>2, MapUndisturbed
<1>4. CASE d = c
  <2>1. (Newest(c)' <=> Newest(c)) /\ (Loading(c)' <=> Loading(c))
    BY <1>1, <1>2 DEF Newest, Loading, At
  <2>2. CASE Start(c)
    <3>1. /\ stage'[c] = "create" /\ pending'[c] = Append(pending[c], "create")
          /\ pending[c] \in Seq({"create", "delete"})
      BY <1>0, <2>2 DEF Start, TypeOK
    <3>2. pending'[c] # <<>> /\ pending'[c][Len(pending'[c])] = "create"
      BY <3>1, AppendProperties
    <3> QED BY <1>1, <2>1, <3>1, <3>2 DEF MapOf
  <2>3. CASE Created(c)
    <3>1. stage[c] = "create" /\ stage'[c] = "socket" /\ Answered(c)
      BY <1>0, <2>3 DEF Created, TypeOK
    <3>2. Newest(c)
      BY <3>1 DEF MapOf, Answered
    <3> QED BY <1>1, <2>1, <3>1, <3>2 DEF MapOf
  <2>4. CASE CreateSocket(c)
    <3>1. stage[c] = "socket" /\ stage'[c] = "map"
      BY <1>0, <2>4 DEF CreateSocket, TypeOK
    <3> QED BY <1>1, <2>1, <3>1 DEF MapOf
  <2>5. CASE OpenMap(c)
    <3>1. stage[c] = "map" /\ stage'[c] = "insert" /\ map'[c] = pinned[Name[c]]
      BY <1>0, <2>5 DEF OpenMap, TypeOK
    <3> QED BY <1>1, <2>1, <3>1 DEF MapOf
  <2>6. CASE Insert(c)
    <3>1. stage[c] = "insert" /\ stage'[c] = "running" /\ map' = map
      BY <1>0, <2>6 DEF Insert, TypeOK
    <3> QED BY <1>1, <2>1, <3>1 DEF MapOf
  <2>7. CASE Stop(c)
    <3>1. stage'[c] = "delete"
      BY <1>0, <2>7 DEF Stop, TypeOK
    <3> QED BY <1>1, <2>1, <3>1 DEF MapOf
  <2>8. CASE Crash(c) \/ Exit(c) \/ Kill(c)
    <3>1. stage'[c] = "off"
      BY <1>0, <2>8 DEF Crash, Exit, Kill, Gone, TypeOK
    <3> QED BY <1>1, <2>1, <3>1 DEF MapOf
  <2> QED BY <1>4, <2>2, <2>3, <2>4, <2>5, <2>6, <2>7, <2>8 DEF Client
<1> QED BY <1>3, <1>4

LEMMA NextNewestInv == NewestInv /\ [Next]_vars => NewestInv'
<1> SUFFICES ASSUME NewestInv, [Next]_vars, NEW c \in Clients, Alone(c) PROVE MapOf(c)'
  BY NextIInv DEF NewestInv, Alone
<1>0. IInv /\ MapOf(c)
  BY DEF NewestInv
<1>1. CASE Daemon
  BY <1>0, <1>1, TakeMap, WorkMap DEF Daemon
<1>2. CASE \E d \in Clients : Client(d)
  BY <1>0, <1>2, ClientMap
<1>3. CASE UNCHANGED vars \/ Over
  <2>1. UNCHANGED <<inner, xsks_map, pinned, job, pending, stage, map>>
    BY <1>3 DEF Over, vars, portVars, clientVars
  <2> QED BY <1>0, <2>1, MapUndisturbed
<1> QED BY <1>1, <1>2, <1>3 DEF Next

\* "Existing/previous XDP prog might not have cleaned up": a client with a name
\* of its own, killed and started again however often, finds pinned the map of
\* the program that its own request attached, and enters its socket there.
THEOREM MapsAreOfNewest == Spec => []MapIsOfNewest
<1>1. NewestInv => MapIsOfNewest
  BY DEF NewestInv, MapOf, Newest, MapIsOfNewest
<1> QED BY InitNewest, NextNewestInv, <1>1, PTL DEF Spec

-----------------------------------------------------------------------------
(* How far the port of a client has come.                                  *)

PortInv == links \subseteq {Name[c] : c \in Clients}
           /\ devmap \in links \cup {None}
           /\ (At("attach") \/ At("unpin") \/ At("pin") \/ At("devmap") => Prefix \in links)

LEMMA InitServed == Init => PortInv /\ \A c \in Clients : PortOf(c)
<1> SUFFICES ASSUME Init PROVE PortInv /\ \A c \in Clients : PortOf(c)
  OBVIOUS
<1>1. PortInv
  BY DEF Init, PortInv, At, NoJob
<1>2. ASSUME NEW c \in Clients PROVE PortOf(c)
  <2>1. stage[c] = "off" /\ Answered(c) /\ Absent(c)
    BY PacketPathAssumption DEF Init, Answered, Absent, NoJob, None
  <2> QED BY <2>1 DEF PortOf
<1> QED BY <1>1, <1>2

LEMMA DaemonLinks == ASSUME TypeOK, PortInv, Daemon PROVE PortInv'
<1>1. CASE \E c \in Clients : Take(c)
  BY <1>1 DEF Take, PortInv, At, portVars
<1>2. CASE Script \/ Attach \/ Unpin \/ Pin \/ UpdateDevmap \/ Unload \/ Unlink
  <2>1. job # NoJob
    BY <1>2, Idle DEF Script, Attach, Unpin, Pin, UpdateDevmap, Unload, Unlink
  <2>2. job.client \in Clients /\ Prefix = Name[job.client]
    BY <2>1, Working DEF Prefix
  <2>3. job' = NoJob \/ job'.client = job.client
    BY <1>2, <2>1 DEF Script, Attach, Unpin, Pin, UpdateDevmap, Unload, Unlink, Goto, TypeOK, Jobs
  <2>4. CASE Script
    BY <2>2, <2>3, <2>4 DEF Script, PortInv, Prefix, At, NoJob
  <2>5. CASE Attach \/ Unpin \/ Pin
    BY <2>2, <2>3, <2>5 DEF Attach, Unpin, Pin, PortInv, Prefix, At, NoJob
  <2>6. CASE UpdateDevmap
    <3>1. job' = NoJob
      BY <2>6 DEF UpdateDevmap, Goto
    <3> QED BY <2>6, <3>1 DEF UpdateDevmap, PortInv, At, NoJob
  <2>7. CASE Unload
    <3>1. job'.step = "unlink"
      BY <2>1, <2>7 DEF Unload, Goto, TypeOK, Jobs
    <3> QED BY <2>7, <3>1 DEF Unload, PortInv, At
  <2>8. CASE Unlink
    <3>1. job' = NoJob
      BY <2>8 DEF Unlink, Goto
    <3> QED BY <2>8, <3>1 DEF Unlink, PortInv, At, NoJob
  <2> QED BY <1>2, <2>4, <2>5, <2>6, <2>7, <2>8
<1> QED BY <1>1, <1>2 DEF Daemon

\* A step that leaves alone what the port of c is made of.
LEMMA PortUndisturbed ==
  ASSUME TypeOK, NEW c \in Clients, PortOf(c),
         stage'[c] = stage[c], pending'[c] = pending[c], map'[c] = map[c],
         Name[c] \in links' <=> Name[c] \in links,
         inner'[Name[c]] = inner[Name[c]], pinned'[Name[c]] = pinned[Name[c]],
         stage[c] = "running" => xsks_map'[map[c]] = xsks_map[map[c]],
         \/ job.client # c /\ job'.client # c
         \/ job' = job /\ Len(xsks_map') = Len(xsks_map)
  PROVE  PortOf(c)'
<1>1. /\ (Absent(c)' <=> Absent(c)) /\ (Ready(c)' <=> Ready(c))
      /\ pinned'[Name[c]] = pinned[Name[c]]
  BY DEF Absent, Ready
<1>2. CASE job.client # c /\ job'.client # c
  <2>1. Answered(c)' <=> Answered(c)
    BY <1>2 DEF Answered
  <2> QED BY <1>1, <1>2, <2>1 DEF PortOf
<1>3. CASE job' = job /\ Len(xsks_map') = Len(xsks_map)
  <2>1. Answered(c)' <=> Answered(c)
    BY <1>3 DEF Answered
  <2>2. Creating(c)' <=> Creating(c)
    BY <1>1, <1>3 DEF Creating, At
  <2> QED BY <1>1, <1>3, <2>1, <2>2 DEF PortOf
<1> QED BY <1>2, <1>3

LEMMA TakePort ==
  ASSUME IInv, NEW c \in Clients, NEW d \in Clients, Take(d), PortOf(c)
  PROVE  PortOf(c)'
<1>0. TypeOK /\ SetUpInOrder
  BY DEF IInv
<1>1. /\ job = NoJob /\ job.client \notin Clients
      /\ links' = links /\ inner' = inner /\ pinned' = pinned /\ xsks_map' = xsks_map
      /\ stage' = stage /\ map' = map
      /\ pending[d] # <<>> /\ job'.client = d /\ job'.op = Head(pending[d])
      /\ job'.step = IF Head(pending[d]) = "create" THEN "script" ELSE "unload"
      /\ pending' = [pending EXCEPT ![d] = Tail(@)]
  BY PacketPathAssumption DEF Take, NoJob, None, portVars, clientVars
<1>2. CASE c # d
  <2>1. pending'[c] = pending[c]
    BY <1>0, <1>1, <1>2 DEF TypeOK
  <2> QED BY <1>0, <1>1, <1>2, <2>1, PortUndisturbed
<1>3. CASE c = d
  <2>1. pending'[c] = Tail(pending[c]) /\ ~Answered(c)
    BY <1>0, <1>1, <1>3 DEF TypeOK, Answered
  <2>2. (Absent(c)' <=> Absent(c)) /\ (Ready(c)' <=> Ready(c))
    BY <1>1 DEF Absent, Ready
  <2>3. pending[c] = <<"create">> \/ pending[c] = <<"create", "delete">> => (Absent(c) => Creating(c)')
    BY <1>1, <1>3, <2>2 DEF Creating, At
  <2>4. CASE stage[c] = "create"
    <3>1. pending[c] = <<"create">> /\ Absent(c)
      BY <1>1, <1>3, <2>4 DEF PortOf, Answered
    <3>2. pending'[c] = <<>>
      BY <2>1, <3>1
    <3> QED BY <1>1, <1>3, <2>3, <2>4, <3>1, <3>2 DEF PortOf
  <2>5. CASE stage[c] = "delete"
    <3>1. \/ pending[c] = <<"create", "delete">> /\ Absent(c)
          \/ pending[c] = <<"delete">>
      BY <1>1, <1>3, <2>1, <2>5 DEF PortOf
    <3>2. CASE pending[c] = <<"create", "delete">> /\ Absent(c)
      <4>1. pending'[c] = <<"delete">>
        BY <2>1, <3>2
      <4> QED BY <1>1, <1>3, <2>3, <2>5, <3>2, <4>1 DEF PortOf
    <3>3. CASE pending[c] = <<"delete">>
      <4>1. pending'[c] = <<>> /\ job'.op = "delete"
        BY <1>1, <1>3, <2>1, <3>3
      <4> QED BY <1>1, <1>3, <2>5, <4>1 DEF PortOf
    <3> QED BY <3>1, <3>2, <3>3
  <2>6. stage[c] \in {"create", "delete"}
    BY <1>0, <2>1 DEF PortOf, SetUpInOrder, TypeOK, Stages
  <2> QED BY <2>4, <2>5, <2>6
<1> QED BY <1>2, <1>3

LEMMA WorkPort ==
  ASSUME OwnInv, NEW c \in Clients, Alone(c), PortOf(c),
         Script \/ Attach \/ Unpin \/ Pin \/ UpdateDevmap \/ Unload \/ Unlink
  PROVE  PortOf(c)'
<1>0. IInv /\ TypeOK /\ SetUpInOrder /\ TakenDownInOrder
  BY DEF OwnInv, IInv
<1>1. job # NoJob
  BY Idle DEF Script, Attach, Unpin, Pin, UpdateDevmap, Unload, Unlink
<1>2. /\ job.client \in Clients /\ Prefix = Name[job.client] /\ Prefix \in Prefixes
      /\ job.op = "create" <=> job.step \in {"script", "attach", "unpin", "pin", "devmap"}
  BY <1>0, <1>1, Working DEF Prefix
<1>3. pending' = pending /\ stage' = stage /\ map' = map
  BY DEF Script, Attach, Unpin, Pin, UpdateDevmap, Unload, Unlink, clientVars
<1>4. Name[c] \in Prefixes
  BY PacketPathAssumption
<1>5. CASE job.client # c
  <2>1. Name[c] # Prefix
    BY <1>2, <1>5 DEF Alone
  <2>2. job'.client # c
    <3>1. job' = NoJob \/ job'.client = job.client
      BY <1>0, <1>1 DEF Script, Attach, Unpin, Pin, UpdateDevmap, Unload, Unlink, Goto, TypeOK, Jobs
    <3> QED BY <1>5, <3>1, PacketPathAssumption DEF NoJob, None
  <2>3. Name[c] \in links' <=> Name[c] \in links
    BY <2>1 DEF Script, Attach, Unpin, Pin, UpdateDevmap, Unload, Unlink
  <2>4. inner'[Name[c]] = inner[Name[c]]
    BY <1>0, <1>4, <2>1 DEF Script, Attach, Unpin, Pin, UpdateDevmap, Unload, Unlink, TypeOK
  <2>5. pinned'[Name[c]] = pinned[Name[c]]
    BY <1>0, <1>4, <2>1 DEF Script, Attach, Unpin, Pin, UpdateDevmap, Unload, Unlink, TypeOK
  <2>6. ASSUME stage[c] = "running" PROVE xsks_map'[map[c]] = xsks_map[map[c]]
    <3>1. map[c] \in DOMAIN xsks_map
      BY <1>0, <2>6 DEF PortOf, Ready, TypeOK
    <3>2. CASE Attach
      BY <1>0, <3>1, <3>2, AttachEffect
    <3>3. CASE ~Attach
      BY <3>3 DEF Script, Unpin, Pin, UpdateDevmap, Unload, Unlink
    <3> QED BY <3>2, <3>3
  <2> QED BY <1>0, <1>3, <1>5, <2>2, <2>3, <2>4, <2>5, <2>6, PortUndisturbed
<1>6. CASE job.client = c
  <2>1. ~Answered(c) /\ Name[c] = Prefix
    BY <1>2, <1>6 DEF Answered
  <2>2. /\ stage[c] \in {"create", "delete"}
        /\ job.op = "create" =>
             /\ Creating(c)
             /\ pending[c] = IF stage[c] = "create" THEN <<>> ELSE <<"delete">>
        /\ job.op # "create" => stage[c] = "delete" /\ pending[c] = <<>>
    <3>1. stage[c] \in {"create", "delete"}
      BY <1>0, <2>1 DEF PortOf, SetUpInOrder, TypeOK, Stages
    <3>2. CASE stage[c] = "create"
      <4>1. pending[c] = <<>> /\ Creating(c)
        BY <1>6, <2>1, <3>2 DEF PortOf
      <4> QED BY <3>2, <4>1 DEF Creating
    <3>3. CASE stage[c] = "delete"
      <4>1. \/ pending[c] = <<"delete">> /\ Creating(c)
            \/ pending[c] = <<>> /\ job.op = "delete"
        BY <1>6, <2>1, <3>3 DEF PortOf
      <4> QED BY <3>3, <4>1 DEF Creating
    <3> QED BY <3>1, <3>2, <3>3
  \* create_port goes on.
  <2>3. ASSUME Creating(c)', job'.client = c, job.op = "create" PROVE PortOf(c)'
    BY <1>3, <2>2, <2>3 DEF PortOf
  <2>4. CASE Script
    <3>1. job.op = "create" /\ Absent(c) /\ inner' = inner /\ links' = links \cup {Name[c]}
      BY <1>2, <2>1, <2>2, <2>4 DEF Script, At, Creating
    <3>2. job'.client = c /\ job'.op = "create" /\ job'.step = "attach"
      BY <1>0, <1>1, <1>6, <2>4, <3>1 DEF Script, Goto, TypeOK, Jobs
    <3> QED BY <2>3, <3>1, <3>2 DEF Creating, At, Absent
  <2>5. CASE Attach
    <3>1. job.op = "create" /\ inner[Name[c]] = <<>> /\ Name[c] \in links /\ links' = links
      BY <1>2, <2>2, <2>5 DEF Attach, At, Creating
    <3>2. job'.client = c /\ job'.op = "create" /\ job'.step = "unpin"
      BY <1>0, <1>1, <1>6, <2>5, <3>1 DEF Attach, Goto, TypeOK, Jobs
    <3>3. inner'[Name[c]] = <<Len(xsks_map')>> /\ Len(xsks_map') > 0
      <4>1. inner'[Name[c]] = Append(<<>>, Len(xsks_map'))
        BY <1>0, <1>4, <2>1, <2>5, <3>1, AttachEffect
      <4>2. Len(xsks_map) \in Nat /\ Len(xsks_map') = Len(xsks_map) + 1
        BY <1>0, <2>5, AttachEffect, LenProperties DEF TypeOK
      <4> QED BY <4>1, <4>2
    <3> QED BY <2>3, <3>1, <3>2, <3>3 DEF Creating, At
  <2>6. CASE Pin
    <3>1. /\ job.op = "create" /\ Name[c] \in links /\ links' = links /\ inner' = inner
          /\ Len(xsks_map) > 0 /\ inner[Name[c]] = <<Len(xsks_map)>> /\ pinned[Name[c]] = 0
      BY <1>2, <2>2, <2>6 DEF Pin, At, Creating
    <3>2. job'.client = c /\ job'.op = "create" /\ job'.step = "devmap"
      BY <1>0, <1>1, <1>6, <2>6, <3>1 DEF Pin, Goto, TypeOK, Jobs
    <3>3. pinned'[Name[c]] = Len(xsks_map)
      BY <1>0, <1>4, <2>1, <2>6, <3>1 DEF Pin, TypeOK
    <3>4. Ready(c)'
      BY <3>1, <3>3 DEF Ready
    <3> QED BY <2>3, <3>1, <3>2, <3>4 DEF Creating, At
  <2>7. CASE UpdateDevmap
    <3>1. job.op = "create" /\ Ready(c) /\ job' = NoJob
      BY <1>2, <2>2, <2>7 DEF UpdateDevmap, At, Creating, Goto
    <3>2. Ready(c)' /\ job'.client # c
      BY <2>7, <3>1, PacketPathAssumption DEF UpdateDevmap, Ready, NoJob, None
    <3> QED BY <1>3, <2>2, <3>1, <3>2 DEF PortOf, Answered
  <2>8. CASE Unload
    <3>1. job.op # "create"
      BY <1>2, <2>8 DEF Unload, At
    <3>2. job'.client = c /\ job'.op = "delete"
      BY <1>0, <1>1, <1>6, <2>8, <3>1 DEF Unload, Goto, TypeOK, Jobs
    <3> QED BY <1>3, <2>2, <3>1, <3>2 DEF PortOf
  <2>9. CASE Unlink
    <3>1. job.op # "create" /\ job' = NoJob
      BY <1>2, <2>9 DEF Unlink, At, Goto
    <3>2. Absent(c)' /\ job'.client # c
      BY <1>0, <2>1, <2>9, <3>1, PacketPathAssumption DEF Unlink, Absent, TakenDownInOrder, NoJob, None
    <3> QED BY <1>3, <2>2, <3>1, <3>2 DEF PortOf, Answered
  <2>10. CASE Unpin
    <3>1. /\ job.op = "create" /\ Name[c] \in links /\ links' = links /\ inner' = inner
          /\ Len(xsks_map) > 0 /\ inner[Name[c]] = <<Len(xsks_map)>> /\ xsks_map' = xsks_map
      BY <1>2, <2>2, <2>10 DEF Unpin, At, Creating
    <3>2. job'.client = c /\ job'.op = "create" /\ job'.step = "pin"
      BY <1>0, <1>1, <1>6, <2>10, <3>1 DEF Unpin, Goto, TypeOK, Jobs
    <3>3. pinned'[Name[c]] = 0
      BY <1>0, <1>4, <2>1, <2>10 DEF Unpin, TypeOK
    <3> QED BY <2>3, <3>1, <3>2, <3>3 DEF Creating, At
  <2> QED BY <2>4, <2>5, <2>6, <2>7, <2>8, <2>9, <2>10
<1> QED BY <1>5, <1>6

\* A step of another client: it makes no entry in the map that c runs on.
LEMMA OtherClientPort ==
  ASSUME OwnInv, NEW c \in Clients, Alone(c), PortOf(c),
         NEW d \in Clients, d # c, Client(d)
  PROVE  PortOf(c)'
<1>0. TypeOK /\ KnownWhereAttached
  BY DEF OwnInv, IInv
<1>1. links' = links /\ inner' = inner /\ pinned' = pinned /\ job' = job
  BY DEF Client, Start, Created, CreateSocket, OpenMap, Insert, Crash, Stop, Exit, Kill, Gone, portVars
<1>2. Len(xsks_map') = Len(xsks_map)
  BY <1>0, GoneType, InsertType
     DEF Client, Start, Created, CreateSocket, OpenMap, Crash, Stop, Exit, Kill, portVars
<1>3. stage'[c] = stage[c] /\ map'[c] = map[c]
  BY <1>0 DEF Client, Start, Created, CreateSocket, OpenMap, Insert, Crash, Stop, Exit, Kill, Gone, TypeOK
<1>4. pending'[c] = pending[c]
  BY <1>0, Queued DEF Client, Start, Created, CreateSocket, OpenMap, Insert, Crash, Stop, Exit, Kill, Gone
<1>5. ASSUME stage[c] = "running" PROVE xsks_map'[map[c]] = xsks_map[map[c]]
  <2>1. /\ map[c] \in DOMAIN xsks_map /\ xsks_map[map[c]] = c
        /\ inner[Name[c]] = <<map[c]>> /\ Name[c] \in Prefixes
    BY <1>0, <1>5, PacketPathAssumption DEF PortOf, Ready, TypeOK
  <2>2. CASE Insert(d)
    <3>1. map[c] \in Range(inner[Name[c]])
      BY <2>1, RangeOfOne
    <3>2. map[d] # map[c]
      BY <1>0, <2>1, <3>1 DEF KnownWhereAttached, Alone
    <3> QED BY <1>0, <2>1, <2>2, <3>2, InsertType
  <2>3. CASE Gone(d)
    BY <1>0, <2>1, <2>3, GoneType
  <2>4. CASE ~Insert(d) /\ ~Gone(d)
    BY <2>4 DEF Client, Start, Created, CreateSocket, OpenMap, Crash, Stop, Exit, Kill, portVars
  <2> QED BY <2>2, <2>3, <2>4
<1> QED BY <1>0, <1>1, <1>2, <1>3, <1>4, <1>5, PortUndisturbed

LEMMA OwnClientPort ==
  ASSUME OwnInv, NEW c \in Clients, Alone(c), PortOf(c), Client(c), kills' = 0
  PROVE  PortOf(c)'
<1>0. TypeOK /\ SetUpInOrder
  BY DEF OwnInv, IInv
<1>1. links' = links /\ inner' = inner /\ pinned' = pinned /\ job' = job
  BY DEF Client, Start, Created, CreateSocket, OpenMap, Insert, Crash, Stop, Exit, Kill, Gone, portVars
<1>2. (Absent(c)' <=> Absent(c)) /\ (Ready(c)' <=> Ready(c))
  BY <1>1 DEF Absent, Ready
<1>3. CASE Start(c)
  <2>1. stage[c] = "off" /\ stage'[c] = "create" /\ pending'[c] = Append(pending[c], "create")
    BY <1>0, <1>3 DEF Start, TypeOK
  <2>2. pending[c] = <<>> /\ job.client # c /\ Absent(c)
    BY <2>1 DEF PortOf, Answered
  <2>3. pending'[c] = <<"create">>
    BY <2>1, <2>2
  <2> QED BY <1>1, <1>2, <2>1, <2>2, <2>3 DEF PortOf
<1>4. CASE Created(c)
  <2>1. stage[c] = "create" /\ stage'[c] = "socket" /\ Answered(c)
    BY <1>0, <1>4 DEF Created, TypeOK
  <2>2. Ready(c)
    BY <2>1 DEF PortOf, Answered
  <2> QED BY <1>2, <2>1, <2>2 DEF PortOf
<1>5. CASE CreateSocket(c)
  <2>1. stage[c] = "socket" /\ stage'[c] = "map"
    BY <1>0, <1>5 DEF CreateSocket, TypeOK
  <2> QED BY <1>2, <2>1 DEF PortOf
<1>6. CASE OpenMap(c)
  <2>1. stage[c] = "map" /\ stage'[c] = "insert" /\ map'[c] = pinned[Name[c]]
    BY <1>0, <1>6 DEF OpenMap, TypeOK
  <2> QED BY <1>1, <1>2, <2>1 DEF PortOf
<1>7. CASE Insert(c)
  <2>1. stage[c] = "insert" /\ stage'[c] = "running" /\ map' = map
    BY <1>0, <1>7 DEF Insert, TypeOK
  <2>2. Ready(c) /\ map[c] = pinned[Name[c]] /\ map[c] \in DOMAIN xsks_map
    BY <1>0, <2>1 DEF PortOf, Ready, TypeOK
  <2>3. xsks_map'[map[c]] = c
    BY <1>0, <1>7, <2>2, InsertType
  <2> QED BY <1>1, <1>2, <2>1, <2>2, <2>3 DEF PortOf
<1>8. ~Crash(c)
  <2>1. ASSUME stage[c] = "socket" PROVE MayBind(c)
    <3>1. c \notin bound /\ Name[c] \in links
      BY <1>0, <2>1 DEF SetUpInOrder, PortOf, Ready
    <3> QED BY <1>0, <3>1 DEF MayBind, Alone, TypeOK
  <2>2. stage[c] = "map" => pinned[Name[c]] # 0
    BY DEF PortOf, Ready
  <2> QED BY <2>1, <2>2 DEF Crash
<1>9. CASE Stop(c)
  <2>1. /\ stage[c] \in {"create", "socket", "map", "insert", "running"}
        /\ stage'[c] = "delete" /\ pending'[c] = Append(pending[c], "delete")
        /\ xsks_map' = xsks_map
    BY <1>0, <1>9 DEF Stop, TypeOK, portVars
  <2>2. \/ pending[c] = <<"create">> /\ job.client # c /\ Absent(c)
        \/ pending[c] = <<>> /\ job.client = c /\ Creating(c)
        \/ pending[c] = <<>> /\ job.client # c
    <3>1. CASE stage[c] = "create"
      BY <3>1 DEF PortOf, Answered
    <3>2. CASE stage[c] # "create"
      BY <1>0, <2>1, <3>2 DEF SetUpInOrder, Answered
    <3> QED BY <3>1, <3>2
  <2>3. Append(<<>>, "delete") = <<"delete">>
    OBVIOUS
  <2>5. Append(<<"create">>, "delete") = <<"create", "delete">>
    BY AppendToOne
  <2>4. Creating(c)' <=> Creating(c)
    BY <1>1, <1>2, <2>1 DEF Creating, At
  <2> QED BY <1>1, <1>2, <2>1, <2>2, <2>3, <2>4, <2>5 DEF PortOf
<1>10. CASE Exit(c)
  <2>1. stage[c] = "delete" /\ stage'[c] = "off" /\ Answered(c) /\ pending' = pending
    BY <1>0, <1>10 DEF Exit, Gone, TypeOK
  <2>2. Absent(c)
    BY <2>1 DEF PortOf, Answered
  <2> QED BY <1>1, <1>2, <2>1, <2>2 DEF PortOf, Answered
<1>11. ~Kill(c)
  BY <1>0 DEF Kill, TypeOK
<1> QED BY <1>3, <1>4, <1>5, <1>6, <1>7, <1>8, <1>9, <1>10, <1>11 DEF Client

LEMMA NextServedInv == ServedInv /\ [Next]_vars => ServedInv'
<1> SUFFICES ASSUME ServedInv, [Next]_vars PROVE ServedInv'
  OBVIOUS
<1>0. OwnInv /\ IInv /\ TypeOK /\ PortInv /\ (kills = 0 => \A c \in Clients : Alone(c) => PortOf(c))
  BY DEF ServedInv, OwnInv, IInv, PortInv
<1>1. OwnInv'
  BY <1>0, NextOwnInv
<1>2. PortInv'
  <2>1. CASE Daemon
    BY <1>0, <2>1, DaemonLinks
  <2>2. CASE ~Daemon
    <3>1. links' = links /\ devmap' = devmap /\ job' = job
      BY <2>2 DEF Next, Over, vars, portVars, Client, Start, Created, CreateSocket, OpenMap,
                  Insert, Crash, Stop, Exit, Kill, Gone
    <3> QED BY <1>0, <3>1 DEF PortInv, At, Prefix
  <2> QED BY <2>1, <2>2
<1>3. ASSUME kills' = 0, NEW c \in Clients, Alone(c) PROVE PortOf(c)'
  <2>1. kills = 0
    BY <1>0, <1>3 DEF Next, Daemon, Take, Script, Attach, Unpin, Pin, UpdateDevmap, Unload, Unlink,
                      Client, Start, Created, CreateSocket, OpenMap, Insert, Crash, Stop, Exit, Kill,
                      Over, vars, clientVars, TypeOK
  <2>2. PortOf(c)
    BY <1>0, <1>3, <2>1
  <2>3. CASE Daemon
    BY <1>0, <1>3, <2>2, <2>3, TakePort, WorkPort DEF Daemon
  <2>4. CASE \E d \in Clients : Client(d)
    BY <1>0, <1>3, <2>2, <2>4, OwnClientPort, OtherClientPort
  <2>5. CASE UNCHANGED vars \/ Over
    <3>1. UNCHANGED <<links, inner, xsks_map, pinned, job, pending, stage, map>>
      BY <2>5 DEF Over, vars, portVars, clientVars
    <3> QED BY <1>0, <2>2, <3>1, PortUndisturbed
  <2> QED BY <2>3, <2>4, <2>5 DEF Next
<1> QED BY <1>1, <1>2, <1>3 DEF ServedInv, PortInv

LEMMA ServedInductive == Spec => []ServedInv
<1>1. Init => ServedInv
  BY InitType, InitOrder, InitOwn, InitServed DEF IInv, OwnInv, PortInv, ServedInv
<1> QED BY <1>1, NextServedInv, PTL DEF Spec

\* "Receive packets from veth in user space": while no client was killed, every
\* client that runs under a name of its own gets the ICMP redirected to its port.
THEOREM RunningAreServed == Spec => []RunningIsServed
<1>1. ASSUME ServedInv, kills = 0, NEW c \in Clients, Alone(c), stage[c] = "running",
             devmap = Name[c]
      PROVE  AtDevice(IcmpFrame) = c
  <2> USE PacketPathAssumption
  <2> DEFINE n == map[c]
  <2>0. TypeOK /\ OwnInv /\ TakenDownInOrder /\ PortOf(c)
    BY <1>1 DEF ServedInv, OwnInv, IInv
  <2>1. /\ inner[Name[c]] = <<n>> /\ xsks_map[n] = c
    BY <1>1, <2>0 DEF PortOf, Ready
  <2>2. c \in bound
    BY <1>1, <2>0 DEF TakenDownInOrder
  <2>3. \A icmp : Verdict(IcmpFrame, icmp) = icmp
    BY DEF Verdict, IcmpFrame
  <2>4. devmap # None /\ c # None
    BY <1>1 DEF None
  <2>5. xdp_redirect(IcmpFrame) = "XDP_REDIRECT" /\ xdp_sock_prog(IcmpFrame, n) = "XDP_REDIRECT"
    BY <2>1, <2>3, <2>4 DEF xdp_redirect, xdp_sock_prog
  <2>6. Deciding(IcmpFrame, devmap) = {1}
    BY <1>1, <2>1, <2>5 DEF Deciding
  <2>7. (CHOOSE k \in Deciding(IcmpFrame, devmap) : \A l \in Deciding(IcmpFrame, devmap) : k <= l) = 1
    BY <2>6
  <2>8. AtInner(IcmpFrame, devmap) = c
    BY <1>1, <2>1, <2>2, <2>5, <2>6, <2>7 DEF AtInner
  <2> QED BY <1>1, <2>1, <2>5, <2>8 DEF AtDevice
<1>2. ServedInv => RunningIsServed
  BY <1>1 DEF RunningIsServed
<1> QED BY ServedInductive, <1>2, PTL

\* When clients with names of their own have all stopped, and none was killed, no
\* pair is left, and nothing is redirected.
THEOREM NothingStays == ASSUME \A c \in Clients : Alone(c) PROVE Spec => []NothingLeft
<1>1. ASSUME ServedInv, kills = 0, \A c \in Clients : stage[c] = "off"
      PROVE  links = {} /\ devmap = None
  <2>1. \A c \in Clients : Absent(c)
    BY <1>1 DEF ServedInv, PortOf
  <2> QED BY <1>1, <2>1 DEF ServedInv, Absent
<1>2. ServedInv => NothingLeft
  BY <1>1 DEF NothingLeft
<1> QED BY ServedInductive, <1>2, PTL
=============================================================================
