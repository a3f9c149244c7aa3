------------------------ MODULE CommandChannelProofs ------------------------
(***************************************************************************)
(* Theorems about module CommandChannel, for any number of clients and of  *)
(* signals and every length of the backlog.  What they rest on is order: a *)
(* client's connections are accepted in the order they were made, and one  *)
(* that is served is not left with a command that could still be executed. *)
(***************************************************************************)
EXTENDS CommandChannel, TLAPS, SequenceTheorems

Numbers(c) == 1 .. Len(requests[c])

\* The command was executed, successfully or not.
Handled(r) == r.data \in {"taken", "failed"}

\* Where the socket thread serves no connection.
Unoccupied == {"bind", "listen", "check", "accept", "ended"}

\* How the parts of one request go together.
WellFormed(r) ==
  /\ r.step = "connect" <=> r.peer = "none"
  /\ r.step \in {"connect", "write"} <=> r.data = "none"
  /\ r.step = "done" => r.peer = "closed"
  /\ r.answered => Handled(r)
  /\ r.peer = "closed" => r.data # "sent"
  /\ Handled(r) => r.peer \in {"open", "closed"}
  /\ r.data = "lost" => r.peer = "closed"

\* What a client asks for, and when: its port first, then the name of the
\* interface, and from then on only the deletion of its port.
InSequence(c) ==
  /\ Len(requests[c]) \in 1 .. 3 + signals[c]
  /\ \A n \in Numbers(c) :
       /\ WellFormed(requests[c][n])
       /\ requests[c][n].op = "create_port" <=> n = 1
       /\ requests[c][n].op = "get_phy_if" => n = 2 /\ requests[c][1].step = "done"
  /\ stage[c] \in {"setup", "running"} => requests[c][1].step = "done"
  /\ Now(c).step = "done" => Now(c).op = "get_phy_if" \/ stage[c] = "exited"
  /\ stage[c] = "exited" => Now(c).op = "delete_port" /\ Now(c).step = "done"

\* A connection of c is accepted only when none that c made earlier waits or is
\* served.
AcceptedInOrder(c) ==
  \A n, m \in Numbers(c) :
    n < m /\ requests[c][n].peer \in {"backlog", "open"}
      => requests[c][m].peer \in {"none", "backlog"}

\* The backlog holds exactly the connections that wait, each client's in the
\* order they were made.
Queue ==
  /\ \A i \in 1 .. Len(backlog) :
       /\ backlog[i][1] \in Clients /\ backlog[i][2] \in Numbers(backlog[i][1])
       /\ requests[backlog[i][1]][backlog[i][2]].peer = "backlog"
  /\ \A i, j \in 1 .. Len(backlog) :
       i < j /\ backlog[i][1] = backlog[j][1] => backlog[i][2] < backlog[j][2]
  /\ \A c \in Clients : \A n \in Numbers(c) :
       requests[c][n].peer = "backlog" => \E i \in 1 .. Len(backlog) : backlog[i] = <<c, n>>

\* The connection that is served is the only one that is open.
OneServed ==
  /\ serving = None <=> server \in Unoccupied
  /\ serving # None =>
       /\ serving[1] \in Clients /\ serving[2] \in Numbers(serving[1])
       /\ Served.peer = "open" \/ (Served.peer = "closed" /\ Served.step = "done")
       /\ server = "write" => Handled(Served)
  /\ \A c \in Clients : \A n \in Numbers(c) :
       requests[c][n].peer = "open" => serving = <<c, n>>

\* Some deletion of the port of c was executed; was executed without a failure.
DeletionTried(c) ==
  \E n \in Numbers(c) : requests[c][n].op = "delete_port" /\ Handled(requests[c][n])
Deleted(c) ==
  \E n \in Numbers(c) : requests[c][n].op = "delete_port" /\ requests[c][n].data = "taken"

\* There is no port before create_port was executed, nor after a deletion in
\* which nothing failed; and there is one in between, if nothing failed in its
\* creation and no deletion was tried.
PortFollows(c) ==
  /\ c \in ports => Handled(requests[c][1]) /\ ~Deleted(c)
  /\ requests[c][1].data = "taken" /\ ~DeletionTried(c) => c \in ports

\* The inductive invariant.
IInv ==
  /\ TypeOK
  /\ \A c \in Clients : InSequence(c) /\ AcceptedInOrder(c) /\ PortFollows(c)
  /\ Queue /\ OneServed

-----------------------------------------------------------------------------
(* What a step does to the requests.                                       *)

LEMMA FunctionIsSeq ==
  ASSUME NEW S, NEW n \in Nat, NEW f \in [1 .. n -> S]
  PROVE  f \in Seq(S) /\ Len(f) = n
OBVIOUS

\* A connection of a client is a client and one of its requests.
LEMMA ConnectionPair ==
  ASSUME NEW c \in Clients, NEW n
  PROVE  <<c, n>>[1] = c /\ <<c, n>>[2] = n /\ <<c, n>> # None
BY DEF None

\* Request n of client c becomes r, and new ones that were just made follow.
Changed(c, n, r) ==
  \A d \in Clients :
    /\ Len(requests'[d]) \in Nat /\ Len(requests'[d]) >= Len(requests[d])
    /\ d # c => Len(requests'[d]) = Len(requests[d])
    /\ \A m \in Numbers(d) :
         requests'[d][m] = IF d = c /\ m = n THEN r ELSE requests[d][m]
    /\ \A m \in Numbers(d)' : m > Len(requests[d]) =>
         \E op \in Ops : requests'[d][m] = Request(op)

LEMMA ChangeOne ==
  ASSUME requests \in [Clients -> Seq(RequestType)],
         NEW c \in Clients, NEW n \in Numbers(c), NEW r \in RequestType,
         requests' = [requests EXCEPT ![c][n] = r]
  PROVE  /\ requests' \in [Clients -> Seq(RequestType)] /\ Changed(c, n, r)
         /\ Len(requests'[c]) = Len(requests[c])
<1>1. requests[c] \in Seq(RequestType) /\ n \in 1 .. Len(requests[c])
  BY DEF Numbers
<1>2. requests' = [requests EXCEPT ![c] = [requests[c] EXCEPT ![n] = r]]
  OBVIOUS
<1>3. /\ [requests[c] EXCEPT ![n] = r] \in Seq(RequestType)
      /\ Len([requests[c] EXCEPT ![n] = r]) = Len(requests[c])
      /\ \A m \in 1 .. Len(requests[c]) :
           [requests[c] EXCEPT ![n] = r][m] = IF m = n THEN r ELSE requests[c][m]
  BY <1>1, ExceptSeq
<1>4. \A d \in Clients : Len(requests[d]) \in Nat
  BY LenProperties
<1>5. QED
  BY <1>2, <1>3, <1>4 DEF Changed, Numbers

\* A request is added, the one before it having become r.
LEMMA AddOne ==
  ASSUME requests \in [Clients -> Seq(RequestType)],
         NEW c \in Clients, NEW n \in Numbers(c), NEW r \in RequestType, NEW op \in Ops,
         requests' = [[requests EXCEPT ![c][n] = r] EXCEPT ![c] = Append(@, Request(op))]
  PROVE  /\ requests' \in [Clients -> Seq(RequestType)] /\ Changed(c, n, r)
         /\ Len(requests'[c]) = Len(requests[c]) + 1
         /\ requests'[c][Len(requests[c]) + 1] = Request(op)
<1> DEFINE s == [requests[c] EXCEPT ![n] = r]
<1>1. requests[c] \in Seq(RequestType) /\ n \in 1 .. Len(requests[c])
  BY DEF Numbers
<1>2. requests' = [requests EXCEPT ![c] = Append(s, Request(op))]
  OBVIOUS
<1>3. /\ s \in Seq(RequestType) /\ Len(s) = Len(requests[c])
      /\ \A m \in 1 .. Len(requests[c]) : s[m] = IF m = n THEN r ELSE requests[c][m]
  BY <1>1, ExceptSeq
<1>4. \A d \in Clients : Len(requests[d]) \in Nat
  BY LenProperties
<1>5. Request(op) \in RequestType
  BY DEF Request, RequestType
<1> HIDE DEF s
<1>6. /\ Append(s, Request(op)) \in Seq(RequestType)
      /\ Len(Append(s, Request(op))) = Len(s) + 1
      /\ Append(s, Request(op))[Len(s) + 1] = Request(op)
      /\ \A m \in 1 .. Len(s) : Append(s, Request(op))[m] = s[m]
  BY <1>3, <1>5, AppendProperties
<1>7. QED
  BY <1>2, <1>3, <1>4, <1>6 DEF Changed, Numbers

LEMMA RequestIsTyped ==
  /\ \A op \in Ops : Request(op) \in RequestType
  /\ \A op : /\ Request(op).op = op /\ Request(op).step = "connect"
             /\ Request(op).data = "none" /\ Request(op).peer = "none"
             /\ Request(op).answered = FALSE /\ ~Handled(Request(op))
             /\ WellFormed(Request(op))
BY DEF Request, RequestType, WellFormed, Handled

\* The request at hand is the last one.
LEMMA AtHand ==
  ASSUME requests \in [Clients -> Seq(RequestType)], NEW c \in Clients,
         Len(requests[c]) \in 1 .. 3 + signals[c], signals[c] \in Nat
  PROVE  /\ Last(c) \in Numbers(c) /\ Now(c) = requests[c][Last(c)]
         /\ Now(c) \in RequestType /\ Last(c) \in Nat
<1>1. requests[c] \in Seq(RequestType) /\ Len(requests[c]) \in Nat
  BY LenProperties
<1>2. Last(c) \in Numbers(c) /\ Last(c) \in Nat
  BY <1>1 DEF Last, Numbers
<1>3. requests[c][Last(c)] \in RequestType
  BY <1>1, <1>2, ElementOfSeq DEF Numbers
<1>4. QED
  BY <1>2, <1>3 DEF Now

LEMMA RequestTyped ==
  ASSUME requests \in [Clients -> Seq(RequestType)], NEW c \in Clients, NEW n \in Numbers(c)
  PROVE  requests[c][n] \in RequestType /\ Len(requests[c]) \in Nat /\ n \in Nat
<1>1. requests[c] \in Seq(RequestType) /\ Len(requests[c]) \in Nat
  BY LenProperties
<1>2. QED
  BY <1>1, ElementOfSeq DEF Numbers

-----------------------------------------------------------------------------
(* What keeps the parts of the invariant.                                  *)

\* The sequence of the requests of another client.
LEMMA OthersInSequence ==
  ASSUME TypeOK, NEW c, NEW n, NEW r, Changed(c, n, r), NEW d \in Clients, d # c,
         InSequence(d), stage'[d] = stage[d], signals'[d] = signals[d]
  PROVE  InSequence(d)'
<1>1. Len(requests[d]) \in Nat
  BY LenProperties DEF TypeOK
<1>2. Len(requests'[d]) = Len(requests[d])
  BY DEF Changed
<1>3. \A m \in Numbers(d) : requests'[d][m] = requests[d][m]
  BY DEF Changed
<1>4. 1 \in Numbers(d) /\ Len(requests[d]) \in Numbers(d)
  BY <1>1 DEF InSequence, Numbers, TypeOK
<1>5. Now(d)' = Now(d)
  BY <1>2, <1>3, <1>4 DEF Now, Last
<1>6. QED
  BY <1>1, <1>2, <1>3, <1>4, <1>5 DEF InSequence, Numbers

\* A step of a request that neither begins nor ends it.
LEMMA KeepsSequence ==
  ASSUME TypeOK, \A d \in Clients : InSequence(d), UNCHANGED <<stage, signals>>,
         NEW c \in Clients, NEW n \in Numbers(c), NEW r, Changed(c, n, r),
         Len(requests'[c]) = Len(requests[c]),
         WellFormed(r), r.op = requests[c][n].op,
         r.step = "done" <=> requests[c][n].step = "done"
  PROVE  \A d \in Clients : InSequence(d)'
<1>1. Len(requests[c]) \in Nat
  BY LenProperties DEF TypeOK
<1>3. \A m \in Numbers(c) : requests'[c][m] = IF m = n THEN r ELSE requests[c][m]
  BY DEF Changed
<1>4. 1 \in Numbers(c) /\ Len(requests[c]) \in Numbers(c)
  BY <1>1 DEF InSequence, Numbers, TypeOK
<1>5. /\ Now(c)'.op = Now(c).op
      /\ Now(c)'.step = "done" <=> Now(c).step = "done"
  BY <1>3, <1>4 DEF Now, Last
<1>6. InSequence(c)'
  BY <1>1, <1>3, <1>4, <1>5 DEF InSequence, Numbers
<1>7. QED
  BY <1>6, OthersInSequence

\* A connection that was not accepted stays so, or is accepted no more.
LEMMA KeepsOrder ==
  ASSUME TypeOK, \A d \in Clients : AcceptedInOrder(d),
         NEW c \in Clients, NEW n \in Numbers(c), NEW r, Changed(c, n, r),
         \/ r.peer = requests[c][n].peer
         \/ r.peer \in {"closed", "reset"} /\ requests[c][n].peer \in {"open", "closed"}
         \/ /\ r.peer = "backlog" /\ requests[c][n].peer = "none"
            /\ n = Len(requests[c]) /\ Len(requests'[c]) = Len(requests[c])
  PROVE  \A d \in Clients : AcceptedInOrder(d)'
<1> SUFFICES ASSUME NEW d \in Clients, NEW k \in Numbers(d)', NEW m \in Numbers(d)',
                    k < m, requests'[d][k].peer \in {"backlog", "open"}
             PROVE  requests'[d][m].peer \in {"none", "backlog"}
  BY DEF AcceptedInOrder
<1>1. Len(requests[d]) \in Nat
  BY LenProperties DEF TypeOK
<1>2. k \in Nat /\ m \in Nat /\ k >= 1 /\ m >= 1
  BY DEF Numbers, Changed
<1>3. CASE m > Len(requests[d])
  BY <1>3, RequestIsTyped DEF Changed
<1>4. CASE m <= Len(requests[d])
  <2>1. k \in Numbers(d) /\ m \in Numbers(d)
    BY <1>1, <1>2, <1>4 DEF Numbers
  <2>2. requests[d][k].peer \in {"backlog", "open"} => requests[d][m].peer \in {"none", "backlog"}
    BY <2>1 DEF AcceptedInOrder
  <2>3. /\ requests'[d][m] = IF d = c /\ m = n THEN r ELSE requests[d][m]
        /\ requests'[d][k] = IF d = c /\ k = n THEN r ELSE requests[d][k]
    BY <2>1 DEF Changed
  <2>4. d = c /\ n = Len(requests[c]) => k # n
    BY <1>1, <1>2, <1>4
  <2>5. QED
    BY <2>2, <2>3, <2>4
<1>5. QED
  BY <1>1, <1>2, <1>3, <1>4

\* The backlog stays, and what waits.
LEMMA KeepsQueue ==
  ASSUME TypeOK, Queue, backlog' = backlog,
         NEW c \in Clients, NEW n \in Numbers(c), NEW r, Changed(c, n, r),
         r.peer = "backlog" <=> requests[c][n].peer = "backlog"
  PROVE  Queue'
<1>1. \A d \in Clients : Len(requests[d]) \in Nat
  BY LenProperties DEF TypeOK
<1>2. \A d \in Clients : Numbers(d) \subseteq Numbers(d)'
  BY <1>1 DEF Changed, Numbers
<1>3. \A d \in Clients : \A m \in Numbers(d) :
        requests'[d][m].peer = "backlog" <=> requests[d][m].peer = "backlog"
  BY DEF Changed
<1>4. \A d \in Clients : \A m \in Numbers(d)' :
        requests'[d][m].peer = "backlog" => m \in Numbers(d)
  <2> SUFFICES ASSUME NEW d \in Clients, NEW m \in Numbers(d)', m \notin Numbers(d)
               PROVE  requests'[d][m].peer # "backlog"
    OBVIOUS
  <2>1. m > Len(requests[d])
    BY <1>1 DEF Numbers, Changed
  <2>2. QED
    BY <2>1, RequestIsTyped DEF Changed
<1>5. QED
  BY <1>2, <1>3, <1>4 DEF Queue

\* No command is executed.
LEMMA KeepsPorts ==
  ASSUME TypeOK, \A d \in Clients : InSequence(d) /\ PortFollows(d), ports' = ports,
         NEW c \in Clients, NEW n \in Numbers(c), NEW r, Changed(c, n, r),
         r.op = requests[c][n].op,
         \A data \in {"taken", "failed"} : r.data = data <=> requests[c][n].data = data
  PROVE  \A d \in Clients : PortFollows(d)'
<1> SUFFICES ASSUME NEW d \in Clients PROVE PortFollows(d)'
  OBVIOUS
<1>1. Len(requests[d]) \in Nat /\ 1 \in Numbers(d)
  BY LenProperties DEF TypeOK, InSequence, Numbers
<1>2. Numbers(d) \subseteq Numbers(d)'
  BY <1>1 DEF Changed, Numbers
<1>3. \A m \in Numbers(d) :
        /\ requests'[d][m].op = requests[d][m].op
        /\ requests'[d][m].data = "taken" <=> requests[d][m].data = "taken"
        /\ Handled(requests'[d][m]) <=> Handled(requests[d][m])
  BY DEF Changed, Handled
<1>4. \A m \in Numbers(d)' : Handled(requests'[d][m]) => m \in Numbers(d)
  <2> SUFFICES ASSUME NEW m \in Numbers(d)', m \notin Numbers(d)
               PROVE  ~Handled(requests'[d][m])
    OBVIOUS
  <2>1. m > Len(requests[d])
    BY <1>1 DEF Numbers, Changed
  <2>2. QED
    BY <2>1, RequestIsTyped DEF Changed
<1>5. (Deleted(d)' <=> Deleted(d)) /\ (DeletionTried(d)' <=> DeletionTried(d))
  BY <1>2, <1>3, <1>4 DEF Deleted, DeletionTried, Handled
<1>6. QED
  BY <1>1, <1>3, <1>5 DEF PortFollows

\* The connection that is served stays open, or its client closes it.
LEMMA KeepsServed ==
  ASSUME TypeOK, OneServed, serving' = serving,
         NEW c \in Clients, NEW n \in Numbers(c), NEW r, Changed(c, n, r),
         \/ server' = server
         \/ serving # None /\ server' = "read"
         \/ serving = <<c, n>> /\ server' = "write" /\ Handled(r),
         r.peer = "open" => requests[c][n].peer = "open",
         requests[c][n].peer = "open" => r.peer = "open" \/ (r.peer = "closed" /\ r.step = "done"),
         requests[c][n].peer = "closed" /\ requests[c][n].step = "done" =>
           r.peer = "closed" /\ r.step = "done",
         Handled(requests[c][n]) => Handled(r)
  PROVE  OneServed'
<1>1. \A d \in Clients : Len(requests[d]) \in Nat
  BY LenProperties DEF TypeOK
<1>2. \A d \in Clients : Numbers(d) \subseteq Numbers(d)'
  BY <1>1 DEF Changed, Numbers
<1>3. \A d \in Clients : \A m \in Numbers(d)' :
        requests'[d][m].peer = "open" => m \in Numbers(d) /\ requests[d][m].peer = "open"
  <2> SUFFICES ASSUME NEW d \in Clients, NEW m \in Numbers(d)', requests'[d][m].peer = "open"
               PROVE  m \in Numbers(d) /\ requests[d][m].peer = "open"
    OBVIOUS
  <2>1. m \notin Numbers(d) => m > Len(requests[d])
    BY <1>1 DEF Numbers, Changed
  <2>2. m \in Numbers(d)
    BY <2>1, RequestIsTyped DEF Changed
  <2>3. QED
    BY <2>2 DEF Changed
<1>4. serving # None => /\ serving[1] \in Clients /\ serving[2] \in Numbers(serving[1])
                        /\ Served' = IF serving[1] = c /\ serving[2] = n THEN r ELSE Served
  BY DEF OneServed, Served, Changed
<1>5. serving # None =>
        /\ serving[2] \in Numbers(serving[1])'
        /\ Served'.peer = "open" \/ (Served'.peer = "closed" /\ Served'.step = "done")
        /\ server' = "write" => Handled(Served')
  BY <1>2, <1>4 DEF OneServed, Served
<1>6. serving = None <=> server' \in Unoccupied
  BY ConnectionPair DEF OneServed, Unoccupied
<1>7. QED
  BY <1>3, <1>4, <1>5, <1>6 DEF OneServed

-----------------------------------------------------------------------------
(* The steps of a client.                                                  *)

LEMMA InitIInv == Init => IInv
<1> SUFFICES ASSUME Init PROVE IInv
  OBVIOUS
<1>1. Request("create_port") \in RequestType
  BY RequestIsTyped DEF Ops
<1>2. /\ <<Request("create_port")>> \in Seq(RequestType) /\ Len(<<Request("create_port")>>) = 1
      /\ <<Request("create_port")>>[1] = Request("create_port")
  BY <1>1
<1>3. \A c \in Clients : Numbers(c) = {1} /\ requests[c][1] = Request("create_port")
  BY <1>2 DEF Init, Numbers
<1>4. backlog \in Seq(Connections) /\ Len(backlog) = 0
  BY EmptySeq DEF Init
<1>5. TypeOK
  BY <1>2, <1>4, ChannelAssumption DEF Init, TypeOK
<1>6. ASSUME NEW c \in Clients PROVE InSequence(c)
  <2>1. Now(c) = Request("create_port")
    BY <1>2 DEF Now, Last, Init
  <2>2. QED
    BY <1>2, <1>3, <2>1, RequestIsTyped DEF Init, InSequence, Ops
<1>7. \A c \in Clients : AcceptedInOrder(c)
  BY <1>3 DEF AcceptedInOrder
<1>8. \A c \in Clients : PortFollows(c)
  BY <1>3, RequestIsTyped DEF PortFollows, Init
<1>9. Queue
  BY <1>3, <1>4, RequestIsTyped DEF Queue
<1>10. OneServed
  BY <1>3, RequestIsTyped DEF OneServed, Init, Unoccupied
<1>11. QED
  BY <1>5, <1>6, <1>7, <1>8, <1>9, <1>10 DEF IInv

LEMMA Hand ==
  ASSUME IInv, NEW c \in Clients
  PROVE  /\ Last(c) \in Numbers(c) /\ Last(c) \in 1 .. 5 /\ Now(c) = requests[c][Last(c)]
         /\ Now(c) \in RequestType /\ WellFormed(Now(c))
         /\ requests \in [Clients -> Seq(RequestType)] /\ Last(c) = Len(requests[c])
<1>1. /\ requests \in [Clients -> Seq(RequestType)] /\ signals[c] \in 0 .. 2
      /\ Len(requests[c]) \in 1 .. 3 + signals[c]
  BY DEF IInv, TypeOK, InSequence
<1>2. Last(c) \in Numbers(c) /\ Now(c) = requests[c][Last(c)] /\ Now(c) \in RequestType
  BY <1>1, AtHand
<1>3. WellFormed(Now(c))
  BY <1>2 DEF IInv, InSequence
<1>4. \A s \in 0 .. 2 : \A n \in 1 .. 3 + s : n \in 1 .. 5
  OBVIOUS
<1>5. Len(requests[c]) \in 1 .. 5
  BY <1>1, <1>4
<1>6. QED
  BY <1>1, <1>2, <1>3, <1>5 DEF Last

LEMMA ConnectStep == ASSUME IInv, NEW c \in Clients, Connect(c) PROVE IInv'
<1> DEFINE r == [Now(c) EXCEPT !.step = "write", !.peer = "backlog", !.timed = TimeoutSet]
<1>1. /\ Now(c).step = "connect" /\ Now(c).peer = "none" /\ Now(c).data = "none"
      /\ ~Now(c).answered
  BY Hand DEF Connect, At, WellFormed, RequestType
<1>2. /\ r \in RequestType /\ r.op = Now(c).op /\ r.step = "write" /\ r.peer = "backlog"
      /\ r.data = "none" /\ WellFormed(r)
  <2>1. TimeoutSet \in BOOLEAN
    BY DEF TimeoutSet, Listening
  <2>2. QED
    BY <1>1, <2>1, Hand DEF RequestType, WellFormed, Handled
<1>3. requests' = [requests EXCEPT ![c][Last(c)] = r]
  BY DEF Connect, Become
<1> HIDE DEF r
<1>4. /\ requests' \in [Clients -> Seq(RequestType)] /\ Changed(c, Last(c), r)
      /\ Len(requests'[c]) = Len(requests[c])
  BY <1>2, <1>3, Hand, ChangeOne
<1>5. <<c, Last(c)>> \in Connections /\ backlog \in Seq(Connections)
  BY Hand DEF Connections, IInv, TypeOK
<1>6. /\ backlog' \in Seq(Connections) /\ Len(backlog') = Len(backlog) + 1
      /\ backlog'[Len(backlog) + 1] = <<c, Last(c)>>
      /\ \A i \in 1 .. Len(backlog) : backlog'[i] = backlog[i]
      /\ Len(backlog) \in Nat
  BY <1>5, AppendProperties, LenProperties DEF Connect
<1>7. TypeOK'
  <2>1. Len(backlog') <= BACKLOG
    BY <1>6, ChannelAssumption DEF Connect
  <2>2. QED
    BY <1>4, <1>6, <2>1 DEF IInv, TypeOK, Connect, clientVars
<1>8. \A d \in Clients : InSequence(d)'
  BY <1>1, <1>2, <1>4, Hand, KeepsSequence DEF IInv, Connect, clientVars
<1>9. \A d \in Clients : AcceptedInOrder(d)'
  BY <1>1, <1>2, <1>4, Hand, KeepsOrder DEF IInv
<1>10. \A d \in Clients : PortFollows(d)'
  BY <1>1, <1>2, <1>4, Hand, KeepsPorts DEF IInv, Connect
<1>11. OneServed'
  BY <1>1, <1>2, <1>4, Hand, KeepsServed DEF IInv, Connect, Handled
<1>12. Queue'
  <2>1. \A d \in Clients : /\ Numbers(d)' = Numbers(d)
                          /\ \A m \in Numbers(d) :
                               requests'[d][m] = IF d = c /\ m = Last(c) THEN r ELSE requests[d][m]
    BY <1>4 DEF Changed, Numbers
  <2>2. ASSUME NEW i \in 1 .. Len(backlog')
        PROVE  /\ backlog'[i][1] \in Clients /\ backlog'[i][2] \in Numbers(backlog'[i][1])
               /\ requests'[backlog'[i][1]][backlog'[i][2]].peer = "backlog"
    <3>1. CASE i = Len(backlog) + 1
      BY <1>2, <1>6, <2>1, <3>1, Hand
    <3>2. CASE i \in 1 .. Len(backlog)
      <4>1. /\ backlog[i][1] \in Clients /\ backlog[i][2] \in Numbers(backlog[i][1])
            /\ requests[backlog[i][1]][backlog[i][2]].peer = "backlog"
        BY <3>2 DEF IInv, Queue
      <4>2. QED
        BY <1>2, <1>6, <2>1, <3>2, <4>1
    <3>3. QED
      BY <1>6, <3>1, <3>2
  <2>3. ASSUME NEW i \in 1 .. Len(backlog'), NEW j \in 1 .. Len(backlog'),
               i < j, backlog'[i][1] = backlog'[j][1]
        PROVE  backlog'[i][2] < backlog'[j][2]
    <3>1. i \in 1 .. Len(backlog)
      BY <1>6, <2>3
    <3>2. CASE j = Len(backlog) + 1
      <4>1. backlog[i][1] = c /\ backlog'[j][2] = Len(requests[c])
        BY <1>6, <2>3, <3>1, <3>2, Hand
      <4>2. backlog[i][2] \in Numbers(c) /\ requests[c][backlog[i][2]].peer = "backlog"
        BY <3>1, <4>1 DEF IInv, Queue
      <4>3. backlog[i][2] # Last(c)
        BY <1>1, <4>2, Hand
      <4>4. QED
        BY <1>6, <3>1, <4>1, <4>2, <4>3, Hand DEF Numbers
    <3>3. CASE j \in 1 .. Len(backlog)
      BY <1>6, <2>3, <3>1, <3>3 DEF IInv, Queue
    <3>4. QED
      BY <1>6, <3>2, <3>3
  <2>4. ASSUME NEW d \in Clients, NEW m \in Numbers(d), requests'[d][m].peer = "backlog"
        PROVE  \E i \in 1 .. Len(backlog') : backlog'[i] = <<d, m>>
    <3>1. CASE d = c /\ m = Last(c)
      BY <1>6, <3>1
    <3>2. CASE ~(d = c /\ m = Last(c))
      <4>1. requests[d][m].peer = "backlog"
        BY <2>1, <2>4, <3>2
      <4>2. PICK i \in 1 .. Len(backlog) : backlog[i] = <<d, m>>
        BY <4>1 DEF IInv, Queue
      <4>3. QED
        BY <1>6, <4>2
    <3>3. QED
      BY <3>1, <3>2
  <2>5. QED
    BY <2>1, <2>2, <2>3, <2>4 DEF Queue
<1>13. QED
  BY <1>7, <1>8, <1>9, <1>10, <1>11, <1>12 DEF IInv

LEMMA WriteStep == ASSUME IInv, NEW c \in Clients, Write(c) PROVE IInv'
<1> DEFINE r == [Now(c) EXCEPT !.step = "read",
                               !.data = IF Now(c).peer = "closed" THEN "lost" ELSE "sent"]
<1>1. /\ Now(c).step = "write" /\ Now(c).peer \in {"backlog", "open", "closed"}
      /\ Now(c).data = "none" /\ ~Now(c).answered
  BY Hand DEF Write, At, WellFormed, RequestType, Handled
<1>2. /\ r \in RequestType /\ r.op = Now(c).op /\ r.step = "read" /\ r.peer = Now(c).peer
      /\ r.data \in {"lost", "sent"} /\ WellFormed(r)
  BY <1>1, Hand DEF RequestType, WellFormed, Handled
<1>3. requests' = [requests EXCEPT ![c][Last(c)] = r]
  BY DEF Write, Become
<1> HIDE DEF r
<1>4. /\ requests' \in [Clients -> Seq(RequestType)] /\ Changed(c, Last(c), r)
      /\ Len(requests'[c]) = Len(requests[c])
  BY <1>2, <1>3, Hand, ChangeOne
<1>5. UNCHANGED <<stage, signals, backlog, server, serving, flag, ports>>
  BY DEF Write, clientVars, serverVars
<1>6. TypeOK'
  BY <1>4, <1>5 DEF IInv, TypeOK
<1>7. \A d \in Clients : InSequence(d)'
  BY <1>1, <1>2, <1>4, <1>5, Hand, KeepsSequence DEF IInv
<1>8. \A d \in Clients : AcceptedInOrder(d)'
  BY <1>2, <1>4, Hand, KeepsOrder DEF IInv
<1>9. \A d \in Clients : PortFollows(d)'
  BY <1>1, <1>2, <1>4, <1>5, Hand, KeepsPorts DEF IInv
<1>10. OneServed'
  BY <1>1, <1>2, <1>4, <1>5, Hand, KeepsServed DEF IInv, Handled
<1>11. Queue'
  BY <1>2, <1>4, <1>5, Hand, KeepsQueue DEF IInv
<1>12. QED
  BY <1>6, <1>7, <1>8, <1>9, <1>10, <1>11 DEF IInv

\* What Proceed makes of the request at hand.
Ended(c) == [Now(c) EXCEPT !.step = "done", !.answered = FALSE, !.peer = "closed",
                           !.timed = FALSE]

\* A request ends only when its command was executed or lost.
LEMMA Ending ==
  ASSUME IInv, NEW c \in Clients, At(c, "read"), MayProceed(c)
  PROVE  /\ Ended(c) \in RequestType /\ WellFormed(Ended(c))
         /\ Ended(c).op = Now(c).op /\ Ended(c).step = "done" /\ Ended(c).peer = "closed"
         /\ Ended(c).data = Now(c).data
         /\ Now(c).peer \in {"open", "closed"} /\ Now(c).step = "read"
         /\ stage[c] \notin {"exited", "failed"}
<1>1. /\ Now(c).step = "read" /\ Now(c).data \in {"taken", "failed", "lost"}
      /\ Now(c).peer \in {"open", "closed"}
  BY Hand DEF At, MayProceed, WellFormed, RequestType, Handled
<1>2. /\ Ended(c) \in RequestType
      /\ Ended(c).op = Now(c).op /\ Ended(c).step = "done" /\ Ended(c).peer = "closed"
      /\ Ended(c).data = Now(c).data /\ Ended(c).answered = FALSE
  BY Hand DEF Ended, RequestType
<1>3. WellFormed(Ended(c))
  BY <1>1, <1>2 DEF WellFormed, Handled
<1>4. QED
  BY <1>1, <1>2, <1>3 DEF At, Over

\* What does not depend on which request it was.
LEMMA EndingKeeps ==
  ASSUME IInv, NEW c \in Clients, At(c, "read"), MayProceed(c), UNCHANGED <<signals, serverVars>>,
         Changed(c, Last(c), Ended(c))
  PROVE  /\ \A d \in Clients : AcceptedInOrder(d)' /\ PortFollows(d)'
         /\ Queue' /\ OneServed'
<1> USE Hand, Ending
<1>1. UNCHANGED <<signals, backlog, server, serving, flag, ports>>
  BY DEF serverVars
<1>2. \A d \in Clients : AcceptedInOrder(d)'
  BY KeepsOrder DEF IInv
<1>3. \A d \in Clients : PortFollows(d)'
  <2> DEFINE n == Last(c)
             r == Ended(c)
  <2>1. TypeOK /\ \A d \in Clients : InSequence(d) /\ PortFollows(d)
    BY DEF IInv
  <2>2. n \in Numbers(c) /\ r.op = requests[c][n].op
    OBVIOUS
  <2>3. \A data \in {"taken", "failed"} : r.data = data <=> requests[c][n].data = data
    OBVIOUS
  <2>4. Changed(c, n, r) /\ ports' = ports
    BY <1>1
  <2> HIDE DEF n, r
  <2>5. QED
    BY <2>1, <2>2, <2>3, <2>4, KeepsPorts
<1>4. OneServed'
  BY <1>1, KeepsServed DEF IInv, Handled
<1>5. Queue'
  BY <1>1, KeepsQueue DEF IInv
<1>6. QED
  BY <1>2, <1>3, <1>4, <1>5

LEMMA ProceedStep == ASSUME IInv, NEW c \in Clients, Proceed(c) PROVE IInv'
<1> USE Hand
<1>1. At(c, "read") /\ MayProceed(c) /\ UNCHANGED <<signals, serverVars>>
  BY DEF Proceed
<1> USE <1>1, Ending
<1>2. UNCHANGED <<signals, backlog, server, serving, flag, ports>>
  BY DEF serverVars
<1>3. [requests EXCEPT ![c][Last(c)] = [@ EXCEPT !.step = "done", !.answered = FALSE,
                                                       !.peer = "closed", !.timed = FALSE]]
        = [requests EXCEPT ![c][Last(c)] = Ended(c)]
  BY DEF Ended
<1>4. CASE /\ Now(c).op = "create_port" /\ UNCHANGED stage
           /\ requests' = [[requests EXCEPT ![c][Last(c)] = Ended(c)]
                             EXCEPT ![c] = Append(@, Request("get_phy_if"))]
  <2>1. /\ requests' \in [Clients -> Seq(RequestType)] /\ Changed(c, Last(c), Ended(c))
        /\ Len(requests'[c]) = Len(requests[c]) + 1
        /\ requests'[c][Len(requests[c]) + 1] = Request("get_phy_if")
    BY <1>4, AddOne DEF Ops
  <2>2. TypeOK'
    BY <1>2, <1>4, <2>1 DEF IInv, TypeOK
  <2>3. Last(c) = 1
    BY <1>4 DEF IInv, InSequence
  <2>4. /\ Numbers(c)' = {1, 2} /\ requests'[c][1] = Ended(c)
        /\ requests'[c][2] = Request("get_phy_if") /\ Now(c)' = Request("get_phy_if")
        /\ Len(requests'[c]) = 2
    BY <2>1, <2>3 DEF Numbers, Changed, Now, Last
  <2>5. InSequence(c)'
    BY <1>2, <1>4, <2>4, RequestIsTyped DEF IInv, TypeOK, InSequence, Ops
  <2>6. ASSUME NEW d \in Clients, d # c PROVE InSequence(d)'
    BY <1>2, <1>4, <2>1, <2>6, OthersInSequence DEF IInv
  <2>7. QED
    BY <2>1, <2>2, <2>5, <2>6, EndingKeeps DEF IInv
<1>5. CASE /\ Now(c).op \in {"get_phy_if", "delete_port"}
           /\ requests' = [requests EXCEPT ![c][Last(c)] = Ended(c)]
           /\ stage' = [stage EXCEPT ![c] = IF Now(c).op = "get_phy_if" THEN "setup" ELSE "exited"]
  <2>1. /\ requests' \in [Clients -> Seq(RequestType)] /\ Changed(c, Last(c), Ended(c))
        /\ Len(requests'[c]) = Len(requests[c])
    BY <1>5, ChangeOne
  <2>2. TypeOK'
    BY <1>2, <1>5, <2>1 DEF IInv, TypeOK
  <2>3. /\ Numbers(c)' = Numbers(c) /\ Now(c)' = Ended(c)
        /\ \A m \in Numbers(c) : requests'[c][m] = IF m = Last(c) THEN Ended(c) ELSE requests[c][m]
    BY <2>1 DEF Numbers, Changed, Now, Last
  <2>4. stage'[c] = IF Now(c).op = "get_phy_if" THEN "setup" ELSE "exited"
    BY <1>5 DEF IInv, TypeOK
  <2>5. Now(c).op # "create_port" /\ InSequence(c) /\ signals'[c] = signals[c]
    BY <1>2, <1>5 DEF IInv
  <2>6. 1 \in Numbers(c)
    BY DEF Numbers
  <2>7. InSequence(c)'
    BY <1>5, <2>1, <2>3, <2>4, <2>5, <2>6 DEF InSequence
  <2>8. ASSUME NEW d \in Clients, d # c PROVE InSequence(d)'
    <3>1. stage'[d] = stage[d]
      BY <1>5, <2>8 DEF IInv, TypeOK
    <3>2. QED
      BY <1>2, <2>1, <2>8, <3>1, OthersInSequence DEF IInv
  <2>9. QED
    BY <2>1, <2>2, <2>7, <2>8, EndingKeeps DEF IInv
<1>6. QED
  BY <1>3, <1>4, <1>5 DEF Proceed

\* Only the stage of c changes.
LEMMA StageStep ==
  ASSUME IInv, NEW c \in Clients,
         NEW s \in {"running", "failed"}, stage' = [stage EXCEPT ![c] = s],
         UNCHANGED <<requests, signals, serverVars>>, ~Over(c),
         s = "running" => stage[c] = "setup"
  PROVE  IInv'
<1>1. UNCHANGED <<requests, signals, backlog, server, serving, flag, ports>>
  BY DEF serverVars
<1>2. TypeOK'
  BY <1>1 DEF IInv, TypeOK
<1>3. Queue' /\ OneServed'
  BY <1>1 DEF IInv, Queue, OneServed, Numbers, Served
<1>4. \A d \in Clients : AcceptedInOrder(d)' /\ PortFollows(d)'
  BY <1>1 DEF IInv, AcceptedInOrder, PortFollows, Deleted, DeletionTried, Numbers
<1>5. \A d \in Clients : InSequence(d)'
  <2> SUFFICES ASSUME NEW d \in Clients PROVE InSequence(d)'
    OBVIOUS
  <2>1. stage'[d] = IF d = c THEN s ELSE stage[d]
    BY DEF IInv, TypeOK
  <2>2. Now(d)' = Now(d) /\ Numbers(d)' = Numbers(d)
    BY <1>1 DEF Now, Last, Numbers
  <2>3. InSequence(d)
    BY DEF IInv
  <2>4. QED
    BY <1>1, <2>1, <2>2, <2>3 DEF InSequence, Over
<1>6. QED
  BY <1>2, <1>3, <1>4, <1>5 DEF IInv

\* A request to delete the port follows the one at hand, which is left as it is.
LEMMA DeletionStep ==
  ASSUME IInv, NEW c \in Clients, stage[c] # "exited",
         requests' = [requests EXCEPT ![c] = Append(@, Request("delete_port"))],
         UNCHANGED <<stage, serverVars>>,
         \/ signals' = [signals EXCEPT ![c] = @ + 1] /\ signals[c] < 2
         \/ signals' = signals /\ Last(c) = 2
  PROVE  IInv'
<1> USE Hand
<1>1. UNCHANGED <<stage, backlog, server, serving, flag, ports>>
  BY DEF serverVars
<1>2. [requests EXCEPT ![c][Last(c)] = Now(c)] = requests
  BY DEF Numbers
<1>3. /\ requests' \in [Clients -> Seq(RequestType)] /\ Changed(c, Last(c), Now(c))
      /\ Len(requests'[c]) = Len(requests[c]) + 1
      /\ requests'[c][Len(requests[c]) + 1] = Request("delete_port")
  <2>1. requests' = [[requests EXCEPT ![c][Last(c)] = Now(c)]
                      EXCEPT ![c] = Append(@, Request("delete_port"))]
    BY <1>2, Zenon
  <2>2. "delete_port" \in Ops
    BY DEF Ops
  <2>3. QED
    BY <2>1, <2>2, AddOne
<1>4. signals' \in [Clients -> 0 .. 2] /\ \A d \in Clients : d # c => signals'[d] = signals[d]
  <2>1. signals \in [Clients -> 0 .. 2]
    BY DEF IInv, TypeOK
  <2>2. CASE signals' = [signals EXCEPT ![c] = @ + 1] /\ signals[c] < 2
    <3>1. signals[c] + 1 \in 0 .. 2
      BY <2>1, <2>2
    <3>2. QED
      BY <2>1, <2>2, <3>1
  <2>3. QED
    BY <2>1, <2>2
<1>5. TypeOK'
  BY <1>1, <1>3, <1>4 DEF IInv, TypeOK
<1>6. InSequence(c)'
  <2>1. Len(requests[c]) \in 1 .. 3 + signals[c] /\ signals[c] \in 0 .. 2
    BY DEF IInv, InSequence, TypeOK
  <2>2. Len(requests'[c]) \in 1 .. 3 + signals'[c]
    BY <1>3, <2>1 DEF IInv, TypeOK
  <2>3. Now(c)' = Request("delete_port")
    BY <1>3 DEF Now, Last
  <2>4. \A m \in Numbers(c) : requests'[c][m] = requests[c][m]
    BY <1>3 DEF Changed
  <2>5. 1 \in Numbers(c) /\ Numbers(c)' = Numbers(c) \cup {Len(requests[c]) + 1}
    BY <1>3, <2>1 DEF Numbers
  <2>6. requests'[c][Len(requests[c]) + 1] = Request("delete_port") /\ Len(requests[c]) + 1 # 1
    BY <1>3, <2>1
  <2>7. InSequence(c)
    BY DEF IInv
  <2>8. ASSUME NEW m \in Numbers(c)'
        PROVE  /\ WellFormed(requests'[c][m])
               /\ requests'[c][m].op = "create_port" <=> m = 1
               /\ requests'[c][m].op = "get_phy_if" => m = 2 /\ requests'[c][1].step = "done"
    <3>1. CASE m \in Numbers(c)
      <4>1. /\ WellFormed(requests[c][m])
            /\ requests[c][m].op = "create_port" <=> m = 1
            /\ requests[c][m].op = "get_phy_if" => m = 2 /\ requests[c][1].step = "done"
        BY <2>7, <3>1 DEF InSequence
      <4>2. requests'[c][m] = requests[c][m] /\ requests'[c][1] = requests[c][1]
        BY <2>4, <2>5, <3>1
      <4>3. QED
        BY ONLY <4>1, <4>2, Zenon
    <3>2. CASE m = Len(requests[c]) + 1
      BY <2>6, <3>2, RequestIsTyped
    <3>3. QED
      BY <2>5, <3>1, <3>2
  <2>9. stage[c] \in {"setup", "running"} => requests'[c][1].step = "done"
    BY <2>4, <2>5, <2>7 DEF InSequence
  <2>10. QED
    BY <1>1, <2>2, <2>3, <2>8, <2>9, RequestIsTyped DEF InSequence
<1>7. ASSUME NEW d \in Clients, d # c PROVE InSequence(d)'
  BY <1>1, <1>3, <1>4, <1>7, OthersInSequence DEF IInv
<1>8. \A d \in Clients : AcceptedInOrder(d)'
  BY <1>3, KeepsOrder DEF IInv
<1>9. \A d \in Clients : PortFollows(d)'
  BY <1>1, <1>3, KeepsPorts DEF IInv
<1>10. OneServed'
  BY <1>1, <1>3, KeepsServed DEF IInv
<1>11. Queue'
  BY <1>1, <1>3, KeepsQueue DEF IInv
<1>12. QED
  BY <1>5, <1>6, <1>7, <1>8, <1>9, <1>10, <1>11 DEF IInv

LEMMA RunStep == ASSUME IInv, NEW c \in Clients, Run(c) PROVE IInv'
<1>1. stage[c] = "setup" /\ Now(c).step = "done"
  BY DEF Run
<1>2. Last(c) = 2
  BY <1>1, Hand DEF IInv, InSequence
<1>3. CASE stage' = [stage EXCEPT ![c] = "running"] /\ UNCHANGED requests
  BY <1>1, <1>3, StageStep DEF Run, Over
<1>4. CASE /\ requests' = [requests EXCEPT ![c] = Append(@, Request("delete_port"))]
           /\ UNCHANGED stage
  BY <1>1, <1>2, <1>4, DeletionStep DEF Run
<1>5. QED
  BY <1>3, <1>4 DEF Run

LEMMA FailStep == ASSUME IInv, NEW c \in Clients, Fail(c) PROVE IInv'
  BY StageStep DEF Fail, At, Over

LEMMA SignalStep == ASSUME IInv, NEW c \in Clients, Signal(c) PROVE IInv'
  BY DeletionStep DEF Signal, Over

-----------------------------------------------------------------------------
(* The steps of the socket thread.                                         *)

LEMMA ServedRequest ==
  ASSUME IInv, server \in {"read", "write", "close"}
  PROVE  /\ serving = <<serving[1], serving[2]>> /\ serving # None
         /\ serving[1] \in Clients /\ serving[2] \in Numbers(serving[1])
         /\ Served \in RequestType /\ WellFormed(Served)
         /\ Served = requests[serving[1]][serving[2]]
         /\ Served.peer = "open" \/ (Served.peer = "closed" /\ Served.step = "done")
         /\ server = "write" => Handled(Served)
         /\ requests \in [Clients -> Seq(RequestType)]
<1>1. serving # None /\ serving \in {None} \cup Connections
  BY DEF IInv, OneServed, TypeOK, Unoccupied
<1>2. serving = <<serving[1], serving[2]>>
  BY <1>1 DEF Connections
<1>3. /\ serving[1] \in Clients /\ serving[2] \in Numbers(serving[1])
      /\ Served.peer = "open" \/ (Served.peer = "closed" /\ Served.step = "done")
      /\ server = "write" => Handled(Served)
  BY <1>1 DEF IInv, OneServed
<1>4. Served = requests[serving[1]][serving[2]] /\ requests \in [Clients -> Seq(RequestType)]
  BY DEF Served, IInv, TypeOK
<1>5. Served \in RequestType /\ WellFormed(Served)
  BY <1>3, <1>4, RequestTyped DEF IInv, InSequence
<1>6. QED
  BY <1>1, <1>2, <1>3, <1>4, <1>5

\* The thread goes on, and nothing else happens.
LEMMA ServerMoves ==
  ASSUME IInv, UNCHANGED <<stage, requests, signals, backlog, serving, ports>>, flag' \in {0, 1},
         \/ server' = server
         \/ server \in Unoccupied /\ server' \in Unoccupied
         \/ server = "read" /\ server' = "close"
  PROVE  IInv'
<1>1. TypeOK'
  BY DEF IInv, TypeOK, Unoccupied
<1>2. \A c \in Clients : InSequence(c)' /\ AcceptedInOrder(c)' /\ PortFollows(c)'
  BY DEF IInv, InSequence, AcceptedInOrder, PortFollows, Deleted, DeletionTried,
         Numbers, Now, Last
<1>3. Queue'
  BY DEF IInv, Queue, Numbers
<1>4. OneServed'
  BY DEF IInv, OneServed, Numbers, Served, Unoccupied
<1>5. QED
  BY <1>1, <1>2, <1>3, <1>4 DEF IInv

\* Every connection that waits is reset.
LEMMA ResetStep ==
  ASSUME IInv, server = "check", server' = "ended", requests' = BacklogReset, backlog' = <<>>,
         UNCHANGED <<clientVars, serving, flag, ports>>
  PROVE  IInv'
<1> DEFINE Reset(r) == IF r.peer = "backlog" THEN [r EXCEPT !.peer = "reset"] ELSE r
<1>1. UNCHANGED <<stage, signals, serving, flag, ports>>
  BY DEF clientVars
<1>2. \A r \in RequestType :
        /\ Reset(r) \in RequestType /\ Reset(r).op = r.op /\ Reset(r).step = r.step
        /\ Reset(r).data = r.data /\ Reset(r).peer # "backlog"
        /\ Reset(r).peer \notin {"backlog", "reset"} => Reset(r) = r
        /\ WellFormed(r) => WellFormed(Reset(r))
  BY DEF RequestType, WellFormed, Handled
<1>3. /\ requests \in [Clients -> Seq(RequestType)]
      /\ \A c \in Clients : Len(requests[c]) \in Nat /\ DOMAIN requests[c] = Numbers(c)
  BY LenProperties DEF IInv, TypeOK, Numbers
<1>4. \A c \in Clients : \A n \in Numbers(c) : requests[c][n] \in RequestType
  BY <1>3, RequestTyped
<1>5. \A c \in Clients : requests'[c] = [n \in 1 .. Len(requests[c]) |-> Reset(requests[c][n])]
  BY <1>3 DEF BacklogReset, Numbers
<1> HIDE DEF Reset
<1>6. ASSUME NEW c \in Clients
      PROVE  /\ requests'[c] \in Seq(RequestType) /\ Len(requests'[c]) = Len(requests[c])
             /\ Numbers(c)' = Numbers(c)
             /\ \A n \in Numbers(c) : requests'[c][n] = Reset(requests[c][n])
  <2>0. requests'[c] \in [1 .. Len(requests[c]) -> RequestType]
    BY <1>2, <1>4, <1>5 DEF Numbers
  <2>1. requests'[c] \in Seq(RequestType) /\ Len(requests'[c]) = Len(requests[c])
    BY <1>3, <2>0, FunctionIsSeq
  <2>2. QED
    BY <1>5, <2>1 DEF Numbers
<1>7. requests' \in [Clients -> Seq(RequestType)]
  <2>1. requests' = [c \in Clients |-> requests'[c]]
    BY DEF BacklogReset
  <2>2. QED
    BY <1>6, <2>1
<1>8. backlog' \in Seq(Connections) /\ Len(backlog') = 0
  BY EmptySeq
<1>9. TypeOK'
  BY <1>1, <1>7, <1>8, ChannelAssumption DEF IInv, TypeOK
<1>10. ASSUME NEW c \in Clients PROVE InSequence(c)'
  <2>1. 1 \in Numbers(c) /\ Last(c) \in Numbers(c) /\ InSequence(c) /\ Now(c) = requests[c][Last(c)]
    BY Hand DEF IInv, Numbers
  <2>2. Now(c)' = Reset(Now(c))
    BY <1>6, <2>1 DEF Now, Last
  <2>3. \A n \in Numbers(c) : /\ WellFormed(requests'[c][n])
                              /\ requests'[c][n].op = requests[c][n].op
                              /\ requests'[c][n].step = requests[c][n].step
    BY <1>2, <1>4, <1>6, <2>1 DEF InSequence
  <2>4. Now(c)'.op = Now(c).op /\ Now(c)'.step = Now(c).step
    BY <1>2, <1>4, <2>1, <2>2
  <2>5. QED
    BY <1>1, <1>6, <2>1, <2>3, <2>4 DEF InSequence
<1>11. \A c \in Clients : \A n \in Numbers(c) : requests'[c][n].peer \notin {"backlog", "open"}
  <2> SUFFICES ASSUME NEW c \in Clients, NEW n \in Numbers(c),
                      requests'[c][n].peer \in {"backlog", "open"}
               PROVE  FALSE
    OBVIOUS
  <2>1. requests[c][n].peer = "open"
    BY <1>2, <1>4, <1>6
  <2>2. serving = <<c, n>>
    BY <2>1 DEF IInv, OneServed
  <2>3. QED
    BY <2>2, ConnectionPair DEF IInv, OneServed, Unoccupied
<1>12. \A c \in Clients : AcceptedInOrder(c)'
  BY <1>6, <1>11 DEF AcceptedInOrder
<1>13. \A c \in Clients : PortFollows(c)'
  <2> SUFFICES ASSUME NEW c \in Clients PROVE PortFollows(c)'
    OBVIOUS
  <2>1. \A n \in Numbers(c) : /\ requests'[c][n].op = requests[c][n].op
                              /\ requests'[c][n].data = requests[c][n].data
    BY <1>2, <1>4, <1>6
  <2>2. 1 \in Numbers(c)
    BY Hand DEF Numbers
  <2>3. (Deleted(c)' <=> Deleted(c)) /\ (DeletionTried(c)' <=> DeletionTried(c))
    BY <1>6, <2>1 DEF Deleted, DeletionTried, Handled
  <2>4. QED
    BY <1>1, <2>1, <2>2, <2>3 DEF IInv, PortFollows, Handled
<1>14. Queue'
  BY <1>6, <1>8, <1>11 DEF Queue
<1>15. OneServed'
  BY <1>1, <1>6, <1>11 DEF IInv, OneServed, Unoccupied
<1>16. QED
  BY <1>9, <1>10, <1>12, <1>13, <1>14, <1>15 DEF IInv

LEMMA CheckFlagStep == ASSUME IInv, CheckFlag PROVE IInv'
<1>1. CASE flag = 0 /\ server' = "accept" /\ UNCHANGED <<requests, backlog>>
  BY <1>1, ServerMoves DEF CheckFlag, clientVars, Unoccupied
<1>2. CASE flag = 1 /\ server' = "ended" /\ requests' = BacklogReset /\ backlog' = <<>>
  BY <1>2, ResetStep DEF CheckFlag
<1>3. QED
  BY <1>1, <1>2 DEF CheckFlag

LEMMA ReadCommandStep == ASSUME IInv, ReadCommand PROVE IInv'
<1>0. PICK data \in {"taken", "failed"} :
        /\ BecomeServed([Served EXCEPT !.data = data])
        /\ ports' \in {ports, Executed(Served.op, serving[1])}
        /\ data = "taken" => ports' = Executed(Served.op, serving[1])
  BY DEF ReadCommand
<1> DEFINE c == serving[1]
           n == serving[2]
           r == [Served EXCEPT !.data = data]
<1>1. server = "read" /\ Served.data = "sent"
  BY DEF ReadCommand
<1>2. /\ serving = <<c, n>> /\ c \in Clients /\ n \in Numbers(c) /\ Served = requests[c][n]
      /\ Served \in RequestType /\ WellFormed(Served) /\ serving # None
      /\ requests \in [Clients -> Seq(RequestType)]
  BY <1>1, ServedRequest
<1>3. Served.peer = "open" /\ Served.step # "done"
  BY <1>1, ServedRequest DEF WellFormed
<1>4. /\ r \in RequestType /\ r.op = Served.op /\ r.step = Served.step /\ r.peer = "open"
      /\ r.data = data /\ Handled(r) /\ WellFormed(r)
  BY <1>1, <1>2, <1>3 DEF RequestType, WellFormed, Handled
<1>5. requests' = [requests EXCEPT ![c][n] = r]
  BY <1>0 DEF BecomeServed
<1>6. /\ server' = "write" /\ UNCHANGED <<stage, signals, backlog, serving, flag>>
      /\ Served.op = "create_port" =>
           ports' \in {ports, ports \cup {c}} /\ (data = "taken" => c \in ports')
      /\ Served.op = "delete_port" =>
           ports' \in {ports, ports \ {c}} /\ (data = "taken" => c \notin ports')
      /\ Served.op = "get_phy_if" => ports' = ports
  BY <1>0 DEF ReadCommand, clientVars, Executed
<1> HIDE DEF r, c, n
<1>7. /\ requests' \in [Clients -> Seq(RequestType)] /\ Changed(c, n, r)
      /\ Len(requests'[c]) = Len(requests[c])
  BY <1>2, <1>4, <1>5, ChangeOne
<1>8. Served.op \in Ops
  BY <1>2 DEF RequestType
<1>9. TypeOK'
  <2>1. ports' \subseteq Clients
    BY <1>2, <1>6, <1>8 DEF IInv, TypeOK, Ops
  <2>2. QED
    BY <1>6, <1>7, <2>1 DEF IInv, TypeOK
<1>10. \A d \in Clients : InSequence(d)'
  BY <1>2, <1>4, <1>6, <1>7, KeepsSequence DEF IInv
<1>11. \A d \in Clients : AcceptedInOrder(d)'
  BY <1>2, <1>3, <1>4, <1>7, KeepsOrder DEF IInv
<1>12. Queue'
  BY <1>2, <1>3, <1>4, <1>6, <1>7, KeepsQueue DEF IInv
<1>13. OneServed'
  BY <1>2, <1>3, <1>4, <1>6, <1>7, KeepsServed DEF IInv, Handled
<1>14. ASSUME NEW d \in Clients PROVE PortFollows(d)'
  <2>1. /\ Numbers(d)' = Numbers(d)
        /\ \A m \in Numbers(d) : requests'[d][m] = IF d = c /\ m = n THEN r ELSE requests[d][m]
    BY <1>7 DEF Changed, Numbers
  <2>2. 1 \in Numbers(d) /\ PortFollows(d) /\ InSequence(d)
    BY Hand DEF IInv, Numbers
  <2>3. CASE d # c
    <3>1. d \in ports' <=> d \in ports
      BY <1>6, <1>8, <2>3 DEF Ops
    <3>2. \A m \in Numbers(d) : requests'[d][m] = requests[d][m]
      BY <2>1, <2>3
    <3>3. QED
      BY <2>1, <2>2, <3>1, <3>2 DEF PortFollows, Deleted, DeletionTried
  <2>4. CASE d = c /\ Served.op = "create_port"
    <3>1. n = 1 /\ (data = "taken" => d \in ports')
      BY <1>2, <1>6, <2>2, <2>4 DEF InSequence
    <3>2. requests'[d][1] = r
      BY <2>1, <2>2, <2>4, <3>1
    <3>3. ASSUME NEW m \in Numbers(d), requests'[d][m].op = "delete_port",
                 Handled(requests'[d][m])
          PROVE  FALSE
      <4>1. m # 1
        BY <1>2, <1>4, <2>4, <3>2, <3>3
      <4>2. Handled(requests[d][m])
        BY <2>1, <3>1, <3>3, <4>1
      <4>3. requests[d][m].peer \in {"none", "backlog"}
        BY <1>2, <1>3, <2>4, <3>1, <4>1 DEF IInv, AcceptedInOrder, Numbers
      <4>4. WellFormed(requests[d][m])
        BY <2>2 DEF InSequence
      <4>5. QED
        BY <4>2, <4>3, <4>4 DEF WellFormed
    <3>4. ~DeletionTried(d)' /\ ~Deleted(d)'
      BY <2>1, <3>3 DEF DeletionTried, Deleted, Handled
    <3>5. QED
      BY <1>4, <3>1, <3>2, <3>4 DEF PortFollows
  <2>5. CASE d = c /\ Served.op = "delete_port"
    <3>1. /\ d \in ports' => d \in ports /\ data # "taken"
          /\ n # 1
      BY <1>2, <1>6, <2>2, <2>5 DEF InSequence
    <3>2. /\ requests'[d][n].op = "delete_port" /\ Handled(requests'[d][n]) /\ n \in Numbers(d)'
          /\ requests'[d][n].data = data
      BY <1>2, <1>4, <2>1, <2>5
    <3>3. requests'[d][1] = requests[d][1]
      BY <2>1, <2>2, <3>1
    <3>4. DeletionTried(d)'
      BY <3>2 DEF DeletionTried
    <3>5. data # "taken" /\ Deleted(d)' => Deleted(d)
      BY <2>1, <2>5, <3>2 DEF Deleted
    <3>6. QED
      BY <2>2, <3>1, <3>3, <3>4, <3>5 DEF PortFollows
  <2>6. CASE d = c /\ Served.op = "get_phy_if"
    <3>1. ports' = ports /\ n # 1
      BY <1>2, <1>6, <2>2, <2>6 DEF InSequence
    <3>2. requests'[d][1] = requests[d][1]
      BY <2>1, <2>2, <3>1
    <3>3. \A m \in Numbers(d) :
            requests'[d][m] = requests[d][m]
              \/ (requests'[d][m].op # "delete_port" /\ requests[d][m].op # "delete_port")
      BY <1>2, <1>4, <2>1, <2>6
    <3>4. (Deleted(d)' <=> Deleted(d)) /\ (DeletionTried(d)' <=> DeletionTried(d))
      BY <2>1, <3>3 DEF Deleted, DeletionTried
    <3>5. QED
      BY <2>2, <3>1, <3>2, <3>4 DEF PortFollows
  <2>7. QED
    BY <1>8, <2>3, <2>4, <2>5, <2>6 DEF Ops
<1>15. QED
  BY <1>9, <1>10, <1>11, <1>12, <1>13, <1>14 DEF IInv

LEMMA WriteAnswerStep == ASSUME IInv, WriteAnswer PROVE IInv'
<1> DEFINE c == serving[1]
           n == serving[2]
           r == [Served EXCEPT !.answered = ~ClientClosed]
<1>1. server = "write"
  BY DEF WriteAnswer
<1>2. /\ serving = <<c, n>> /\ c \in Clients /\ n \in Numbers(c) /\ Served = requests[c][n]
      /\ Served \in RequestType /\ WellFormed(Served) /\ serving # None
      /\ requests \in [Clients -> Seq(RequestType)] /\ Handled(Served)
  BY <1>1, ServedRequest
<1>3. /\ r \in RequestType /\ r.op = Served.op /\ r.step = Served.step /\ r.peer = Served.peer
      /\ r.data = Served.data
  BY <1>2 DEF RequestType, ClientClosed
<1>4. WellFormed(r)
  BY <1>2, <1>3 DEF WellFormed, Handled
<1>5. requests' = [requests EXCEPT ![c][n] = r]
  BY DEF WriteAnswer, BecomeServed
<1>6. server' = "read" /\ UNCHANGED <<stage, signals, backlog, serving, flag, ports>>
  BY DEF WriteAnswer, clientVars
<1> HIDE DEF r, c, n
<1>7. /\ requests' \in [Clients -> Seq(RequestType)] /\ Changed(c, n, r)
      /\ Len(requests'[c]) = Len(requests[c])
  BY <1>2, <1>3, <1>5, ChangeOne
<1>8. TypeOK'
  BY <1>6, <1>7 DEF IInv, TypeOK
<1>9. \A d \in Clients : InSequence(d)'
  BY <1>2, <1>3, <1>4, <1>6, <1>7, KeepsSequence DEF IInv
<1>10. \A d \in Clients : AcceptedInOrder(d)'
  BY <1>2, <1>3, <1>7, KeepsOrder DEF IInv
<1>11. \A d \in Clients : PortFollows(d)'
  BY <1>2, <1>3, <1>6, <1>7, KeepsPorts DEF IInv
<1>12. Queue'
  BY <1>2, <1>3, <1>6, <1>7, KeepsQueue DEF IInv
<1>13. OneServed'
  BY <1>2, <1>3, <1>6, <1>7, KeepsServed DEF IInv, Handled
<1>14. QED
  BY <1>8, <1>9, <1>10, <1>11, <1>12, <1>13 DEF IInv

LEMMA CloseStep == ASSUME IInv, Close PROVE IInv'
<1> DEFINE c == serving[1]
           n == serving[2]
           r == [Served EXCEPT !.peer = IF Served.data = "sent" THEN "reset" ELSE "closed",
                               !.timed = FALSE]
<1>1. server = "close"
  BY DEF Close
<1>2. /\ serving = <<c, n>> /\ c \in Clients /\ n \in Numbers(c) /\ Served = requests[c][n]
      /\ Served \in RequestType /\ WellFormed(Served) /\ serving # None
      /\ requests \in [Clients -> Seq(RequestType)]
      /\ Served.peer = "open" \/ (Served.peer = "closed" /\ Served.step = "done")
  BY <1>1, ServedRequest
<1>3. /\ r \in RequestType /\ r.op = Served.op /\ r.step = Served.step /\ r.data = Served.data
      /\ r.answered = Served.answered
      /\ r.peer = IF Served.data = "sent" THEN "reset" ELSE "closed"
  BY <1>2 DEF RequestType
<1>4. WellFormed(r)
  BY <1>2, <1>3 DEF WellFormed, Handled
<1>5. requests' = [requests EXCEPT ![c][n] = r]
  BY DEF Close, BecomeServed
<1>6. /\ server' = "check" /\ serving' = None
      /\ UNCHANGED <<stage, signals, backlog, flag, ports>>
  BY DEF Close, clientVars
<1> HIDE DEF r, c, n
<1>7. /\ requests' \in [Clients -> Seq(RequestType)] /\ Changed(c, n, r)
      /\ Len(requests'[c]) = Len(requests[c])
  BY <1>2, <1>3, <1>5, ChangeOne
<1>8. TypeOK'
  BY <1>6, <1>7 DEF IInv, TypeOK
<1>9. \A d \in Clients : InSequence(d)'
  BY <1>2, <1>3, <1>4, <1>6, <1>7, KeepsSequence DEF IInv
<1>10. \A d \in Clients : AcceptedInOrder(d)'
  BY <1>2, <1>3, <1>7, KeepsOrder DEF IInv
<1>11. \A d \in Clients : PortFollows(d)'
  BY <1>2, <1>3, <1>6, <1>7, KeepsPorts DEF IInv
<1>12. Queue'
  BY <1>2, <1>3, <1>6, <1>7, KeepsQueue DEF IInv
<1>13. OneServed'
  <2>1. ASSUME NEW d \in Clients, NEW m \in Numbers(d)', requests'[d][m].peer = "open"
        PROVE  FALSE
    <3>1. m \in Numbers(d)
      BY <1>7 DEF Changed, Numbers
    <3>2. requests'[d][m] = IF d = c /\ m = n THEN r ELSE requests[d][m]
      BY <1>7, <3>1 DEF Changed
    <3>3. ~(d = c /\ m = n) /\ requests[d][m].peer = "open"
      BY <1>3, <2>1, <3>2
    <3>4. serving = <<d, m>>
      BY <3>1, <3>3 DEF IInv, OneServed
    <3>5. QED
      BY <1>2, <3>3, <3>4
  <2>2. QED
    BY <1>6, <2>1 DEF OneServed, Unoccupied
<1>14. QED
  BY <1>8, <1>9, <1>10, <1>11, <1>12, <1>13 DEF IInv

LEMMA AcceptStep == ASSUME IInv, Accept PROVE IInv'
<1> DEFINE c == Head(backlog)[1]
           n == Head(backlog)[2]
           r == [requests[c][n] EXCEPT !.peer = "open"]
<1>1. /\ server = "accept" /\ backlog # <<>> /\ server' = "read"
      /\ backlog' = Tail(backlog) /\ serving' = Head(backlog)
      /\ UNCHANGED <<stage, signals, flag, ports>>
      /\ requests' = [requests EXCEPT ![c][n].peer = "open"]
  BY DEF Accept, clientVars
<1>2. /\ backlog \in Seq(Connections) /\ Len(backlog) \in Nat /\ Len(backlog) <= BACKLOG
      /\ requests \in [Clients -> Seq(RequestType)]
  BY LenProperties DEF IInv, TypeOK
<1>3. Len(backlog) \in Nat \ {0} /\ Head(backlog) = backlog[1] /\ Head(backlog) \in Connections
  BY <1>1, <1>2, EmptySeq, HeadTailProperties
<1>4. /\ Tail(backlog) \in Seq(Connections) /\ Len(Tail(backlog)) = Len(backlog) - 1
      /\ \A i \in 1 .. Len(Tail(backlog)) : Tail(backlog)[i] = backlog[i + 1]
  BY <1>1, <1>2, HeadTailProperties
<1>5. 1 \in 1 .. Len(backlog)
  BY <1>3
<1>6. c \in Clients /\ n \in Numbers(c) /\ requests[c][n].peer = "backlog"
  BY <1>3, <1>5 DEF IInv, Queue
<1>7. Head(backlog) = <<c, n>>
  BY <1>3 DEF Connections
<1>8. /\ requests[c][n] \in RequestType /\ WellFormed(requests[c][n])
  BY <1>2, <1>6, RequestTyped DEF IInv, InSequence
<1>9. /\ r \in RequestType /\ r.op = requests[c][n].op /\ r.step = requests[c][n].step
      /\ r.peer = "open" /\ r.data = requests[c][n].data /\ r.answered = requests[c][n].answered
  BY <1>8 DEF RequestType
<1>10. WellFormed(r)
  BY <1>6, <1>8, <1>9 DEF WellFormed, Handled
<1>11. requests' = [requests EXCEPT ![c][n] = r]
  BY <1>1
<1> HIDE DEF r, c, n
<1>12. /\ requests' \in [Clients -> Seq(RequestType)] /\ Changed(c, n, r)
       /\ Len(requests'[c]) = Len(requests[c])
  BY <1>2, <1>6, <1>9, <1>11, ChangeOne
<1>13. /\ \A d \in Clients : Numbers(d)' = Numbers(d)
       /\ \A d \in Clients : \A m \in Numbers(d) :
            requests'[d][m] = IF d = c /\ m = n THEN r ELSE requests[d][m]
  BY <1>12 DEF Changed, Numbers
<1>14. serving = None
  BY <1>1 DEF IInv, OneServed, Unoccupied
<1>15. \A d \in Clients : \A m \in Numbers(d) : requests[d][m].peer # "open"
  BY <1>14, ConnectionPair DEF IInv, OneServed
<1>16. TypeOK'
  <2>1. Len(backlog') <= BACKLOG
    BY <1>1, <1>2, <1>4, ChannelAssumption
  <2>2. serving' \in {None} \cup Connections
    BY <1>1, <1>3
  <2>3. QED
    BY <1>1, <1>4, <1>12, <2>1, <2>2 DEF IInv, TypeOK
<1>17. \A d \in Clients : InSequence(d)'
  BY <1>1, <1>6, <1>9, <1>10, <1>12, KeepsSequence DEF IInv
\* The one at the head is the first of its client that waits.
<1>18. ASSUME NEW k \in Numbers(c), k < n PROVE requests[c][k].peer \notin {"backlog", "open"}
  <2> SUFFICES ASSUME requests[c][k].peer = "backlog" PROVE FALSE
    BY <1>6, <1>15
  <2>1. PICK i \in 1 .. Len(backlog) : backlog[i] = <<c, k>>
    BY <1>6 DEF IInv, Queue
  <2>2. i # 1
    BY <1>3, <1>7, <1>18, <2>1 DEF Numbers
  <2>3. 1 < i
    BY <2>2
  <2>4. backlog[1][1] = backlog[i][1] /\ backlog[1][2] = n /\ backlog[i][2] = k
    BY <1>3, <1>7, <2>1
  <2>5. n < k
    BY <1>5, <2>3, <2>4 DEF IInv, Queue
  <2>6. n \in Nat /\ k \in Nat
    BY <1>6 DEF Numbers
  <2>7. QED
    BY <1>18, <2>5, <2>6
<1>19. ASSUME NEW d \in Clients PROVE AcceptedInOrder(d)'
  <2> SUFFICES ASSUME NEW k \in Numbers(d), NEW m \in Numbers(d), k < m,
                      requests'[d][k].peer \in {"backlog", "open"}
               PROVE  requests'[d][m].peer \in {"none", "backlog"}
    BY <1>13 DEF AcceptedInOrder
  <2>1. requests[d][k].peer \in {"backlog", "open"}
    BY <1>6, <1>13
  <2>2. requests[d][m].peer \in {"none", "backlog"}
    BY <2>1 DEF IInv, AcceptedInOrder
  <2>3. ~(d = c /\ m = n)
    BY <1>18, <2>1
  <2>4. QED
    BY <1>13, <2>2, <2>3
<1>20. \A d \in Clients : PortFollows(d)'
  BY <1>1, <1>6, <1>9, <1>12, KeepsPorts DEF IInv
<1>21. OneServed'
  <2>1. serving' = <<c, n>> /\ serving' # None
    BY <1>1, <1>6, <1>7, ConnectionPair
  <2>2. requests'[c][n] = r
    BY <1>6, <1>13
  <2>3. Served' = r
    BY <2>1, <2>2 DEF Served
  <2>4. \A d \in Clients : \A m \in Numbers(d) :
          requests'[d][m].peer = "open" => d = c /\ m = n
    BY <1>13, <1>15
  <2>5. QED
    BY <1>1, <1>6, <1>9, <1>13, <2>1, <2>3, <2>4 DEF OneServed, Unoccupied
<1>22. Queue'
  <2>1. ASSUME NEW i \in 1 .. Len(backlog')
        PROVE  /\ i + 1 \in 1 .. Len(backlog) /\ backlog'[i] = backlog[i + 1] /\ 1 < i + 1
    BY <1>1, <1>2, <1>4
  <2>2. ASSUME NEW i \in 1 .. Len(backlog')
        PROVE  /\ backlog'[i][1] \in Clients /\ backlog'[i][2] \in Numbers(backlog'[i][1])
               /\ requests'[backlog'[i][1]][backlog'[i][2]].peer = "backlog"
    <3>1. /\ backlog[i + 1][1] \in Clients /\ backlog[i + 1][2] \in Numbers(backlog[i + 1][1])
          /\ requests[backlog[i + 1][1]][backlog[i + 1][2]].peer = "backlog"
      BY <2>1 DEF IInv, Queue
    <3>2. backlog[i + 1][1] = c => n < backlog[i + 1][2]
      BY <1>3, <1>5, <1>7, <2>1 DEF IInv, Queue
    <3>3. n \in Nat
      BY <1>6 DEF Numbers
    <3>4. ~(backlog[i + 1][1] = c /\ backlog[i + 1][2] = n)
      BY <3>2, <3>3
    <3>5. QED
      BY <1>13, <2>1, <3>1, <3>4
  <2>3. ASSUME NEW i \in 1 .. Len(backlog'), NEW j \in 1 .. Len(backlog'),
               i < j, backlog'[i][1] = backlog'[j][1]
        PROVE  backlog'[i][2] < backlog'[j][2]
    <3>1. i + 1 < j + 1
      BY <2>3
    <3>2. QED
      BY <2>1, <2>3, <3>1 DEF IInv, Queue
  <2>4. ASSUME NEW d \in Clients, NEW m \in Numbers(d), requests'[d][m].peer = "backlog"
        PROVE  \E i \in 1 .. Len(backlog') : backlog'[i] = <<d, m>>
    <3>1. ~(d = c /\ m = n) /\ requests[d][m].peer = "backlog"
      BY <1>9, <1>13, <2>4
    <3>2. PICK i \in 1 .. Len(backlog) : backlog[i] = <<d, m>>
      BY <3>1 DEF IInv, Queue
    <3>3. i # 1
      BY <1>3, <1>7, <3>1, <3>2
    <3>4. i - 1 \in 1 .. Len(backlog') /\ (i - 1) + 1 = i
      BY <1>1, <1>2, <1>4, <3>3
    <3>5. backlog'[i - 1] = <<d, m>>
      BY <2>1, <3>2, <3>4
    <3>6. QED
      BY <3>4, <3>5
  <2>5. QED
    BY <1>13, <2>2, <2>3, <2>4 DEF Queue
<1>23. QED
  BY <1>16, <1>17, <1>19, <1>20, <1>21, <1>22 DEF IInv

-----------------------------------------------------------------------------
(* The theorems.                                                           *)

LEMMA NextIInv == IInv /\ [Next]_vars => IInv'
<1> SUFFICES ASSUME IInv, [Next]_vars PROVE IInv'
  OBVIOUS
<1>1. ASSUME NEW c \in Clients, ClientStep(c) \/ Signal(c) PROVE IInv'
  BY <1>1, ConnectStep, WriteStep, ProceedStep, RunStep, FailStep, SignalStep DEF ClientStep
<1>2. CASE ServerStep
  <2>1. CASE Listen \/ SetTimeout \/ AcceptTimeout \/ ReadEnd \/ ReadTimeout
    <3>1. flag \in {0, 1}
      BY DEF IInv, TypeOK
    <3>2. QED
      BY <2>1, <3>1, ServerMoves
         DEF Listen, SetTimeout, AcceptTimeout, ReadEnd, ReadTimeout, clientVars, Unoccupied
  <2>2. QED
    BY <1>2, <2>1, CheckFlagStep, AcceptStep, ReadCommandStep, WriteAnswerStep, CloseStep
       DEF ServerStep
<1>3. CASE Stop
  BY <1>3, ServerMoves DEF Stop, clientVars
<1>4. CASE Finished \/ ReadBlocks \/ UNCHANGED vars
  <2>1. flag \in {0, 1}
    BY DEF IInv, TypeOK
  <2>2. QED
    BY <1>4, <2>1, ServerMoves DEF Finished, ReadBlocks, vars
<1>5. QED
  BY <1>1, <1>2, <1>3, <1>4 DEF Next

LEMMA Inductive == Spec => []IInv
  BY InitIInv, NextIInv, PTL DEF Spec

\* Requests, backlog and threads keep their types: a client makes five requests
\* at most, and the backlog of the listening socket is never exceeded.
THEOREM TypeCorrect == Spec => []TypeOK
<1>1. IInv => TypeOK
  BY DEF IInv
<1>2. QED
  BY Inductive, <1>1, PTL

\* Whatever the signals and the time-outs, a client whose create_port was read,
\* and in which no call failed, sets up its sockets on that port: nobody has
\* deleted it.
THEOREM PortIsThere == Spec => []PortBeforeUse
<1>1. IInv => PortBeforeUse
  <2> SUFFICES ASSUME IInv, NEW c \in Clients, stage[c] \in {"setup", "running"},
                      Now(c).op # "delete_port", ~Missed(requests[c][1])
               PROVE  c \in ports
    BY DEF PortBeforeUse
  <2>1. InSequence(c) /\ PortFollows(c)
    BY DEF IInv
  <2>2. 1 \in Numbers(c)
    BY Hand DEF Numbers
  <2>3. requests[c][1].step = "done" /\ requests[c][1].data \notin {"lost", "failed"}
    BY <2>1 DEF InSequence, Missed
  <2>4. requests[c][1] \in RequestType /\ WellFormed(requests[c][1])
    BY <2>1, <2>2, Hand, RequestTyped DEF InSequence
  <2>5. requests[c][1].data = "taken"
    BY <2>3, <2>4 DEF WellFormed, RequestType
  <2>6. Last(c) <= 2
    <3>1. Now(c).op \in {"create_port", "get_phy_if"}
      BY Hand DEF RequestType, Ops
    <3>2. QED
      BY <2>1, <3>1, Hand DEF InSequence
  <2>7. \A n \in Numbers(c) : requests[c][n].op # "delete_port"
    <3> SUFFICES ASSUME NEW n \in Numbers(c), requests[c][n].op = "delete_port" PROVE FALSE
      OBVIOUS
    <3>1. n # 1
      BY <2>1 DEF InSequence
    <3>2. n = Last(c)
      BY <2>6, <3>1, Hand DEF Numbers
    <3>3. QED
      BY <3>2, Hand
  <2>8. QED
    BY <2>1, <2>5, <2>7 DEF PortFollows, DeletionTried
<1>2. QED
  BY Inductive, <1>1, PTL

\* A client that exits leaves no port, whichever request a signal interrupted, if
\* its last delete_port was read and no call failed in it: its create_port is not
\* executed after that.
THEOREM NoPortLeft == Spec => []ExitRemovesPort
<1>1. IInv => ExitRemovesPort
  <2> SUFFICES ASSUME IInv, NEW c \in Clients, stage[c] = "exited", ~Missed(Now(c))
               PROVE  c \notin ports
    BY DEF ExitRemovesPort
  <2>1. InSequence(c) /\ PortFollows(c) /\ Now(c).op = "delete_port" /\ Now(c).step = "done"
    BY DEF IInv, InSequence
  <2>2. Now(c).data = "taken"
    BY <2>1, Hand DEF WellFormed, RequestType, Missed
  <2>3. QED
    BY <2>1, <2>2, Hand DEF PortFollows, Deleted
<1>2. QED
  BY Inductive, <1>1, PTL

\* For every client there is no port before its create_port was executed nor
\* after a delete_port in which no call failed, and there is one between a
\* create_port in which none failed and the first delete_port.
THEOREM PortFollowsCommands == Spec => []\A c \in Clients : PortFollows(c)
<1>1. IInv => \A c \in Clients : PortFollows(c)
  BY DEF IInv
<1>2. QED
  BY Inductive, <1>1, PTL

\* The connections of a client are accepted in the order in which they were made.
THEOREM CommandsInOrder == Spec => []\A c \in Clients : AcceptedInOrder(c)
<1>1. IInv => \A c \in Clients : AcceptedInOrder(c)
  BY DEF IInv
<1>2. QED
  BY Inductive, <1>1, PTL
=============================================================================
