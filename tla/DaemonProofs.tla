---------------------------- MODULE DaemonProofs ----------------------------
(***************************************************************************)
(* Theorems about module Daemon: for every set of prefixes and any number  *)
(* of lives, commands, failing calls and kills.  What goes wrong with a    *)
(* second signal is shown by a run of TLC; the theorems that need it       *)
(* assume that there is one signal at most (OneSignal).                    *)
(***************************************************************************)
EXTENDS Daemon, SequenceLemmas

OneSignal == SIGNALS <= 1

CreateSteps == {"add", "script", "outer", "inner", "devmap"}
DeleteSteps == {"remove", "unload", "unlink"}
Jobs == {NoJob} \cup [op : {"create"}, prefix : Prefixes, step : CreateSteps]
                \cup [op : {"delete"}, prefix : Prefixes, step : DeleteSteps]
Handler == [sig : Signals, stage : {"join", "joining", "unload", "list"}]

\* What holds for any number of signals.
IInv ==
  /\ TypeOK /\ IsInjective(veths)
  /\ job \in [Threads -> Jobs]
  /\ sent \in [commands : Nat, signals : 0 .. SIGNALS, crashes : Nat]
  /\ main \in {"spawn", "attach"} => Len(phy) < life
  /\ handlers["main"] = <<>> => flag = 0 /\ ~joining
  /\ faults = 0 /\ main = "wait" => devpin = life

LEMMA IsShortened == \A s, n : Sq!RemoveAt(s, n) = Shortened(s, n)
  BY DEF Shortened, Sq!RemoveAt

-----------------------------------------------------------------------------
(* The commands.                                                           *)

\* A step of a command belongs to a command of its kind, with a prefix.
LEMMA JobAt ==
  ASSUME job \in [Threads -> Jobs], NEW t \in Threads, NEW step, At(t, step), step # "done"
  PROVE  /\ job[t] # NoJob /\ job[t].prefix \in Prefixes /\ job[t].step = step
         /\ step \in CreateSteps => job[t].op = "create"
         /\ step \in DeleteSteps => job[t].op = "delete"
         /\ step \in CreateSteps \cup DeleteSteps
  BY DEF At, Jobs, NoJob, CreateSteps, DeleteSteps

\* What every step of a command leaves alone, and what becomes of the command.
LEMMA WorkFrame ==
  ASSUME job \in [Threads -> Jobs], NEW t \in Threads, Work(t)
  PROVE  /\ job' \in [Threads -> Jobs]
         /\ \A u \in Threads \ {t} : job'[u] = job[u]
         /\ job[t] # NoJob
         /\ job'[t] # NoJob => job'[t].op = job[t].op /\ job'[t].prefix = job[t].prefix
         /\ phy' = phy /\ devpin' = devpin
<1> USE DEF CreateSteps, DeleteSteps, Jobs, NoJob, At, Goto
<1>1. CASE Add(t)
  BY <1>1 DEF Add
<1>2. CASE Script(t)
  BY <1>2 DEF Script
<1>3. CASE Load(t, "outer", "inner")
  BY <1>3 DEF Load
<1>4. CASE Load(t, "inner", "devmap")
  BY <1>4 DEF Load
<1>5. CASE UpdateDevmap(t)
  BY <1>5 DEF UpdateDevmap
<1>6. CASE Remove(t)
  BY <1>6 DEF Remove
<1>7. CASE Unload(t)
  BY <1>7 DEF Unload
<1>8. CASE Unlink(t)
  BY <1>8 DEF Unlink
<1> QED BY <1>1, <1>2, <1>3, <1>4, <1>5, <1>6, <1>7, <1>8 DEF Work

\* veth_list_add finds or enters the prefix, or has no memory for it.
LEMMA AddOutcome ==
  ASSUME veths \in Seq(Prefixes), IsInjective(veths), NEW t \in Threads,
         job[t].prefix \in Prefixes, Add(t)
  PROVE  /\ UNCHANGED <<links, xdp, devmap>>
         /\ veths' \in Seq(Prefixes) /\ IsInjective(veths')
         /\ \/ /\ Range(veths') = Range(veths) \cup {job[t].prefix}
               /\ strays' = strays \ {job[t].prefix}
               /\ faults' = faults
            \/ /\ veths' = veths
               /\ strays' = strays \cup {job[t].prefix}
               /\ Fault
<1>1. CASE job[t].prefix \in Range(veths)
  BY <1>1 DEF Add
<1>2. CASE job[t].prefix \notin Range(veths) /\ veths' = Append(veths, job[t].prefix)
             /\ strays' = strays \ {job[t].prefix} /\ faults' = faults
  BY <1>2, Added DEF Add
<1>3. CASE veths' = veths /\ strays' = strays \cup {job[t].prefix} /\ Fault
  BY <1>3 DEF Add
<1> QED BY <1>1, <1>2, <1>3 DEF Add

\* The type of what the commands change.
LEMMA WorkType ==
  ASSUME PortsTypeOK, IsInjective(veths), job \in [Threads -> Jobs], NEW t \in Threads, Work(t)
  PROVE  PortsTypeOK' /\ IsInjective(veths)'
<1> DEFINE p == job[t].prefix
<1> USE PortsAssumption
<1>1. p \in Prefixes
  BY WorkFrame DEF Jobs
<1>2. job' \in [Threads -> {NoJob} \cup [op : {"create", "delete"}, prefix : Prefixes, step : Steps]]
  BY WorkFrame DEF Jobs, Steps, CreateSteps, DeleteSteps
<1>3. phy' \in Seq(Lives) /\ devpin' \in 0 .. LIVES
  BY WorkFrame DEF PortsTypeOK
<1>4. CASE Add(t)
  <2>1. /\ UNCHANGED <<links, xdp, devmap>>
        /\ veths' \in Seq(Prefixes) /\ IsInjective(veths')
        /\ strays' \subseteq strays \cup {p} /\ (faults' = faults \/ Fault)
    BY <1>1, <1>4, AddOutcome DEF PortsTypeOK
  <2>2. faults' \in 0 .. FAULTS
    BY <2>1 DEF PortsTypeOK, Fault
  <2>3. /\ veths' \in Seq(Prefixes) /\ links' \subseteq Prefixes /\ strays' \subseteq Prefixes
        /\ xdp' \in [Prefixes -> SUBSET {"outer", "inner"}]
        /\ devmap' \in [Lives -> Prefixes \cup {None}]
    BY <1>1, <2>1 DEF PortsTypeOK
  <2> QED BY <1>2, <1>3, <2>1, <2>2, <2>3 DEF PortsTypeOK
<1>5. CASE Script(t)
  BY <1>1, <1>2, <1>3, <1>5 DEF Script, Fault, PortsTypeOK
<1>6. CASE Load(t, "outer", "inner") \/ Load(t, "inner", "devmap")
  BY <1>1, <1>2, <1>3, <1>6, SMTT(30) DEF Load, Fault, PortsTypeOK
<1>7. CASE UpdateDevmap(t)
  <2>1. UNCHANGED <<veths, links, xdp, strays>>
    BY <1>7 DEF UpdateDevmap
  <2>2. devmap' \in [Lives -> Prefixes \cup {None}]
    BY <1>1, <1>7 DEF UpdateDevmap, PortsTypeOK
  <2>3. faults' \in 0 .. FAULTS
    BY <1>7 DEF UpdateDevmap, Fault, PortsTypeOK
  <2> QED BY <1>2, <1>3, <2>1, <2>2, <2>3 DEF PortsTypeOK
<1>8. CASE Remove(t)
  <2>1. UNCHANGED <<links, xdp, devmap, faults, strays>>
    BY <1>8 DEF Remove
  <2>2. veths' \in Seq(Prefixes) /\ IsInjective(veths')
    <3>1. veths \in Seq(Prefixes) /\ DOMAIN veths = 1 .. Len(veths)
      BY LenProperties DEF PortsTypeOK
    <3>2. CASE veths' = veths
      BY <3>1, <3>2
    <3>3. ASSUME NEW n \in DOMAIN veths, veths' = Sq!RemoveAt(veths, n)
          PROVE  veths' \in Seq(Prefixes) /\ IsInjective(veths')
      BY <3>1, <3>3, Removed, IsShortened
    <3> QED BY <1>8, <3>2, <3>3 DEF Remove
  <2> QED BY <1>2, <1>3, <2>1, <2>2 DEF PortsTypeOK
<1>9. CASE Unload(t)
  BY <1>1, <1>2, <1>3, <1>9 DEF Unload, Fault, PortsTypeOK
<1>10. CASE Unlink(t)
  BY <1>1, <1>2, <1>3, <1>10 DEF Unlink, Fault, PortsTypeOK
<1> QED BY <1>4, <1>5, <1>6, <1>7, <1>8, <1>9, <1>10 DEF Work

-----------------------------------------------------------------------------
(* The handlers.                                                           *)

\* A handler is at a stage only if there is one.
LEMMA HandlerThere ==
  ASSUME NEW t \in Threads, Stage(t) # "none"
  PROVE  handlers[t] # <<>>
  BY DEF Stage

\* The innermost handler of a thread goes on to another stage.
LEMMA NextStageOf ==
  ASSUME handlers \in [Threads -> Seq(Handler)], NEW t \in Threads, handlers[t] # <<>>,
         NEW stage \in {"join", "joining", "unload", "list"}, NextStage(t, stage)
  PROVE  /\ handlers' \in [Threads -> Seq(Handler)]
         /\ handlers'[t] # <<>> /\ Len(handlers'[t]) = Len(handlers[t])
         /\ Stage(t)' = stage
         /\ \A u \in Threads \ {t} : handlers'[u] = handlers[u]
<1> DEFINE h == handlers[t]
           n == Len(h)
           e == [h[n] EXCEPT !.stage = stage]
<1>1. h \in Seq(Handler) /\ n \in Nat /\ n \in 1 .. n
  BY EmptySeq, LenProperties
<1>2. h[n] \in Handler
  BY <1>1, ElementOfSeq
<1>3. e \in Handler /\ e.stage = stage
  BY <1>2 DEF Handler
<1>4. handlers' = [handlers EXCEPT ![t] = [h EXCEPT ![n] = e]]
  BY DEF NextStage
<1> HIDE DEF h, e
<1>5. /\ [h EXCEPT ![n] = e] \in Seq(Handler) /\ Len([h EXCEPT ![n] = e]) = n
      /\ [h EXCEPT ![n] = e][n] = e
  BY <1>1, <1>3, ExceptSeq
<1>6. handlers'[t] = [h EXCEPT ![n] = e]
  BY <1>4
<1>7. handlers'[t] # <<>>
  BY <1>1, <1>5, <1>6
<1>8. Stage(t)' = stage
  BY <1>3, <1>5, <1>6, <1>7 DEF Stage
<1> QED BY <1>1, <1>4, <1>5, <1>6, <1>7, <1>8 DEF h

-----------------------------------------------------------------------------
(* Every step keeps the invariant.                                         *)

LEMMA InitIInv == Init => IInv
<1> SUFFICES ASSUME Init PROVE IInv
  OBVIOUS
<1> USE PortsAssumption, DaemonAssumption DEF Init, PortsInit
<1>1. PortsTypeOK
  BY DEF PortsTypeOK, Lives
<1>2. handlers \in [Threads -> Seq(Handler)]
  OBVIOUS
<1>3. TypeOK
  <2>1. life \in Lives /\ Len(phy) = 0 /\ Len(phy) <= life
    BY DEF Lives
  <2>2. handlers \in [Threads -> Seq([sig : Signals, stage : {"join", "joining", "unload", "list"}])]
    BY <1>2 DEF Handler
  <2>3. /\ proc \in {"up", "exited", "aborted"} /\ flag \in {0, 1} /\ joining \in BOOLEAN
        /\ main \in {"spawn", "attach", "unpin", "pin", "wait"}
        /\ socket \in {"none", "bind", "check", "accept", "command", "ended"}
    OBVIOUS
  <2> QED BY ONLY <1>1, <2>1, <2>2, <2>3 DEF TypeOK
<1>4. IsInjective(veths)
  BY DEF IsInjective
<1> QED BY <1>3, <1>4 DEF IInv, Jobs

\* The threads, as far as the ports stay as they are.
LEMMA ThreadsKeepIInv ==
  ASSUME IInv,
         \/ Spawn \/ Sleep \/ JoinNothing \/ Bind \/ CheckFlag \/ AcceptTimeout \/ Answer
         \/ SignalIgnored \/ Crash \/ Over \/ UNCHANGED vars
         \/ \E t \in Threads : Exit(t)
  PROVE  IInv'
<1> USE PortsAssumption, DaemonAssumption
    DEF Spawn, Sleep, JoinNothing, Bind, CheckFlag, AcceptTimeout, Answer, SignalIgnored,
        Crash, Over, Exit, Undisturbed
<1>1. UNCHANGED portVars /\ UNCHANGED <<life, handlers, joining, flag>>
  BY DEF vars, threadVars
<1>2. PortsTypeOK' /\ IsInjective(veths)' /\ job' \in [Threads -> Jobs]
  BY <1>1 DEF portVars, PortsTypeOK, IInv, TypeOK
<1>3. sent' \in [commands : Nat, signals : 0 .. SIGNALS, crashes : Nat]
  BY DEF IInv, vars
<1>4. /\ proc' \in {"up", "exited", "aborted"}
      /\ main' \in {"spawn", "attach", "unpin", "pin", "wait"}
      /\ socket' \in {"none", "bind", "check", "accept", "command", "ended"}
  BY DEF IInv, TypeOK, vars, threadVars
<1>5. TypeOK'
  BY <1>1, <1>2, <1>4 DEF IInv, TypeOK, portVars
<1>6. main' = main \/ (main = "spawn" /\ main' = "attach")
  BY DEF IInv, TypeOK, vars, threadVars
<1> QED BY <1>1, <1>2, <1>3, <1>5, <1>6 DEF IInv, portVars

\* The program of the device and its pin.
LEMMA DeviceKeepsIInv ==
  ASSUME IInv, AttachPhy \/ UnpinOld \/ PinNew
  PROVE  IInv'
<1> USE PortsAssumption, DaemonAssumption DEF AttachPhy, UnpinOld, PinNew, Undisturbed, Fault
<1>1. UNCHANGED <<job, veths, links, xdp, devmap, strays, proc, life, socket, flag, handlers,
                  joining, sent>>
  OBVIOUS
<1>2. phy' \in Seq(Lives) /\ Len(phy') <= life /\ life \in Lives
  <2>1. phy \in Seq(Lives) /\ life \in Lives /\ Len(phy) <= life /\ Len(phy) \in Nat
    BY DEF IInv, TypeOK, PortsTypeOK
  <2>2. CASE phy' = phy
    BY <2>1, <2>2
  <2>3. CASE phy' = Append(phy, life) /\ main = "attach"
    BY <2>1, <2>3, AppendProperties DEF IInv, Lives
  <2> QED BY <2>2, <2>3
<1>3. devpin' \in 0 .. LIVES /\ faults' \in 0 .. FAULTS
  <2>1. /\ devpin \in 0 .. LIVES /\ faults \in 0 .. FAULTS
        /\ LIVES \in Nat /\ life \in 1 .. LIVES
    BY DEF IInv, TypeOK, PortsTypeOK, Lives
  <2>2. devpin' \in {devpin, 0, life} /\ faults' \in {faults, faults + 1}
        /\ (faults' # faults => faults < FAULTS)
    OBVIOUS
  <2> QED BY ONLY <2>1, <2>2, PortsAssumption
<1>4. main' \in {"unpin", "pin", "wait"}
  OBVIOUS
<1>5. TypeOK'
  BY <1>1, <1>2, <1>3, <1>4 DEF IInv, TypeOK, PortsTypeOK
<1>6. faults' = 0 /\ main' = "wait" => devpin' = life
  BY DEF IInv, TypeOK, PortsTypeOK
<1> QED BY <1>1, <1>4, <1>5, <1>6 DEF IInv

\* The stages of exit_daemon.
LEMMA HandlersKeepIInv ==
  ASSUME IInv, NEW t \in Threads,
         Join(t) \/ (t = "main" /\ Joined) \/ UnloadPhy(t)
  PROVE  IInv'
<1> USE PortsAssumption, DaemonAssumption DEF Join, Joined, UnloadPhy, InHandler, Fault
<1>1. /\ UNCHANGED <<job, veths, links, xdp, devpin, devmap, strays, proc, life, main, socket,
                     flag, sent>>
      /\ joining' \in BOOLEAN
  BY DEF portVars, IInv, TypeOK
<1>2. handlers \in [Threads -> Seq(Handler)] /\ handlers[t] # <<>>
  BY HandlerThere DEF IInv, TypeOK, Handler
<1>3. \E stage \in {"join", "joining", "unload", "list"} : NextStage(t, stage)
  OBVIOUS
<1>4. /\ handlers' \in [Threads -> Seq(Handler)] /\ handlers'[t] # <<>>
      /\ \A u \in Threads \ {t} : handlers'[u] = handlers[u]
  BY <1>2, <1>3, NextStageOf
<1>5. /\ phy' \in Seq(Lives) /\ Len(phy') <= life /\ (phy' = phy \/ Len(phy') = 0)
      /\ faults' \in 0 .. FAULTS /\ (faults' = 0 => faults = 0)
  <2>1. /\ phy \in Seq(Lives) /\ Len(phy) <= life /\ life \in Nat
        /\ faults \in 0 .. FAULTS /\ FAULTS \in Nat
    BY DEF IInv, TypeOK, PortsTypeOK, Lives
  <2>2. phy' \in {phy, <<>>}
    BY DEF portVars
  <2>3. faults' = faults \/ (faults < FAULTS /\ faults' = faults + 1)
    BY DEF portVars
  <2>4. faults' \in 0 .. FAULTS /\ (faults' = 0 => faults = 0)
    BY ONLY <2>1, <2>3
  <2>5. CASE phy' = phy
    BY ONLY <2>1, <2>4, <2>5
  <2>6. CASE phy' = <<>>
    <3>1. <<>> \in Seq(Lives) /\ Len(<<>>) = 0
      BY EmptySeq
    <3> QED BY ONLY <2>1, <2>4, <2>6, <3>1
  <2> QED BY <2>2, <2>5, <2>6
<1>6. TypeOK'
  BY <1>1, <1>4, <1>5 DEF IInv, TypeOK, PortsTypeOK, Handler
<1>7. handlers'["main"] = <<>> => handlers["main"] = <<>> /\ joining' = joining
  <2>1. CASE t = "main"
    BY <1>4, <2>1
  <2>2. CASE t # "main"
    <3>1. handlers'["main"] = handlers["main"]
      BY <1>4, <2>2
    <3>2. joining' = joining
      BY <2>2 DEF IInv, TypeOK
    <3> QED BY <3>1, <3>2
  <2> QED BY <2>1, <2>2
<1> QED BY <1>1, <1>5, <1>6, <1>7 DEF IInv, TypeOK, Lives

\* A command begins.
LEMMA StartKeepsIInv ==
  ASSUME IInv, NEW t \in Threads,
         UnloadNext(t) \/ (t = "socket" /\ \E op \in {"create", "delete"}, p \in Prefixes : Accept(op, p))
  PROVE  IInv'
<1> USE PortsAssumption, DaemonAssumption DEF UnloadNext, Accept, Start
<1>1. /\ UNCHANGED <<veths, links, xdp, phy, devpin, devmap, strays, faults, proc, life, main,
                     flag, handlers, joining>>
      /\ socket' \in {socket, "command"}
  BY DEF threadVars
<1>2. sent' \in [commands : Nat, signals : 0 .. SIGNALS, crashes : Nat]
  BY DEF IInv
<1>3. job' \in [Threads -> Jobs]
  <2>1. ASSUME NEW op \in {"create", "delete"}, NEW p \in Prefixes, Start(t, op, p)
        PROVE  job' \in [Threads -> Jobs]
    <3>1. Job(op, p, IF op = "create" THEN "add" ELSE "remove") \in Jobs
      BY DEF Job, Jobs, CreateSteps, DeleteSteps
    <3> QED BY <2>1, <3>1 DEF IInv
  <2>2. veths # <<>> => Head(veths) \in Prefixes
    BY HeadTailProperties DEF IInv, TypeOK, PortsTypeOK
  <2> QED BY <2>1, <2>2
<1>4. job' \in [Threads -> {NoJob} \cup [op : {"create", "delete"}, prefix : Prefixes, step : Steps]]
  BY <1>3 DEF Jobs, Steps, CreateSteps, DeleteSteps
<1>5. TypeOK'
  BY <1>1, <1>4 DEF IInv, TypeOK, PortsTypeOK
<1> QED BY <1>1, <1>2, <1>3, <1>5 DEF IInv

LEMMA SignalKeepsIInv ==
  ASSUME IInv, NEW t \in Threads, NEW sig \in Signals, Signal(t, sig)
  PROVE  IInv'
<1> USE PortsAssumption, DaemonAssumption DEF Signal
<1> DEFINE h == [sig |-> sig, stage |-> "join"]
<1>1. handlers \in [Threads -> Seq(Handler)] /\ h \in Handler
  BY DEF IInv, TypeOK, Handler
<1>2. handlers' = [handlers EXCEPT ![t] = Append(handlers[t], h)]
  OBVIOUS
<1> HIDE DEF h
<1>3. Append(handlers[t], h) \in Seq(Handler) /\ Append(handlers[t], h) # <<>>
  <2>1. handlers[t] \in Seq(Handler)
    BY <1>1
  <2> QED BY ONLY <1>1, <2>1, AppendProperties
<1>4. handlers' \in [Threads -> Seq(Handler)] /\ handlers'["main"] # <<>>
  <2>1. handlers' \in [Threads -> Seq(Handler)]
    BY <1>1, <1>2, <1>3
  <2>2. CASE t = "main"
    BY <1>1, <1>2, <1>3, <2>2
  <2>3. CASE t # "main"
    <3>1. handlers["main"] # <<>>
      BY <2>3 DEF MayTake
    <3> QED BY <1>1, <1>2, <2>3, <3>1
  <2> QED BY <2>1, <2>2, <2>3
<1>5. job' \in [Threads -> Jobs]
  BY DEF IInv, Jobs
<1>6. job' \in [Threads -> {NoJob} \cup [op : {"create", "delete"}, prefix : Prefixes, step : Steps]]
  BY <1>5 DEF Jobs, Steps, CreateSteps, DeleteSteps
<1>7. sent' \in [commands : Nat, signals : 0 .. SIGNALS, crashes : Nat]
  BY DEF IInv
<1>8. TypeOK'
  BY <1>4, <1>6 DEF IInv, TypeOK, PortsTypeOK, Handler
<1> QED BY <1>4, <1>5, <1>7, <1>8 DEF IInv

LEMMA RestartKeepsIInv == ASSUME IInv, Restart PROVE IInv'
<1> USE PortsAssumption, DaemonAssumption DEF Restart
<1>1. PortsTypeOK'
  BY DEF IInv, TypeOK, PortsTypeOK
<1>2. handlers' \in [Threads -> Seq(Handler)]
  OBVIOUS
<1>3. life' \in Lives /\ Len(phy') < life' /\ Len(phy') \in Nat
  BY DEF IInv, TypeOK, PortsTypeOK, Lives
<1>4. TypeOK'
  <2>1. handlers' \in [Threads -> Seq([sig : Signals, stage : {"join", "joining", "unload", "list"}])]
    BY <1>2 DEF Handler
  <2>2. /\ proc' \in {"up", "exited", "aborted"} /\ flag' \in {0, 1} /\ joining' \in BOOLEAN
        /\ main' \in {"spawn", "attach", "unpin", "pin", "wait"}
        /\ socket' \in {"none", "bind", "check", "accept", "command", "ended"}
    OBVIOUS
  <2>3. Len(phy') <= life'
    BY <1>3 DEF Lives
  <2> QED BY ONLY <1>1, <1>3, <2>1, <2>2, <2>3 DEF TypeOK
<1>5. IsInjective(veths)'
  BY DEF IsInjective
<1> QED BY <1>3, <1>4, <1>5 DEF IInv, Jobs

LEMMA OthersKeepIInv == ASSUME IInv, AcceptFails \/ Quit PROVE IInv'
<1> USE PortsAssumption, DaemonAssumption DEF AcceptFails, Quit, Undisturbed, Fault
<1>1. /\ UNCHANGED <<job, veths, links, xdp, phy, devpin, devmap, strays, life, main, flag,
                     handlers, joining, sent>>
      /\ proc' \in {proc, "aborted"} /\ socket' \in {socket, "ended"}
  BY DEF threadVars
<1>2. faults' \in 0 .. FAULTS /\ faults' # 0
  BY DEF IInv, TypeOK, PortsTypeOK
<1>3. TypeOK'
  BY <1>1, <1>2 DEF IInv, TypeOK, PortsTypeOK
<1> QED BY <1>1, <1>2, <1>3 DEF IInv

LEMMA WorkKeepsIInv == ASSUME IInv, NEW t \in Threads, Execute(t) PROVE IInv'
<1>1. Work(t) /\ UNCHANGED <<proc, life, main, socket, flag, handlers, joining, sent>>
  BY DEF Execute, threadVars
<1>2. PortsTypeOK' /\ IsInjective(veths)' /\ job' \in [Threads -> Jobs] /\ phy' = phy /\ devpin' = devpin
  BY <1>1, WorkType, WorkFrame DEF IInv, TypeOK
<1>3. faults' = 0 => faults = 0
  BY <1>1, PortsAssumption DEF Work, Add, Script, Load, UpdateDevmap, Remove, Unload, Unlink, Fault,
          IInv, TypeOK, PortsTypeOK
<1>4. TypeOK'
  BY <1>1, <1>2 DEF IInv, TypeOK
<1> QED BY <1>1, <1>2, <1>3, <1>4 DEF IInv

LEMMA NextIInv == ASSUME IInv, [Next]_vars PROVE IInv'
<1> USE DaemonAssumption
<1> QED BY ThreadsKeepIInv, DeviceKeepsIInv, HandlersKeepIInv, StartKeepsIInv, SignalKeepsIInv,
           RestartKeepsIInv, OthersKeepIInv, WorkKeepsIInv
        DEF Next, MainThread, SocketThread, Environment

\* The inductive invariant of the daemon, whatever signals it is sent.
LEMMA Inductive == Spec => []IInv
  BY InitIInv, NextIInv, PTL DEF Spec

\* Every variable of the daemon keeps its type, and each life attaches its
\* program to the device once, for any number of prefixes, lives and signals.
THEOREM TypeCorrect == Spec => []TypeOK
<1>1. IInv => TypeOK
  BY DEF IInv
<1> QED BY Inductive, <1>1, PTL

\* The loop of main is never left: the veth_list_destroy behind it is not reached.
THEOREM MainSleeps == Spec => []LoopNeverLeft
<1>1. IInv => LoopNeverLeft
  BY DEF IInv, LoopNeverLeft, Undisturbed
<1> QED BY Inductive, <1>1, PTL

\* The count of failed calls never goes down.
LEMMA FaultsGrow ==
  ASSUME IInv, [Next]_vars, faults' = 0
  PROVE  faults = 0
<1>1. faults \in Nat
  BY PortsAssumption DEF IInv, TypeOK, PortsTypeOK
<1>2. faults' = faults \/ Fault
  BY DEF Next, MainThread, SocketThread, Environment, Spawn, AttachPhy, UnpinOld, PinNew, Sleep,
         JoinNothing, Joined, Join, UnloadPhy, UnloadNext, Execute, Exit, Bind, CheckFlag,
         AcceptTimeout, Answer, Accept, Signal, SignalIgnored, AcceptFails, Quit, Crash, Restart,
         Over, vars, portVars, Work, Add, Script, Load, UpdateDevmap, Remove, Unload, Unlink
<1> QED BY <1>1, <1>2 DEF Fault

\* Only its own last step ends the command of a client, unless the thread is
\* interrupted or the daemon is started again.
LEMMA CommandEnds ==
  ASSUME IInv, [Next]_vars, proc = "up", At("socket", "devmap"), job'["socket"] = NoJob,
         handlers' = handlers
  PROVE  UpdateDevmap("socket")
<1> USE DaemonAssumption
<1>1. "socket" \in Threads /\ "main" \in Threads /\ job \in [Threads -> Jobs]
  BY DEF IInv
<1>2. job["socket"] # NoJob /\ job' # job
  BY <1>1, JobAt
<1>3. ~(UNCHANGED portVars) /\ ~(UNCHANGED job)
  BY <1>2 DEF portVars
<1>4. ASSUME NEW t \in Threads, NEW sig \in Signals, Signal(t, sig) PROVE FALSE
  <2> DEFINE h == [sig |-> sig, stage |-> "join"]
  <2>1. handlers[t] \in Seq(Handler) /\ h \in Handler
    BY DEF IInv, TypeOK, Handler
  <2>2. handlers'[t] = Append(handlers[t], h)
    BY <1>4 DEF Signal, IInv, TypeOK
  <2> HIDE DEF h
  <2>3. Len(Append(handlers[t], h)) # Len(handlers[t])
    BY <2>1, AppendProperties, LenProperties
  <2> QED BY <2>2, <2>3
<1>5. ASSUME NEW t \in Threads, NEW op, NEW p, Start(t, op, p) PROVE job'["socket"] = job["socket"] \/ t = "socket"
  BY <1>1, <1>5 DEF Start
<1>6. ASSUME UnloadNext("main") PROVE FALSE
  BY <1>1, <1>2, <1>5, <1>6 DEF UnloadNext
<1>7. ASSUME UnloadNext("socket") \/ \E op \in {"create", "delete"}, p \in Prefixes : Accept(op, p)
      PROVE  FALSE
  BY <1>2, <1>7 DEF UnloadNext, Accept, Start
<1>8. ASSUME Execute("main") PROVE FALSE
  BY <1>1, <1>2, <1>8, WorkFrame DEF Execute
<1>9. ASSUME Execute("socket") PROVE UpdateDevmap("socket")
  BY <1>9 DEF Execute, Work, At, Add, Script, Load, Remove, Unload, Unlink
<1>10. Execute("socket")
  BY <1>3, <1>4, <1>6, <1>7, <1>8
  DEF Next, MainThread, SocketThread, Environment, Spawn, AttachPhy, UnpinOld, PinNew, Sleep,
      JoinNothing, Joined, Join, UnloadPhy, Exit, Bind, CheckFlag, AcceptTimeout, Answer,
      SignalIgnored, AcceptFails, Quit, Crash, Restart, Over, vars
<1> QED BY <1>9, <1>10

\* create_port on a daemon that has finished starting redirects the traffic of
\* the device to the new port, whatever an earlier daemon left pinned: for any
\* number of prefixes, lives, commands and signals.
THEOREM CreatesRedirect == Spec => CreateRedirects
<1>1. ASSUME IInv, [Next]_vars,
             proc = "up", At("socket", "devmap"), job'["socket"] = NoJob, handlers' = handlers,
             main = "wait", phy = <<life>>, faults' = 0, job["socket"].prefix \in links
      PROVE  Targets' = {job["socket"].prefix}
  <2> DEFINE p == job["socket"].prefix
  <2>1. UpdateDevmap("socket") /\ faults = 0
    BY <1>1, CommandEnds, FaultsGrow
  <2>2. devpin = life /\ life \in Lives /\ devmap \in [Lives -> Prefixes \cup {None}] /\ life # 0
    BY <1>1, <2>1 DEF IInv, TypeOK, PortsTypeOK, Lives
  <2>3. p \in Prefixes /\ p # None
    BY <1>1, PortsAssumption DEF IInv, TypeOK, PortsTypeOK, None
  <2>4. devmap' = [devmap EXCEPT ![life] = p] /\ phy' = phy
    BY <1>1, <2>1, <2>2 DEF UpdateDevmap, Fault
  <2>5. devmap'[life] = p
    BY <2>2, <2>4
  <2>6. phy' # <<>> /\ Head(phy') = life
    BY <1>1, <2>4
  <2> QED BY <2>3, <2>5, <2>6 DEF Targets
<1>2. IInv /\ [Next]_vars =>
        [ /\ proc = "up" /\ At("socket", "devmap") /\ job'["socket"] = NoJob
          /\ handlers' = handlers
          /\ main = "wait" /\ phy = <<life>> /\ faults' = 0
          /\ job["socket"].prefix \in links
          => Targets' = {job["socket"].prefix} ]_vars
  BY <1>1
<1> QED BY Inductive, <1>2, PTL DEF Spec, CreateRedirects

-----------------------------------------------------------------------------
(* One signal at most: the threads.                                        *)

\* The main thread takes the signal, so that it alone is in exit_daemon; what
\* comes after the join does not overlap with a command.
Control ==
  /\ main = "spawn" => socket = "none"
  /\ handlers["socket"] = <<>>
  /\ Len(handlers["main"]) <= sent.signals
  /\ joining => Stage("main") # "join"
  /\ Stage("main") \in {"unload", "list"} => socket = "ended"
  /\ socket # "command" => job["socket"] = NoJob
  /\ Stage("main") # "list" => job["main"] = NoJob
  /\ job["main"].op # "create"

LEMMA ControlInit == Init => Control
  BY DaemonAssumption DEF Init, PortsInit, Control, Stage, NoJob

LEMMA ThreadsKeepControl ==
  ASSUME IInv, Control,
         \/ Spawn \/ AttachPhy \/ UnpinOld \/ PinNew \/ Sleep \/ JoinNothing \/ Exit("main")
         \/ Bind \/ CheckFlag \/ AcceptTimeout \/ AcceptFails \/ Answer
         \/ SignalIgnored \/ Quit \/ Crash \/ Over \/ UNCHANGED vars
  PROVE  Control'
<1> USE DaemonAssumption
    DEF Spawn, AttachPhy, UnpinOld, PinNew, Sleep, JoinNothing, Exit, Bind, CheckFlag,
        AcceptTimeout, AcceptFails, Answer, SignalIgnored, Quit, Crash, Over, Undisturbed
<1>1. UNCHANGED <<job, handlers, joining>>
  BY DEF vars, portVars, threadVars
<1>2. sent.signals \in Nat /\ sent'.signals \in Nat /\ sent.signals <= sent'.signals
  BY DEF IInv, vars
<1>3. Len(handlers["main"]) \in Nat
  BY LenProperties DEF IInv, TypeOK
<1>4. /\ main' = "spawn" => main = "spawn" /\ socket' = socket
      /\ socket = "ended" => socket' = "ended"
      /\ socket' # "command" => socket # "command" \/ job["socket"] = NoJob
  BY DEF Control, IInv, TypeOK, vars, threadVars
<1>5. Stage("main")' = Stage("main")
  BY <1>1 DEF Stage
<1> QED BY <1>1, <1>2, <1>3, <1>4, <1>5 DEF Control

LEMMA HandlersKeepControl ==
  ASSUME IInv, Control, Join("main") \/ Joined \/ UnloadPhy("main")
  PROVE  Control'
<1> USE DaemonAssumption DEF Join, Joined, UnloadPhy, InHandler
<1>1. /\ UNCHANGED <<job, main, socket, sent>>
      /\ joining' # joining => Join("main")
  BY DEF portVars
<1>2. handlers \in [Threads -> Seq(Handler)] /\ handlers["main"] # <<>>
  BY HandlerThere DEF IInv, TypeOK, Handler
<1>3. PICK stage \in {"joining", "unload", "list"} :
        /\ NextStage("main", stage)
        /\ stage \in {"unload", "list"} => socket = "ended"
  <2>1. CASE Join("main")
    BY <2>1 DEF JoinReturns, Control
  <2>2. CASE Joined \/ UnloadPhy("main")
    BY <2>2 DEF Control
  <2> QED BY <2>1, <2>2
<1>4. /\ Len(handlers'["main"]) = Len(handlers["main"])
      /\ Stage("main")' = stage /\ handlers'["socket"] = handlers["socket"]
  BY <1>2, <1>3, NextStageOf
<1>5. job["main"] = NoJob
  BY DEF Control
<1> QED BY <1>1, <1>3, <1>4, <1>5 DEF Control

LEMMA StartKeepsControl ==
  ASSUME IInv, Control,
         UnloadNext("main") \/ \E op \in {"create", "delete"}, p \in Prefixes : Accept(op, p)
  PROVE  Control'
<1> USE DaemonAssumption
<1>1. CASE UnloadNext("main")
  <2>1. /\ UNCHANGED <<main, socket, handlers, joining, sent>>
        /\ Stage("main") = "list" /\ Stage("main")' = "list"
        /\ job'["socket"] = job["socket"] /\ job'["main"].op = "delete"
    BY <1>1 DEF UnloadNext, threadVars, InHandler, Stage, Start, Job, IInv
  <2> QED BY <2>1 DEF Control
<1>2. ASSUME NEW op \in {"create", "delete"}, NEW p \in Prefixes, Accept(op, p)
      PROVE  Control'
  <2>1. /\ UNCHANGED <<main, handlers, joining>> /\ sent'.signals = sent.signals
        /\ socket = "accept" /\ socket' = "command"
        /\ job'["main"] = job["main"] /\ Stage("main")' = Stage("main")
    BY <1>2 DEF Accept, Undisturbed, Start, IInv, Stage
  <2> QED BY <2>1 DEF Control
<1> QED BY <1>1, <1>2

\* The one signal finds the main thread in no handler.
LEMMA TheSignal ==
  ASSUME IInv, Control, OneSignal, NEW t \in Threads, NEW sig \in Signals, Signal(t, sig)
  PROVE  /\ t = "main" /\ Stage("main") = "none" /\ Stage("main")' = "join"
         /\ handlers["main"] = <<>> /\ Len(handlers'["main"]) = 1
         /\ handlers'["socket"] = handlers["socket"]
         /\ sent'.signals = 1
         /\ job["main"] = NoJob /\ job' = job
<1> USE DaemonAssumption
<1> DEFINE h == [sig |-> sig, stage |-> "join"]
<1>1. handlers \in [Threads -> Seq(Handler)] /\ h \in Handler /\ h.stage = "join"
  BY DEF IInv, TypeOK, Handler
<1>2. sent.signals = 0 /\ sent'.signals = 1
  BY DEF Signal, OneSignal, IInv
<1>3. handlers["main"] = <<>> /\ t = "main"
  <2>1. Len(handlers["main"]) \in Nat /\ Len(handlers["main"]) <= 0
    BY <1>1, <1>2, LenProperties DEF Control
  <2>2. handlers["main"] = <<>>
    BY <1>1, <2>1, EmptySeq
  <2> QED BY <2>2 DEF Signal, MayTake
<1>4. handlers' = [handlers EXCEPT !["main"] = Append(<<>>, h)]
  BY <1>1, <1>3 DEF Signal
<1> HIDE DEF h
<1>5. /\ Len(handlers'["main"]) = 1 /\ handlers'["main"][1] = h
      /\ handlers'["main"] # <<>> /\ handlers'["socket"] = handlers["socket"]
  BY <1>1, <1>4
<1>6. Stage("main") = "none" /\ Stage("main")' = "join"
  BY <1>1, <1>3, <1>5 DEF Stage
<1>7. job["main"] = NoJob
  BY <1>6 DEF Control
<1>8. job' = job
  BY <1>3, <1>7 DEF Signal, IInv
<1> QED BY <1>2, <1>3, <1>5, <1>6, <1>7, <1>8

LEMMA SignalKeepsControl ==
  ASSUME IInv, Control, OneSignal, NEW t \in Threads, NEW sig \in Signals, Signal(t, sig)
  PROVE  Control'
<1>1. ~joining /\ UNCHANGED <<joining, main, socket>>
  BY TheSignal DEF IInv, Signal
<1>2. /\ Stage("main")' = "join" /\ Len(handlers'["main"]) = 1 /\ sent'.signals = 1
      /\ handlers'["socket"] = handlers["socket"] /\ job' = job /\ job["main"] = NoJob
  BY TheSignal
<1> QED BY <1>1, <1>2 DEF Control, NoJob

LEMMA ExecuteKeepsControl ==
  ASSUME IInv, Control, NEW t \in Threads, Execute(t)
  PROVE  Control'
<1> USE DaemonAssumption
<1>1. /\ Work(t) /\ UNCHANGED <<main, socket, handlers, joining, sent>>
      /\ Stage("main")' = Stage("main") /\ job \in [Threads -> Jobs]
  BY DEF Execute, threadVars, Stage, IInv
<1>2. /\ job[t] # NoJob /\ (job'[t] = NoJob \/ job'[t].op = job[t].op)
      /\ \A u \in Threads \ {t} : job'[u] = job[u]
  BY <1>1, WorkFrame
<1>3. NoJob.op # "create"
  BY DEF NoJob
<1>4. CASE t = "main"
  BY <1>1, <1>2, <1>3, <1>4 DEF Control
<1>5. CASE t = "socket"
  BY <1>1, <1>2, <1>5 DEF Control
<1> QED BY <1>4, <1>5

LEMMA RestartKeepsControl == ASSUME IInv, Restart PROVE Control'
<1>1. sent'.signals \in Nat
  BY DEF Restart, IInv
<1>2. handlers'["main"] = <<>> /\ handlers'["socket"] = <<>>
  BY DaemonAssumption DEF Restart
<1>3. Stage("main")' = "none" /\ Len(handlers'["main"]) = 0
  BY <1>2 DEF Stage
<1> QED BY <1>1, <1>2, <1>3, DaemonAssumption DEF Restart, Control, NoJob

LEMMA ControlNext == ASSUME IInv, Control, OneSignal, [Next]_vars PROVE Control'
<1>1. ASSUME Join("socket") \/ UnloadPhy("socket") \/ UnloadNext("socket") \/ Exit("socket")
      PROVE  FALSE
  BY <1>1 DEF Join, UnloadPhy, UnloadNext, Exit, InHandler, Stage, Control
<1> QED BY <1>1, ThreadsKeepControl, HandlersKeepControl, StartKeepsControl, SignalKeepsControl,
           ExecuteKeepsControl, RestartKeepsControl, DaemonAssumption
        DEF Next, MainThread, SocketThread, Environment

LEMMA Controlled == ASSUME OneSignal PROVE Spec => [](IInv /\ Control)
<1>1. IInv /\ Control /\ [Next]_vars => IInv' /\ Control'
  BY NextIInv, ControlNext
<1> QED BY InitIInv, ControlInit, <1>1, PTL DEF Spec

\* exit_daemon unloads nothing while a command may still be executed, if there
\* is one signal at most: for any number of prefixes, lives and commands.
THEOREM ExitWaits == ASSUME OneSignal PROVE Spec => []UnloadsAlone
<1>1. IInv /\ Control => UnloadsAlone
  BY DaemonAssumption DEF Control, UnloadsAlone, Stage
<1> QED BY Controlled, <1>1, PTL

-----------------------------------------------------------------------------
(* One signal at most: the ports.                                          *)

\* The table knows the pairs that this daemon made; the port of a command that
\* creates it is in the table from its first step on, if there was memory.  What exit_daemon leaves
\* when it has come to its end.
Known ==
  /\ \A p \in links \ strays : p \in Range(veths) \/ Deleting(p)
  /\ \A t \in Threads :
       job[t].op = "create" /\ job[t].step # "add" =>
         job[t].prefix \in Range(veths) \cup strays
  /\ Stage("main") = "list" /\ faults = 0 => phy = <<>>
  /\ proc = "exited" => Stage("main") = "list" /\ veths = <<>> /\ job["main"] = NoJob

\* One command at most is executed.
LEMMA Alone ==
  ASSUME Control, NEW t \in Threads, job[t] # NoJob
  PROVE  \A u \in Threads \ {t} : job[u] = NoJob
  BY DaemonAssumption DEF Control

\* The effect of a step of a command on the table and on the pairs.
LEMMA WorkKeepsKnown ==
  ASSUME IInv, Control, Known, NEW t \in Threads, Work(t)
  PROVE  /\ \A p \in links' \ strays' : p \in Range(veths)' \/ Deleting(p)'
         /\ job'[t].op = "create" /\ job'[t].step # "add" =>
              job'[t].prefix \in Range(veths)' \cup strays'
<1> DEFINE q == job[t].prefix
<1>1. /\ job \in [Threads -> Jobs] /\ veths \in Seq(Prefixes) /\ IsInjective(veths)
      /\ DOMAIN veths = 1 .. Len(veths)
  BY LenProperties DEF IInv, TypeOK, PortsTypeOK
<1>2. /\ job[t] # NoJob /\ q \in Prefixes
      /\ \A u \in Threads \ {t} : job[u] = NoJob /\ job'[u] = NoJob
  BY <1>1, WorkFrame, Alone DEF Jobs
<1>3. \A p : Deleting(p) <=> job[t].op = "delete" /\ job[t].prefix = p
  BY <1>2 DEF Deleting, NoJob
<1>4. \A p : Deleting(p)' <=> job'[t].op = "delete" /\ job'[t].prefix = p
  BY <1>2 DEF Deleting, NoJob
<1>5. \A step : At(t, step) /\ step \in CreateSteps => job[t].op = "create" /\ job[t].step = step
  BY <1>1, JobAt DEF CreateSteps
<1>6. \A step : At(t, step) /\ step \in DeleteSteps => job[t].op = "delete" /\ job[t].step = step
  BY <1>1, JobAt DEF DeleteSteps
<1>7. \A step : Goto(t, step) /\ step # "done" =>
        job'[t].op = job[t].op /\ job'[t].prefix = q /\ job'[t].step = step
  BY <1>1, <1>2 DEF Goto, Jobs
<1>8. Goto(t, "done") => job'[t] = NoJob
  BY <1>1 DEF Goto
<1> USE DEF CreateSteps, DeleteSteps, NoJob
<1>9. CASE Add(t)
  <2>1. /\ Range(veths) \subseteq Range(veths') /\ links' = links
        /\ strays \ {q} \subseteq strays' /\ q \in Range(veths') \cup strays'
    BY <1>1, <1>2, <1>9, AddOutcome
  <2>2. job'[t].op = "create" /\ job'[t].prefix = q /\ job[t].op = "create"
    BY <1>5, <1>7, <1>9 DEF Add
  <2> QED BY <1>3, <2>1, <2>2 DEF Known
<1>10. CASE Script(t)
  <2>1. veths' = veths /\ strays' = strays /\ links' \subseteq links \cup {q}
    BY <1>10 DEF Script
  <2>2. job'[t].op = "create" /\ job'[t].prefix = q /\ job[t].op = "create" /\ q \in Range(veths) \cup strays
    BY <1>5, <1>7, <1>10 DEF Script, Known
  <2> QED BY <1>3, <2>1, <2>2 DEF Known
<1>11. CASE Load(t, "outer", "inner") \/ Load(t, "inner", "devmap") \/ UpdateDevmap(t)
  <2>1. veths' = veths /\ strays' = strays /\ links' = links
    BY <1>11 DEF Load, UpdateDevmap
  <2>2. job[t].op = "create" /\ q \in Range(veths) \cup strays
    BY <1>5, <1>11 DEF Load, UpdateDevmap, Known
  <2>3. job'[t] = NoJob \/ job'[t].prefix = q
    BY <1>7, <1>8, <1>11 DEF Load, UpdateDevmap
  <2> QED BY <1>3, <2>1, <2>2, <2>3 DEF Known
<1>12. CASE Remove(t)
  <2>1. links' = links /\ strays' = strays
    BY <1>12 DEF Remove
  <2>2. Range(veths) \ {q} \subseteq Range(veths')
    <3>1. CASE veths' = veths
      BY <3>1
    <3>2. ASSUME NEW n \in DOMAIN veths, veths[n] = q, veths' = Sq!RemoveAt(veths, n)
          PROVE  Range(veths') = Range(veths) \ {q}
      BY <1>1, <3>2, Removed, IsShortened
    <3> QED BY <1>12, <3>1, <3>2 DEF Remove
  <2>3. job[t].op = "delete" /\ job'[t].op = "delete" /\ job'[t].prefix = q
    BY <1>6, <1>7, <1>12 DEF Remove
  <2> QED BY <1>3, <1>4, <2>1, <2>2, <2>3 DEF Known
<1>13. CASE Unload(t)
  <2>1. links' = links /\ strays' = strays /\ veths' = veths
    BY <1>13 DEF Unload
  <2>2. job[t].op = "delete" /\ job'[t].op = "delete" /\ job'[t].prefix = q
    BY <1>6, <1>7, <1>13 DEF Unload
  <2> QED BY <1>3, <1>4, <2>1, <2>2 DEF Known
<1>14. CASE Unlink(t)
  <2>1. veths' = veths /\ links' \ strays' \subseteq (links \ strays) \ {q}
    <3>1. CASE links' = links \ {q} /\ strays' = strays \ {q}
      BY <1>14, <3>1 DEF Unlink
    <3>2. CASE links' = links /\ strays' = strays \cup {q}
      BY <1>14, <3>2 DEF Unlink
    <3> QED BY <1>14, <3>1, <3>2 DEF Unlink
  <2>2. job[t].op = "delete" /\ job'[t] = NoJob
    BY <1>6, <1>8, <1>14 DEF Unlink
  <2> QED BY <1>3, <2>1, <2>2 DEF Known
<1> QED BY <1>9, <1>10, <1>11, <1>12, <1>13, <1>14 DEF Work

LEMMA KnownInit == Init => Known
  BY DaemonAssumption DEF Init, PortsInit, Known, Stage, NoJob

LEMMA ThreadsKeepKnown ==
  ASSUME IInv, Known,
         \/ Spawn \/ AttachPhy \/ UnpinOld \/ PinNew \/ Sleep \/ JoinNothing \/ Exit("main")
         \/ Bind \/ CheckFlag \/ AcceptTimeout \/ AcceptFails \/ Answer
         \/ SignalIgnored \/ Quit \/ Crash \/ Over \/ UNCHANGED vars
  PROVE  Known'
<1> USE DaemonAssumption
    DEF Spawn, AttachPhy, UnpinOld, PinNew, Sleep, JoinNothing, Exit, Bind, CheckFlag,
        AcceptTimeout, AcceptFails, Answer, SignalIgnored, Quit, Crash, Over, Undisturbed,
        InHandler
<1>1. UNCHANGED <<job, veths, links, strays, handlers>>
  BY DEF vars, portVars, threadVars
<1>2. Stage("main")' = Stage("main") /\ \A p : Deleting(p)' <=> Deleting(p)
  BY <1>1 DEF Stage, Deleting
<1>3. phy' = phy \/ Stage("main") = "none"
  BY DEF vars, portVars, Stage
<1>4. proc' = "exited" => proc = "exited" \/ Exit("main")
  BY DEF vars
<1>5. faults' = 0 => faults = 0
  <2>1. [Next]_vars
    BY DEF Next, MainThread, SocketThread, Environment
  <2> QED BY <2>1, FaultsGrow
<1> QED BY <1>1, <1>2, <1>3, <1>4, <1>5 DEF Known

LEMMA HandlersKeepKnown ==
  ASSUME IInv, Known, Join("main") \/ Joined \/ UnloadPhy("main")
  PROVE  Known'
<1> USE DaemonAssumption DEF Join, Joined, UnloadPhy, InHandler
<1>1. UNCHANGED <<job, veths, links, strays>> /\ proc' = "up"
  BY DEF portVars
<1>2. handlers \in [Threads -> Seq(Handler)] /\ handlers["main"] # <<>>
  BY HandlerThere DEF IInv, TypeOK, Handler
<1>3. Stage("main")' = "list" => UnloadPhy("main")
  <2>1. CASE Join("main") \/ Joined
    <3>1. PICK stage \in {"joining", "unload"} : NextStage("main", stage)
      BY <2>1
    <3> QED BY <1>2, <3>1, NextStageOf
  <2> QED BY <2>1
<1>4. UnloadPhy("main") => phy' = <<>> \/ faults' # 0
  BY DEF Fault, IInv, TypeOK, PortsTypeOK
<1>5. \A p : Deleting(p)' <=> Deleting(p)
  BY <1>1 DEF Deleting
<1> QED BY <1>1, <1>3, <1>4, <1>5 DEF Known

LEMMA StartKeepsKnown ==
  ASSUME IInv, Control, Known,
         UnloadNext("main") \/ \E op \in {"create", "delete"}, p \in Prefixes : Accept(op, p)
  PROVE  Known'
<1>1. /\ UNCHANGED <<veths, links, strays, phy, faults, proc, handlers>> /\ proc = "up"
      /\ Stage("main")' = Stage("main")
  BY DEF UnloadNext, Accept, InHandler, Undisturbed, threadVars, Stage
<1>2. PICK t \in Threads, op \in {"create", "delete"} : \E p : Start(t, op, p)
  BY DaemonAssumption DEF UnloadNext, Accept
<1>3. /\ job[t] = NoJob /\ job'[t].op = op
      /\ op = "create" => job'[t].step = "add"
      /\ \A u \in Threads \ {t} : job'[u] = job[u]
  BY <1>2 DEF Start, Job, IInv
<1>4. \A q : Deleting(q) => Deleting(q)'
  BY <1>3 DEF Deleting, NoJob
<1> QED BY <1>1, <1>3, <1>4 DEF Known

LEMMA SignalKeepsKnown ==
  ASSUME IInv, Control, Known, OneSignal, NEW t \in Threads, NEW sig \in Signals, Signal(t, sig)
  PROVE  Known'
<1>1. UNCHANGED <<veths, links, strays, phy, faults, proc>> /\ proc = "up"
  BY DEF Signal
<1>2. job' = job /\ Stage("main")' = "join"
  BY TheSignal
<1>3. \A p : Deleting(p)' <=> Deleting(p)
  BY <1>2 DEF Deleting
<1> QED BY <1>1, <1>2, <1>3 DEF Known

LEMMA ExecuteKeepsKnown ==
  ASSUME IInv, Control, Known, NEW t \in Threads, Execute(t)
  PROVE  Known'
<1>1. /\ Work(t) /\ proc = "up" /\ proc' = "up" /\ UNCHANGED handlers
      /\ Stage("main")' = Stage("main")
  BY DEF Execute, threadVars, Stage
<1>2. phy' = phy /\ (\A u \in Threads \ {t} : job[u] = NoJob /\ job'[u] = NoJob)
  BY <1>1, WorkFrame, Alone DEF IInv
<1>3. faults' = 0 => faults = 0
  <2>1. [Next]_vars
    BY DaemonAssumption DEF Next, MainThread, SocketThread
  <2> QED BY <2>1, FaultsGrow
<1>4. \A u \in Threads :
        job'[u].op = "create" /\ job'[u].step # "add" => job'[u].prefix \in Range(veths)' \cup strays'
  BY <1>1, <1>2, WorkKeepsKnown DEF NoJob
<1> QED BY <1>1, <1>2, <1>3, <1>4, WorkKeepsKnown DEF Known

LEMMA RestartKeepsKnown == ASSUME Restart PROVE Known'
<1>1. links' \ strays' = {} /\ proc' = "up" /\ handlers'["main"] = <<>>
  BY DaemonAssumption DEF Restart
<1>2. \A t \in Threads : job'[t] = NoJob
  BY DEF Restart
<1>3. Stage("main")' = "none"
  BY <1>1 DEF Stage
<1> QED BY <1>1, <1>2, <1>3 DEF Known, NoJob

LEMMA KnownNext == ASSUME IInv, Control, Known, OneSignal, [Next]_vars PROVE Known'
<1>1. ASSUME Join("socket") \/ UnloadPhy("socket") \/ UnloadNext("socket") \/ Exit("socket")
      PROVE  FALSE
  BY <1>1 DEF Join, UnloadPhy, UnloadNext, Exit, InHandler, Stage, Control
<1> QED BY <1>1, ThreadsKeepKnown, HandlersKeepKnown, StartKeepsKnown, SignalKeepsKnown,
           ExecuteKeepsKnown, RestartKeepsKnown, DaemonAssumption
        DEF Next, MainThread, SocketThread, Environment

LEMMA PortsKnown == ASSUME OneSignal PROVE Spec => [](IInv /\ Control /\ Known)
<1>1. IInv /\ Control /\ Known /\ [Next]_vars => Known'
  BY KnownNext
<1> QED BY Controlled, KnownInit, <1>1, PTL DEF Spec

\* However create_port and delete_port fail or are cut short, a pair that the
\* daemon made, and had the memory to remember, is in its table or being deleted:
\* for any number of prefixes, lives and commands, if there is one signal at most.
THEOREM LinksKnown == ASSUME OneSignal PROVE Spec => []LinksAreKnown
<1>1. Known => LinksAreKnown
  BY DEF Known, LinksAreKnown
<1> QED BY PortsKnown, <1>1, PTL

\* exit_daemon leaves no pair that this daemon made, remembered and could delete
\* and, unless a call failed, no program on the device, if there is one signal at
\* most.
THEOREM ExitIsClean == ASSUME OneSignal PROVE Spec => []CleanExit
<1>1. ASSUME IInv, Control, Known PROVE CleanExit
  <2> SUFFICES ASSUME proc = "exited" PROVE links \subseteq strays /\ (faults = 0 => phy = <<>>)
    BY DEF CleanExit
  <2>1. Stage("main") = "list" /\ veths = <<>> /\ job["main"] = NoJob
    BY <1>1 DEF Known
  <2>2. job["socket"] = NoJob
    BY <1>1, <2>1 DEF Control
  <2>3. \A p : ~Deleting(p)
    BY <2>1, <2>2, DaemonAssumption DEF Deleting, NoJob
  <2>4. Range(veths) = {}
    BY <2>1 DEF Range
  <2> QED BY <1>1, <2>1, <2>3, <2>4 DEF Known
<1> QED BY PortsKnown, <1>1, PTL

-----------------------------------------------------------------------------
(* One signal at most and no failing call: the table.                      *)

\* The table is right about prefix p.
AsListed(p) ==
  /\ p \in Range(veths) <=> p \in links \ strays
  /\ p \in Range(veths) => xdp[p] = {"outer", "inner"}

\* What a command has done to its port when it is at a step.
Done(p, step) ==
  /\ step = "script" => p \in Range(veths) \ strays
  /\ step \in {"outer", "inner", "devmap"} => p \in Range(veths) /\ p \in links \ strays
  /\ step \in {"inner", "devmap"} => "outer" \in xdp[p]
  /\ step = "devmap" => xdp[p] = {"outer", "inner"}
  /\ step \in {"unload", "unlink"} => p \notin Range(veths)

Untouched(p) == \A t \in Threads : job[t].prefix = p => job[t].step \in {"add", "remove"}

Table ==
  faults = 0 =>
    /\ \A p \in Prefixes : Untouched(p) => AsListed(p)
    /\ \A t \in Threads : job[t] # NoJob => Done(job[t].prefix, job[t].step)

\* A command changes nothing that the table says of another port.
LEMMA OtherPorts ==
  ASSUME IInv, NEW t \in Threads, Work(t), NEW p \in Prefixes, p # job[t].prefix
  PROVE  AsListed(p)' <=> AsListed(p)
<1> DEFINE q == job[t].prefix
<1>1. /\ veths \in Seq(Prefixes) /\ IsInjective(veths) /\ DOMAIN veths = 1 .. Len(veths)
      /\ xdp \in [Prefixes -> SUBSET {"outer", "inner"}] /\ q \in Prefixes
  <2>1. q \in Prefixes
    BY WorkFrame DEF IInv, Jobs
  <2> QED BY <2>1, LenProperties DEF IInv, TypeOK, PortsTypeOK
<1>2. xdp'[p] = xdp[p]
  BY <1>1 DEF Work, Add, Script, Load, UpdateDevmap, Remove, Unload, Unlink
<1>3. (p \in links' \ strays') <=> (p \in links \ strays)
  BY DEF Work, Add, Script, Load, UpdateDevmap, Remove, Unload, Unlink
<1>4. p \in Range(veths') <=> p \in Range(veths)
  <2>1. CASE Add(t)
    BY <1>1, <2>1, AddOutcome
  <2>2. CASE Remove(t)
    <3>1. CASE veths' = veths
      BY <3>1
    <3>2. ASSUME NEW n \in DOMAIN veths, veths[n] = q, veths' = Sq!RemoveAt(veths, n)
          PROVE  Range(veths') = Range(veths) \ {q}
      BY <1>1, <3>2, Removed, IsShortened
    <3> QED BY <2>2, <3>1, <3>2 DEF Remove
  <2>3. CASE ~Add(t) /\ ~Remove(t)
    BY <2>3 DEF Work, Script, Load, UpdateDevmap, Unload, Unlink
  <2> QED BY <2>1, <2>2, <2>3
<1> QED BY <1>2, <1>3, <1>4 DEF AsListed

\* The step of a command on its own port, when no call fails.
LEMMA OwnPort ==
  ASSUME IInv, Control, Table, NEW t \in Threads, Work(t), faults = 0, faults' = 0
  PROVE  /\ job'[t] # NoJob => Done(job[t].prefix, job[t].step)'
         /\ \A p : p = job[t].prefix /\ job'[t] = NoJob => AsListed(p)'
<1> SUFFICES ASSUME NEW q, q = job[t].prefix
             PROVE  /\ job'[t] # NoJob => Done(job[t].prefix, job[t].step)'
                    /\ job'[t] = NoJob => AsListed(q)'
  OBVIOUS
<1>1. /\ job \in [Threads -> Jobs] /\ veths \in Seq(Prefixes) /\ IsInjective(veths)
      /\ DOMAIN veths = 1 .. Len(veths)
      /\ xdp \in [Prefixes -> SUBSET {"outer", "inner"}]
  BY LenProperties DEF IInv, TypeOK, PortsTypeOK
<1>2. /\ job[t] # NoJob /\ q \in Prefixes
      /\ \A u \in Threads \ {t} : job[u] = NoJob
  BY <1>1, WorkFrame, Alone DEF Jobs
<1>3. Done(q, job[t].step)
  BY <1>2 DEF Table
<1>4. job[t].step \in {"add", "remove"} => AsListed(q)
  <2>1. NoJob.prefix \notin Prefixes
    BY PortsAssumption DEF NoJob, None
  <2>2. ASSUME job[t].step \in {"add", "remove"} PROVE Untouched(q)
    BY <1>2, <2>1, <2>2 DEF Untouched
  <2> QED BY <1>2, <2>2 DEF Table
<1>5. \A step : Goto(t, step) /\ step \in CreateSteps \cup DeleteSteps =>
        job'[t] # NoJob /\ job'[t].prefix = q /\ job'[t].step = step
  BY <1>1, <1>2 DEF Goto, Jobs, NoJob, CreateSteps, DeleteSteps
<1>6. Goto(t, "done") => job'[t] = NoJob
  BY <1>1 DEF Goto
<1> USE DEF CreateSteps, DeleteSteps, At
<1>7. ~Fault
  BY DEF Fault
<1>8. CASE Add(t)
  <2>1. Range(veths') = Range(veths) \cup {q} /\ strays' = strays \ {q}
    BY <1>1, <1>2, <1>7, <1>8, AddOutcome
  <2>2. job'[t] # NoJob /\ job'[t].prefix = q /\ job'[t].step = "script"
    BY <1>5, <1>8 DEF Add
  <2> QED BY <2>1, <2>2 DEF Done
<1>9. CASE Script(t)
  <2>1. veths' = veths /\ strays' = strays /\ links' = links \cup {q}
    BY <1>7, <1>9 DEF Script
  <2>2. job'[t] # NoJob /\ job'[t].prefix = q /\ job'[t].step = "outer"
    BY <1>5, <1>9 DEF Script
  <2>3. q \in Range(veths) \ strays
    BY <1>3, <1>9 DEF Done, Script
  <2> QED BY <2>1, <2>2, <2>3 DEF Done
<1>10. CASE Load(t, "outer", "inner")
  <2>1. q \in Range(veths) /\ q \in links \ strays
    BY <1>3, <1>10 DEF Done, Load
  <2>2. /\ veths' = veths /\ strays' = strays /\ links' = links
        /\ xdp' = [xdp EXCEPT ![q] = @ \cup {"outer"}]
    BY <1>7, <1>10, <2>1 DEF Load
  <2>3. "outer" \in xdp'[q]
    BY <1>1, <1>2, <2>2
  <2>4. job'[t] # NoJob /\ job'[t].prefix = q /\ job'[t].step = "inner"
    BY <1>5, <1>10 DEF Load
  <2> QED BY <2>1, <2>2, <2>3, <2>4 DEF Done
<1>11. CASE Load(t, "inner", "devmap")
  <2>1. q \in Range(veths) /\ q \in links \ strays /\ "outer" \in xdp[q]
    BY <1>3, <1>11 DEF Done, Load
  <2>2. /\ veths' = veths /\ strays' = strays /\ links' = links
        /\ xdp' = [xdp EXCEPT ![q] = @ \cup {"inner"}]
    BY <1>7, <1>11, <2>1 DEF Load
  <2>3. xdp'[q] = {"outer", "inner"}
    BY <1>1, <1>2, <2>1, <2>2
  <2>4. job'[t] # NoJob /\ job'[t].prefix = q /\ job'[t].step = "devmap"
    BY <1>5, <1>11 DEF Load
  <2> QED BY <2>1, <2>2, <2>3, <2>4 DEF Done
<1>12. CASE UpdateDevmap(t)
  <2>1. UNCHANGED <<veths, links, strays, xdp>> /\ job'[t] = NoJob
    BY <1>6, <1>12 DEF UpdateDevmap
  <2>2. q \in Range(veths) /\ q \in links \ strays /\ xdp[q] = {"outer", "inner"}
    BY <1>3, <1>12 DEF Done, UpdateDevmap
  <2> QED BY <2>1, <2>2 DEF AsListed
<1>13. CASE Remove(t)
  <2>1. q \notin Range(veths')
    <3>1. CASE veths' = veths /\ q \notin Range(veths)
      BY <3>1
    <3>2. ASSUME NEW n \in DOMAIN veths, veths[n] = q, veths' = Sq!RemoveAt(veths, n)
          PROVE  Range(veths') = Range(veths) \ {q}
      BY <1>1, <3>2, Removed, IsShortened
    <3> QED BY <1>13, <3>1, <3>2 DEF Remove
  <2>2. job'[t] # NoJob /\ job'[t].prefix = q /\ job'[t].step = "unload"
    BY <1>5, <1>13 DEF Remove
  <2> QED BY <2>1, <2>2 DEF Done
<1>14. CASE Unload(t)
  <2>1. q \notin Range(veths) /\ veths' = veths
    BY <1>3, <1>14 DEF Done, Unload
  <2>2. job'[t] # NoJob /\ job'[t].prefix = q /\ job'[t].step = "unlink"
    BY <1>5, <1>14 DEF Unload
  <2> QED BY <2>1, <2>2 DEF Done
<1>15. CASE Unlink(t)
  <2>1. q \notin Range(veths) /\ veths' = veths /\ links' = links \ {q}
    BY <1>3, <1>7, <1>15 DEF Done, Unlink
  <2>2. job'[t] = NoJob
    BY <1>6, <1>15 DEF Unlink
  <2> QED BY <2>1, <2>2 DEF AsListed
<1> QED BY <1>8, <1>9, <1>10, <1>11, <1>12, <1>13, <1>14, <1>15 DEF Work

LEMMA ExecuteKeepsTable ==
  ASSUME IInv, Control, Table, NEW t \in Threads, Execute(t)
  PROVE  Table'
<1> SUFFICES ASSUME faults' = 0 PROVE Table'
  BY DEF Table
<1>1. Work(t) /\ faults = 0
  <2>1. [Next]_vars
    BY DaemonAssumption DEF Next, MainThread, SocketThread
  <2> QED BY <2>1, FaultsGrow DEF Execute
<1>2. /\ \A u \in Threads \ {t} : job[u] = NoJob /\ job'[u] = NoJob
      /\ job'[t] # NoJob => job'[t].prefix = job[t].prefix
      /\ job \in [Threads -> Jobs] /\ job' \in [Threads -> Jobs] /\ job[t] # NoJob
  BY <1>1, WorkFrame, Alone DEF IInv
<1>3. \A u \in Threads : job'[u] # NoJob => Done(job[u].prefix, job[u].step)'
  BY <1>1, <1>2, OwnPort
<1>4. job'[t].step \notin {"add", "remove"}
  <2>1. \A step : Goto(t, step) => job'[t] = NoJob \/ job'[t].step = step
    BY <1>2 DEF Goto, Jobs
  <2> QED BY <1>1, <2>1
      DEF Work, Add, Script, Load, UpdateDevmap, Remove, Unload, Unlink, NoJob
<1>5. ASSUME NEW p \in Prefixes, Untouched(p)' PROVE AsListed(p)'
  <2>1. NoJob.prefix \notin Prefixes
    BY PortsAssumption DEF NoJob, None
  <2>2. CASE p # job[t].prefix
    <3>1. Untouched(p)
      BY <1>2, <2>1, <2>2 DEF Untouched
    <3> QED BY <1>1, <2>2, <3>1, OtherPorts DEF Table
  <2>3. CASE p = job[t].prefix
    <3>1. job'[t] = NoJob
      BY <1>2, <1>4, <1>5, <2>3 DEF Untouched
    <3> QED BY <1>1, <2>3, <3>1, OwnPort
  <2> QED BY <2>2, <2>3
<1> QED BY <1>3, <1>5 DEF Table

LEMMA TableInit == Init => Table
  BY DEF Init, PortsInit, Table, AsListed, Range

\* The steps that are not those of a command.
LEMMA OthersKeepTable ==
  ASSUME IInv, Control, Table, [Next]_vars, faults' = 0,
         UNCHANGED <<job, veths, links, xdp, strays>>
  PROVE  Table'
<1>1. faults = 0
  BY FaultsGrow
<1>2. \A p : AsListed(p)' <=> AsListed(p)
  BY DEF AsListed
<1>3. \A p : Untouched(p)' <=> Untouched(p)
  BY DEF Untouched
<1>4. \A t \in Threads : Done(job[t].prefix, job[t].step)' <=> Done(job[t].prefix, job[t].step)
  BY DEF Done
<1> QED BY <1>1, <1>2, <1>3, <1>4 DEF Table

LEMMA StartKeepsTable ==
  ASSUME IInv, Control, Table,
         UnloadNext("main") \/ \E op \in {"create", "delete"}, p \in Prefixes : Accept(op, p)
  PROVE  Table'
<1>1. UNCHANGED <<veths, links, xdp, strays, faults>>
  BY DEF UnloadNext, Accept
<1>2. PICK t \in Threads, op \in {"create", "delete"} : \E p : Start(t, op, p)
  BY DaemonAssumption DEF UnloadNext, Accept
<1>3. /\ job[t] = NoJob /\ job'[t].step \in {"add", "remove"}
      /\ \A u \in Threads \ {t} : job'[u] = job[u]
  BY <1>2 DEF Start, Job, IInv
<1>4. \A p \in Prefixes : AsListed(p)' <=> AsListed(p)
  BY <1>1 DEF AsListed
<1>5. ASSUME NEW p \in Prefixes, Untouched(p)' PROVE Untouched(p)
  BY <1>3, <1>5, PortsAssumption DEF Untouched, NoJob, None
<1>6. ASSUME NEW u \in Threads, job'[u] # NoJob, faults = 0 PROVE Done(job[u].prefix, job[u].step)'
  <2>1. CASE u = t
    BY <1>3, <2>1 DEF Done
  <2>2. CASE u # t
    BY <1>1, <1>3, <1>6, <2>2 DEF Done, Table
  <2> QED BY <2>1, <2>2
<1> QED BY <1>1, <1>4, <1>5, <1>6 DEF Table

LEMMA RestartKeepsTable == ASSUME Restart PROVE Table'
<1>1. Range(veths') = {} /\ strays' = links'
  BY DEF Restart, Range
<1>2. \A t \in Threads : job'[t] = NoJob
  BY DEF Restart
<1>3. \A p : AsListed(p)'
  BY <1>1 DEF AsListed
<1> QED BY <1>2, <1>3 DEF Table

LEMMA TableNext == ASSUME IInv, Control, Table, OneSignal, [Next]_vars PROVE Table'
<1> USE DaemonAssumption
<1> SUFFICES ASSUME faults' = 0 PROVE Table'
  BY DEF Table
<1>1. ASSUME Join("socket") \/ UnloadPhy("socket") \/ UnloadNext("socket") \/ Exit("socket")
      PROVE  FALSE
  BY <1>1 DEF Join, UnloadPhy, UnloadNext, Exit, InHandler, Stage, Control
<1>2. CASE \/ Spawn \/ AttachPhy \/ UnpinOld \/ PinNew \/ Sleep \/ JoinNothing \/ Exit("main")
           \/ Bind \/ CheckFlag \/ AcceptTimeout \/ AcceptFails \/ Answer
           \/ SignalIgnored \/ Quit \/ Crash \/ Over \/ UNCHANGED vars
           \/ Join("main") \/ Joined \/ UnloadPhy("main")
  <2>1. UNCHANGED <<job, veths, links, xdp, strays>>
    BY <1>2
    DEF Spawn, AttachPhy, UnpinOld, PinNew, Sleep, JoinNothing, Exit, Bind, CheckFlag,
        AcceptTimeout, AcceptFails, Answer, SignalIgnored, Quit, Crash, Over, vars, portVars,
        Join, Joined, UnloadPhy
  <2> QED BY <2>1, OthersKeepTable
<1>3. ASSUME NEW t \in Threads, NEW sig \in Signals, Signal(t, sig) PROVE Table'
  <2>1. UNCHANGED <<job, veths, links, xdp, strays>>
    BY <1>3, TheSignal DEF Signal
  <2> QED BY <2>1, OthersKeepTable
<1> QED BY <1>1, <1>2, <1>3, StartKeepsTable, ExecuteKeepsTable, RestartKeepsTable
        DEF Next, MainThread, SocketThread, Environment

\* Between two commands, when no call failed, the table is what is there: for
\* any number of prefixes, lives and commands, if there is one signal at most.
THEOREM TableTrue == ASSUME OneSignal PROVE Spec => []TableIsTrue
<1>1. IInv /\ Control /\ Table /\ [Next]_vars => Table'
  BY TableNext
<1>2. Spec => []Table
  BY Controlled, TableInit, <1>1, PTL DEF Spec
<1>3. ASSUME IInv, Table PROVE TableIsTrue
  <2> SUFFICES ASSUME Idle, faults = 0
               PROVE  /\ Range(veths) = links \ strays
                      /\ \A p \in Range(veths) : xdp[p] = {"outer", "inner"}
    BY DEF TableIsTrue
  <2>1. \A p \in Prefixes : AsListed(p)
    BY <1>3, PortsAssumption DEF Table, Untouched, Idle, NoJob, None
  <2>2. Range(veths) \subseteq Prefixes /\ links \subseteq Prefixes
    <3>1. veths \in Seq(Prefixes) /\ links \subseteq Prefixes
      BY <1>3 DEF IInv, TypeOK, PortsTypeOK
    <3> QED BY <3>1, ElementOfSeq, LenProperties DEF Range
  <2> QED BY <2>1, <2>2 DEF AsListed
<1> QED BY Controlled, <1>2, <1>3, PTL
=============================================================================
