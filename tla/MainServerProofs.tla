-------------------------- MODULE MainServerProofs --------------------------
(***************************************************************************)
(* For any number of hosts, agents, reloads, migrations and children that  *)
(* die: a child that was not told to end is one that its main server       *)
(* remembers.                                                              *)
(*                                                                         *)
(* The wait of a migration for the delay server may be interrupted and the *)
(* PID forgotten all the same; that this loses no child is the second part *)
(* of the invariant of a host.                                             *)
(***************************************************************************)
EXTENDS MainServer, TLAPS

\* Zenon proves most leaves; those that need another prover cite it.
USE ZenonT(30)

Child == Processes \cup {NoProc}

\* The part of TypeOK that the proof needs.
Types ==
    /\ main \in [Hosts -> [pc : MainPC, next : MainPC \cup {"none"}, leader : Hosts \cup {None}]]
    /\ g_pid_af \in [Hosts -> Pids \cup {0}]
    /\ g_pid_ds \in [Hosts -> Pids \cup {0}]
    /\ proc \in [Hosts -> [Pids -> Child]]
    /\ config \in [Hosts -> 0..MaxConfig]
    /\ leader \in Hosts

\* The child has ended or will.
Told(h, p) == Live(h, p) => proc[h][p].flags # {}

Known(h) ==
    \A p \in Pids :
        Live(h, p) /\ proc[h][p].flags = {}
            => p = IF proc[h][p].kind = "af" THEN g_pid_af[h] ELSE g_pid_ds[h]

\* Nothing else is awaited by a migration than a child that was told to end.
Awaited(h) == main[h].pc = "ds_wait" => Told(h, g_pid_ds[h])

\* Where main goes on after the launch of an agent factory.
Resumes(h) == main[h].pc = "await" => main[h].next \in {"loop", "children", "migrate"}

HostInv(h) == Known(h) /\ Awaited(h) /\ Resumes(h)

IInv == Types /\ \A h \in Hosts : HostInv(h)

-----------------------------------------------------------------------------

\* What a step may do to the children of a host without a look at the PIDs: a
\* child keeps its kind, and no child comes to life or forgets that it was told.
Tamer(old, new) ==
    \A p \in Pids :
        \/ new[p].state \in {"none", "zombie"}
        \/ /\ old[p].state \notin {"none", "zombie"}
           /\ new[p].kind = old[p].kind
           /\ old[p].flags # {} => new[p].flags # {}

LEMMA ZeroIsNoPid == 0 \notin Pids
  BY MainServerAssumption

LEMMA OtherHost ==
    ASSUME NEW g \in Hosts, HostInv(g),
           main'[g] = main[g], g_pid_af'[g] = g_pid_af[g], g_pid_ds'[g] = g_pid_ds[g],
           proc'[g] = proc[g]
    PROVE  HostInv(g)'
  BY DEF HostInv, Known, Awaited, Resumes, Told, Live

\* A step of one host.
LEMMA HostStep ==
    ASSUME IInv, NEW h \in Hosts, Types', HostInv(h)',
           \A g \in Hosts : g # h =>
               /\ main'[g] = main[g] /\ proc'[g] = proc[g]
               /\ g_pid_af'[g] = g_pid_af[g] /\ g_pid_ds'[g] = g_pid_ds[g]
    PROVE  IInv'
<1>1. ASSUME NEW g \in Hosts, g # h PROVE HostInv(g)'
  BY <1>1, OtherHost DEF IInv
<1> QED BY <1>1 DEF IInv

\* The PIDs of a host stay, and so do children and the place of main but for
\* children that are told to end or end.
LEMMA TamerStep ==
    ASSUME IInv, NEW h \in Hosts, Tamer(proc[h], proc'[h]),
           g_pid_af'[h] = g_pid_af[h], g_pid_ds'[h] = g_pid_ds[h],
           main'[h].pc = "ds_wait" => main[h].pc = "ds_wait"
    PROVE  Known(h)' /\ Awaited(h)'
<1>1. HostInv(h) /\ g_pid_ds[h] \in Pids \cup {0}
  BY DEF IInv, Types
<1>2. Known(h)'
  BY <1>1 DEF Tamer, HostInv, Known, Live
<1>3. Awaited(h)'
  BY <1>1 DEF Tamer, HostInv, Awaited, Told, Live
<1> QED BY <1>2, <1>3

MainType == [pc : MainPC, next : MainPC \cup {"none"}, leader : Hosts \cup {None}]

LEMMA GotoPlace ==
    ASSUME IInv, NEW h \in Hosts, NEW pc \in MainPC, Goto(h, pc)
    PROVE  /\ main' \in [Hosts -> MainType] /\ main'[h].pc = pc
           /\ \A g \in Hosts : g # h => main'[g] = main[g]
<1>1. main \in [Hosts -> MainType]
  BY DEF IInv, Types, MainType
<1> QED BY <1>1 DEF Goto, MainType

\* A step that remembers and forgets no PID and launches nothing.
LEMMA QuietStep ==
    ASSUME IInv, NEW h \in Hosts, UNCHANGED <<g_pid_af, g_pid_ds>>,
           main' \in [Hosts -> MainType],
           main'[h] = main[h] \/ main'[h].pc \notin {"ds_wait", "await"},
           \A g \in Hosts : g # h => main'[g] = main[g] /\ proc'[g] = proc[g],
           proc' \in [Hosts -> [Pids -> Child]], Tamer(proc[h], proc'[h]),
           config' \in [Hosts -> 0..MaxConfig], leader' \in Hosts
    PROVE  IInv'
<1>1. Known(h)' /\ Awaited(h)'
  BY TamerStep
<1>2. Resumes(h)'
  BY DEF IInv, HostInv, Resumes
<1>3. Types'
  BY DEF IInv, Types, MainType
<1> QED BY <1>1, <1>2, <1>3, HostStep DEF HostInv

\* The same when the children do not change.
LEMMA IdleStep ==
    ASSUME IInv, NEW h \in Hosts, UNCHANGED <<g_pid_af, g_pid_ds, proc>>,
           main' \in [Hosts -> MainType],
           main'[h] = main[h] \/ main'[h].pc \notin {"ds_wait", "await"},
           \A g \in Hosts : g # h => main'[g] = main[g],
           config' \in [Hosts -> 0..MaxConfig], leader' \in Hosts
    PROVE  IInv'
<1>1. proc \in [Hosts -> [Pids -> Child]]
  BY DEF IInv, Types
<1>2. Tamer(proc[h], proc'[h])
  BY DEF Tamer
<1> QED BY <1>1, <1>2, QuietStep

-----------------------------------------------------------------------------
(* Signals to children                                                     *)

LEMMA ChildFields ==
    ASSUME NEW c \in Child
    PROVE  /\ c.state \in {"none", "init", "serving", "reaping", "timeout", "zombie"}
           /\ c.kind \in {"none", "af", "ds"}
           /\ c = NoProc <=> c.state = "none"
  BY SMT DEF Child, Processes, NoProc, Process

LEMMA SignalledChildren ==
    ASSUME NEW old \in [Pids -> Child], NEW p \in Pids \cup {0},
           NEW f \in {"terminate", "graceful"}
    PROVE  /\ Signalled(old, p, f) \in [Pids -> Child]
           /\ Tamer(old, Signalled(old, p, f))
           /\ p # 0 => \/ Signalled(old, p, f)[p].state \in {"none", "zombie"}
                       \/ Signalled(old, p, f)[p].flags # {}
<1>1. CASE p = 0 \/ old[p].state \in {"none", "zombie"} \/ old[p].flags # {}
  <2>1. Signalled(old, p, f) = old
    BY <1>1 DEF Signalled
  <2> QED BY <1>1, <2>1 DEF Tamer
<1>2. CASE ~ (p = 0 \/ old[p].state \in {"none", "zombie"} \/ old[p].flags # {})
  <2>1. Signalled(old, p, f) = [old EXCEPT ![p].flags = {f}] /\ p \in Pids
    BY <1>2 DEF Signalled
  <2>2. old[p] \in Processes
    BY <1>2, <2>1, ChildFields DEF Child
  <2>3. Signalled(old, p, f) \in [Pids -> Child]
    BY <2>1, <2>2, SMT DEF Child, Processes
  <2>4. /\ Signalled(old, p, f)[p].flags = {f}
        /\ Signalled(old, p, f)[p].kind = old[p].kind
        /\ \A q \in Pids : q # p => Signalled(old, p, f)[q] = old[q]
    BY <2>1, <2>2 DEF Processes
  <2> QED BY <1>2, <2>1, <2>3, <2>4 DEF Tamer
<1> QED BY <1>1, <1>2

LEMMA TamerTwice ==
    ASSUME NEW a, NEW b, NEW c, Tamer(a, b), Tamer(b, c)
    PROVE  Tamer(a, c)
  BY DEF Tamer

\* Both children are told to end.
LEMMA StoppedChildren ==
    ASSUME IInv, NEW h \in Hosts, NEW f \in {"terminate", "graceful"}, StopChildren(h, f)
    PROVE  /\ proc' \in [Hosts -> [Pids -> Child]]
           /\ \A g \in Hosts : g # h => proc'[g] = proc[g]
           /\ Tamer(proc[h], proc'[h])
           /\ g_pid_ds[h] # 0 => \/ proc'[h][g_pid_ds[h]].state \in {"none", "zombie"}
                                 \/ proc'[h][g_pid_ds[h]].flags # {}
<1>1. /\ proc \in [Hosts -> [Pids -> Child]] /\ g_pid_af[h] \in Pids \cup {0}
      /\ g_pid_ds[h] \in Pids \cup {0}
  BY DEF IInv, Types
<1> DEFINE b == Signalled(proc[h], g_pid_af[h], f)
<1> DEFINE c == Signalled(b, g_pid_ds[h], "terminate")
<1>2. proc' = [proc EXCEPT ![h] = c]
  BY DEF StopChildren
<1> HIDE DEF b, c
<1>3. b \in [Pids -> Child] /\ Tamer(proc[h], b)
  BY <1>1, SignalledChildren DEF b
<1>4. c \in [Pids -> Child] /\ Tamer(b, c)
      /\ (g_pid_ds[h] # 0 => \/ c[g_pid_ds[h]].state \in {"none", "zombie"}
                             \/ c[g_pid_ds[h]].flags # {})
  BY <1>1, <1>3, SignalledChildren DEF c
<1>5. Tamer(proc[h], c)
  BY <1>3, <1>4, TamerTwice
<1> QED BY <1>1, <1>2, <1>4, <1>5

-----------------------------------------------------------------------------
(* Launches                                                                *)

\* The children of h after some that have ended were waited for.
LEMMA LaunchAgentFactoryStep ==
    ASSUME IInv, NEW h \in Hosts, NEW children \in [Pids -> Child],
           \A p \in Pids : children[p] = proc[h][p] \/ children[p] = NoProc,
           NEW next \in {"loop", "children", "migrate"}, NEW lower,
           LaunchAgentFactory(h, children, next, lower),
           UNCHANGED <<g_pid_ds, config, leader>>
    PROVE  IInv'
<1>1. /\ proc \in [Hosts -> [Pids -> Child]] /\ main \in [Hosts -> MainType]
      /\ g_pid_af \in [Hosts -> Pids \cup {0}] /\ g_pid_ds \in [Hosts -> Pids \cup {0}]
      /\ config \in [Hosts -> 0..MaxConfig] /\ leader \in Hosts /\ Known(h)
  BY DEF IInv, Types, MainType, HostInv
<1>2. Tamer(proc[h], children)
  <2>1. NoProc.state = "none"
    BY DEF NoProc, Process
  <2> QED BY <2>1 DEF Tamer
<1>3. CASE g_pid_af[h] # 0 /\ children[g_pid_af[h]] # NoProc
  <2>1. /\ Goto(h, next) /\ proc' = [proc EXCEPT ![h] = children] /\ UNCHANGED g_pid_af
    BY <1>3 DEF LaunchAgentFactory
  <2>2. next \in MainPC
    BY DEF MainPC
  <2>3. /\ main' \in [Hosts -> MainType] /\ main'[h].pc = next
        /\ \A g \in Hosts : g # h => main'[g] = main[g]
    BY <2>1, <2>2, GotoPlace
  <2>4. proc' \in [Hosts -> [Pids -> Child]] /\ proc'[h] = children
        /\ \A g \in Hosts : g # h => proc'[g] = proc[g]
    BY <1>1, <2>1
  <2> QED BY <1>1, <1>2, <2>1, <2>3, <2>4, QuietStep
<1>4. CASE ~ (g_pid_af[h] # 0 /\ children[g_pid_af[h]] # NoProc)
  <2>1. PICK p \in NewPids(h, children) :
        /\ main' = [main EXCEPT ![h].pc = "await", ![h].next = next]
        /\ proc' = [proc EXCEPT ![h] =
               [children EXCEPT ![p] = Process("af", "init", config[h], {})]]
        /\ g_pid_af' = [g_pid_af EXCEPT ![h] = p]
    BY <1>4 DEF LaunchAgentFactory
  <2>2. p \in Pids /\ children[p] = NoProc /\ p # g_pid_ds[h]
    BY <2>1 DEF NewPids
  <2>3. Process("af", "init", config[h], {}) \in Child
    BY <1>1 DEF Process, Child, Processes
  <2>4. /\ proc' \in [Hosts -> [Pids -> Child]]
        /\ proc'[h][p] = Process("af", "init", config[h], {})
        /\ \A q \in Pids : q # p => proc'[h][q] = children[q]
        /\ \A g \in Hosts : g # h => proc'[g] = proc[g]
    BY <1>1, <2>1, <2>2, <2>3
  <2>5. /\ main' \in [Hosts -> MainType] /\ main'[h].pc = "await" /\ main'[h].next = next
        /\ \A g \in Hosts : g # h => main'[g] = main[g]
    <3>1. "await" \in MainPC /\ next \in MainPC
      BY DEF MainPC
    <3> QED BY <1>1, <2>1, <3>1 DEF MainType
  <2>6. /\ g_pid_af' \in [Hosts -> Pids \cup {0}] /\ g_pid_af'[h] = p
        /\ \A g \in Hosts : g # h => g_pid_af'[g] = g_pid_af[g]
    BY <1>1, <2>1, <2>2
  <2>7. Types'
    BY <1>1, <2>4, <2>5, <2>6 DEF Types, MainType
  <2>8. ASSUME NEW q \in Pids, Live(h, q)', proc'[h][q].flags = {}
        PROVE  q = IF proc'[h][q].kind = "af" THEN g_pid_af'[h] ELSE g_pid_ds'[h]
    <3>1. CASE q = p
      BY <2>4, <2>6, <3>1, SMT DEF Process
    <3>2. CASE q # p
      <4>1. proc'[h][q] = children[q] /\ children[q] # NoProc
        BY <2>4, <2>8, <3>2, SMT DEF Live, NoProc, Process
      <4>2. children[q] = proc[h][q] /\ Live(h, q)
        BY <2>8, <4>1 DEF Live
      <4>3. q = IF proc[h][q].kind = "af" THEN g_pid_af[h] ELSE g_pid_ds[h]
        BY <1>1, <2>8, <4>1, <4>2 DEF Known
      <4>4. q # g_pid_af[h]
        BY <1>4, <4>1, ZeroIsNoPid
      <4> QED BY <4>1, <4>2, <4>3, <4>4
    <3> QED BY <3>1, <3>2
  <2>9. Known(h)' /\ Awaited(h)' /\ Resumes(h)'
    BY <2>5, <2>8 DEF Known, Awaited, Resumes
  <2> QED BY <2>4, <2>5, <2>6, <2>7, <2>9, HostStep DEF HostInv
<1> QED BY <1>3, <1>4

LEMMA LaunchDelayServerStep ==
    ASSUME IInv, NEW h \in Hosts, NEW pc \in {"clear", "loop", "promote"},
           LaunchDelayServer(h, pc), UNCHANGED <<g_pid_af, config, leader>>
    PROVE  IInv'
<1>1. /\ proc \in [Hosts -> [Pids -> Child]]
      /\ g_pid_af \in [Hosts -> Pids \cup {0}] /\ g_pid_ds \in [Hosts -> Pids \cup {0}]
      /\ config \in [Hosts -> 0..MaxConfig] /\ leader \in Hosts /\ Known(h)
  BY DEF IInv, Types, HostInv
<1>2. pc \in MainPC
  BY DEF MainPC
<1>3. /\ main' \in [Hosts -> MainType] /\ main'[h].pc = pc
      /\ \A g \in Hosts : g # h => main'[g] = main[g]
  BY <1>2, GotoPlace DEF LaunchDelayServer
<1>4. CASE Exists(h, g_pid_ds[h])
  BY <1>1, <1>3, <1>4, IdleStep DEF LaunchDelayServer
<1>5. CASE ~ Exists(h, g_pid_ds[h])
  <2>1. PICK p \in NewPids(h, proc[h]) :
        /\ proc' = [proc EXCEPT ![h][p] = Process("ds", "serving", config[h], {})]
        /\ g_pid_ds' = [g_pid_ds EXCEPT ![h] = p]
    BY <1>5 DEF LaunchDelayServer
  <2>2. p \in Pids
    BY <2>1 DEF NewPids
  <2>3. Process("ds", "serving", config[h], {}) \in Child
    BY <1>1 DEF Process, Child, Processes
  <2>4. /\ proc' \in [Hosts -> [Pids -> Child]]
        /\ proc'[h][p] = Process("ds", "serving", config[h], {})
        /\ \A q \in Pids : q # p => proc'[h][q] = proc[h][q]
        /\ \A g \in Hosts : g # h => proc'[g] = proc[g]
    BY <1>1, <2>1, <2>2, <2>3
  <2>5. /\ g_pid_ds' \in [Hosts -> Pids \cup {0}] /\ g_pid_ds'[h] = p
        /\ \A g \in Hosts : g # h => g_pid_ds'[g] = g_pid_ds[g]
    BY <1>1, <2>1, <2>2
  <2>6. Types'
    BY <1>1, <1>3, <2>4, <2>5 DEF Types, MainType
  <2>7. ASSUME NEW q \in Pids, Live(h, q)', proc'[h][q].flags = {}
        PROVE  q = IF proc'[h][q].kind = "af" THEN g_pid_af'[h] ELSE g_pid_ds'[h]
    <3>1. CASE q = p
      BY <2>4, <2>5, <3>1, SMT DEF Process
    <3>2. CASE q # p
      <4>1. proc'[h][q] = proc[h][q] /\ proc[h][q] # NoProc /\ Live(h, q)
        BY <2>4, <2>7, <3>2, SMT DEF Live, NoProc, Process
      <4>2. q = IF proc[h][q].kind = "af" THEN g_pid_af[h] ELSE g_pid_ds[h]
        BY <1>1, <2>7, <4>1 DEF Known
      <4>3. q # g_pid_ds[h]
        BY <1>5, <4>1, ZeroIsNoPid DEF Exists
      <4> QED BY <4>1, <4>2, <4>3
    <3> QED BY <3>1, <3>2
  <2>8. Known(h)' /\ Awaited(h)' /\ Resumes(h)'
    BY <1>3, <2>7 DEF Known, Awaited, Resumes
  <2> QED BY <1>3, <2>4, <2>5, <2>6, <2>8, HostStep DEF HostInv
<1> QED BY <1>4, <1>5

-----------------------------------------------------------------------------
(* The steps of the main server                                            *)

LEMMA MainTypes ==
    ASSUME IInv
    PROVE  /\ proc \in [Hosts -> [Pids -> Child]] /\ main \in [Hosts -> MainType]
           /\ g_pid_af \in [Hosts -> Pids \cup {0}] /\ g_pid_ds \in [Hosts -> Pids \cup {0}]
           /\ config \in [Hosts -> 0..MaxConfig] /\ leader \in Hosts
  BY DEF IInv, Types, MainType

\* main goes on and nothing happens to PIDs and children.
LEMMA GoneOn ==
    ASSUME IInv, NEW h \in Hosts, NEW pc \in MainPC \ {"ds_wait", "await"}, Goto(h, pc),
           UNCHANGED <<g_pid_af, g_pid_ds, proc, config>>, leader' \in Hosts
    PROVE  IInv'
  BY MainTypes, GotoPlace, IdleStep

LEMMA LaunchSteps ==
    ASSUME IInv, NEW h \in Hosts, Boot(h) \/ FinishReload(h) \/ ReapAndLaunch(h)
    PROVE  IInv'
<1>1. UNCHANGED <<g_pid_ds, config, leader>>
  BY DEF Boot, FinishReload, ReapAndLaunch, catalog, history
<1>2. proc[h] \in [Pids -> Child] /\ leader \in Hosts
  BY MainTypes
<1>3. "exited" \in MainPC /\ "children" \in MainPC
  BY DEF MainPC
<1>4. CASE Boot(h)
  <2>1. CASE Goto(h, "exited") /\ UNCHANGED <<g_pid_af, proc>>
    BY <1>1, <1>2, <1>3, <2>1, GoneOn
  <2>2. CASE LaunchAgentFactory(h, proc[h], "loop", {})
    BY <1>1, <1>2, <2>2, LaunchAgentFactoryStep
  <2> QED BY <1>4, <2>1, <2>2 DEF Boot
<1>5. CASE FinishReload(h)
  <2>1. CASE Goto(h, "children") /\ UNCHANGED <<g_pid_af, proc>>
    BY <1>1, <1>2, <1>3, <2>1, GoneOn
  <2>2. CASE LaunchAgentFactory(h, proc[h], "children", {"reload"})
    BY <1>1, <1>2, <2>2, LaunchAgentFactoryStep
  <2> QED BY <1>5, <2>1, <2>2 DEF FinishReload
<1>6. CASE ReapAndLaunch(h)
  <2>1. PICK reaped \in SUBSET {p \in Pids : proc[h][p].state = "zombie"} :
        LaunchAgentFactory(h, [p \in Pids |-> IF p \in reaped THEN NoProc ELSE proc[h][p]],
                           "migrate", {})
    BY <1>6 DEF ReapAndLaunch
  <2> DEFINE children == [p \in Pids |-> IF p \in reaped THEN NoProc ELSE proc[h][p]]
  <2>2. /\ children \in [Pids -> Child]
        /\ \A p \in Pids : children[p] = proc[h][p] \/ children[p] = NoProc
    BY <1>2 DEF Child
  <2>3. LaunchAgentFactory(h, children, "migrate", {})
    BY <2>1
  <2> HIDE DEF children
  <2> QED BY <1>1, <2>2, <2>3, LaunchAgentFactoryStep
<1> QED BY <1>4, <1>5, <1>6

LEMMA AwaitStep ==
    ASSUME IInv, NEW h \in Hosts, AwaitAgentFactory(h)
    PROVE  IInv'
<1>1. /\ UNCHANGED <<g_pid_af, g_pid_ds, proc, config, leader>>
      /\ main[h].next \in {"loop", "children", "migrate"}
  BY DEF AwaitAgentFactory, pids, catalog, history, IInv, HostInv, Resumes
<1>2. PICK pc \in {"exited", "loop", "children", "migrate"} :
        main' = [main EXCEPT ![h].pc = pc, ![h].next = "none"]
  BY <1>1 DEF AwaitAgentFactory
<1>3. main \in [Hosts -> MainType] /\ pc \in MainPC
  BY MainTypes DEF MainPC
<1>4. main' \in [Hosts -> MainType] /\ main'[h].pc = pc
      /\ \A g \in Hosts : g # h => main'[g] = main[g]
  BY <1>2, <1>3 DEF MainType
<1> QED BY <1>1, <1>4, MainTypes, IdleStep

LEMMA ShutdownStep ==
    ASSUME IInv, NEW h \in Hosts, HandleShutdown(h)
    PROVE  IInv'
<1>1. /\ UNCHANGED <<g_pid_af, g_pid_ds, config, leader>> /\ Goto(h, "stop_af")
      /\ \E f \in {"terminate", "graceful"} : StopChildren(h, f)
  BY DEF HandleShutdown, pids, catalog, history
<1>2. /\ main' \in [Hosts -> MainType] /\ main'[h].pc = "stop_af"
      /\ \A g \in Hosts : g # h => main'[g] = main[g]
  BY <1>1, GotoPlace DEF MainPC
<1>3. /\ proc' \in [Hosts -> [Pids -> Child]] /\ Tamer(proc[h], proc'[h])
      /\ \A g \in Hosts : g # h => proc'[g] = proc[g]
  BY <1>1, StoppedChildren
<1> QED BY <1>1, <1>2, <1>3, MainTypes, QuietStep, SMTT(20)

\* The PID of a delay server that was told to end is forgotten.
LEMMA Forgotten ==
    ASSUME IInv, NEW h \in Hosts, Tamer(proc[h], proc'[h]),
           proc' \in [Hosts -> [Pids -> Child]], main' \in [Hosts -> MainType],
           main'[h].pc \notin {"ds_wait", "await"},
           \A g \in Hosts : g # h => main'[g] = main[g] /\ proc'[g] = proc[g],
           g_pid_ds' = [g_pid_ds EXCEPT ![h] = 0],
           UNCHANGED <<g_pid_af, config, leader>>,
           g_pid_ds[h] # 0 => \/ proc'[h][g_pid_ds[h]].state \in {"none", "zombie"}
                             \/ proc'[h][g_pid_ds[h]].flags # {}
    PROVE  IInv'
<1>1. /\ g_pid_ds' \in [Hosts -> Pids \cup {0}]
      /\ \A g \in Hosts : g # h => g_pid_ds'[g] = g_pid_ds[g]
  BY MainTypes
<1>2. Types'
  BY <1>1, MainTypes DEF Types, MainType
<1>3. ASSUME NEW q \in Pids, Live(h, q)', proc'[h][q].flags = {}
      PROVE  q = IF proc'[h][q].kind = "af" THEN g_pid_af'[h] ELSE g_pid_ds'[h]
  <2>1. Live(h, q) /\ proc[h][q].flags = {} /\ proc[h][q].kind = proc'[h][q].kind
    BY <1>3 DEF Tamer, Live
  <2>2. q = IF proc[h][q].kind = "af" THEN g_pid_af[h] ELSE g_pid_ds[h]
    BY <2>1 DEF IInv, HostInv, Known
  <2>3. q # g_pid_ds[h]
    BY <1>3, ZeroIsNoPid DEF Live
  <2> QED BY <2>1, <2>2, <2>3
<1>4. HostInv(h)'
  BY <1>3 DEF HostInv, Known, Awaited, Resumes
<1> QED BY <1>1, <1>2, <1>4, HostStep

LEMMA ReloadStep ==
    ASSUME IInv, NEW h \in Hosts, HandleConfigurationReload(h)
    PROVE  IInv'
<1>1. /\ g_pid_ds' = [g_pid_ds EXCEPT ![h] = 0] /\ Goto(h, "reload")
      /\ StopChildren(h, "graceful") /\ UNCHANGED <<g_pid_af, config, leader>>
  BY DEF HandleConfigurationReload, catalog, history
<1>2. /\ main' \in [Hosts -> MainType] /\ main'[h].pc = "reload"
      /\ \A g \in Hosts : g # h => main'[g] = main[g]
  BY <1>1, GotoPlace DEF MainPC
<1>3. /\ proc' \in [Hosts -> [Pids -> Child]] /\ Tamer(proc[h], proc'[h])
      /\ \A g \in Hosts : g # h => proc'[g] = proc[g]
      /\ g_pid_ds[h] # 0 => \/ proc'[h][g_pid_ds[h]].state \in {"none", "zombie"}
                            \/ proc'[h][g_pid_ds[h]].flags # {}
  BY <1>1, StoppedChildren
<1> QED BY <1>1, <1>2, <1>3, Forgotten

\* What a wait does to the children.
LEMMA WaitedChildren ==
    ASSUME IInv, NEW h \in Hosts, NEW p \in Pids \cup {0}, NEW pc \in MainPC, Waited(h, p, pc)
    PROVE  /\ proc' \in [Hosts -> [Pids -> Child]] /\ Tamer(proc[h], proc'[h])
           /\ \A g \in Hosts : g # h => proc'[g] = proc[g]
<1>1. proc \in [Hosts -> [Pids -> Child]] /\ NoProc \in Child /\ NoProc.state = "none"
  BY MainTypes DEF Child, NoProc, Process
<1>2. CASE p # 0 /\ ~ Live(h, p)
  <2>1. proc' = [proc EXCEPT ![h][p] = NoProc] /\ p \in Pids
    BY <1>2 DEF Waited
  <2>2. /\ proc' \in [Hosts -> [Pids -> Child]] /\ proc'[h][p] = NoProc
        /\ \A q \in Pids : q # p => proc'[h][q] = proc[h][q]
        /\ \A g \in Hosts : g # h => proc'[g] = proc[g]
    BY <1>1, <2>1
  <2> QED BY <1>1, <2>2 DEF Tamer
<1>3. CASE ~ (p # 0 /\ ~ Live(h, p))
  BY <1>1, <1>3 DEF Waited, Tamer
<1> QED BY <1>2, <1>3

LEMMA WaitSteps ==
    ASSUME IInv, NEW h \in Hosts, WaitForDelayServer(h) \/ WaitForChildren(h)
    PROVE  IInv'
<1>1. g_pid_af[h] \in Pids \cup {0} /\ g_pid_ds[h] \in Pids \cup {0}
      /\ UNCHANGED <<g_pid_af, config, leader>>
  BY MainTypes DEF WaitForDelayServer, WaitForChildren, pids, catalog, history
<1>2. {"loop", "stop_ds", "exited"} \subseteq MainPC
  BY DEF MainPC
<1>3. CASE WaitForDelayServer(h)
  <2>1. /\ main[h].pc = "ds_wait" /\ Waited(h, g_pid_ds[h], "loop")
        /\ g_pid_ds' = [g_pid_ds EXCEPT ![h] = 0]
    BY <1>3 DEF WaitForDelayServer
  <2>2. /\ proc' \in [Hosts -> [Pids -> Child]] /\ Tamer(proc[h], proc'[h])
        /\ \A g \in Hosts : g # h => proc'[g] = proc[g]
    BY <1>1, <1>2, <2>1, WaitedChildren
  <2>3. /\ main' \in [Hosts -> MainType] /\ main'[h].pc = "loop"
        /\ \A g \in Hosts : g # h => main'[g] = main[g]
    BY <1>2, <2>1, GotoPlace DEF Waited
  <2>4. Told(h, g_pid_ds[h])
    BY <2>1 DEF IInv, HostInv, Awaited
  <2>5. g_pid_ds[h] # 0 => \/ proc'[h][g_pid_ds[h]].state \in {"none", "zombie"}
                           \/ proc'[h][g_pid_ds[h]].flags # {}
    BY <1>1, <2>2, <2>4 DEF Told, Tamer, Live
  <2> QED BY <1>1, <2>1, <2>2, <2>3, <2>5, Forgotten
<1>4. CASE WaitForChildren(h)
  <2>1. PICK p \in Pids \cup {0}, pc \in {"stop_ds", "exited"} : Waited(h, p, pc)
    BY <1>1, <1>4 DEF WaitForChildren
  <2>2. /\ proc' \in [Hosts -> [Pids -> Child]] /\ Tamer(proc[h], proc'[h])
        /\ \A g \in Hosts : g # h => proc'[g] = proc[g]
    BY <1>2, <2>1, WaitedChildren
  <2>3. /\ main' \in [Hosts -> MainType] /\ main'[h].pc = pc
        /\ \A g \in Hosts : g # h => main'[g] = main[g]
    BY <1>2, <2>1, GotoPlace DEF Waited
  <2>4. UNCHANGED g_pid_ds
    BY <1>4 DEF WaitForChildren, pids
  <2> QED BY <1>1, <2>1, <2>2, <2>3, <2>4, MainTypes, QuietStep
<1> QED BY <1>3, <1>4

\* The delay server is told to end, and then awaited.
LEMMA DecideStep ==
    ASSUME IInv, NEW h \in Hosts, Decide(h)
    PROVE  IInv'
<1>1. UNCHANGED <<g_pid_af, config, leader>> /\ g_pid_ds[h] \in Pids \cup {0}
  BY MainTypes DEF Decide, catalog, history
<1>2. CASE LaunchDelayServer(h, "clear") \/ LaunchDelayServer(h, "loop")
           \/ LaunchDelayServer(h, "promote")
  BY <1>1, <1>2, LaunchDelayServerStep
<1>3. CASE Goto(h, "loop") /\ UNCHANGED <<g_pid_ds, proc>>
  BY <1>1, <1>3, MainTypes, GoneOn DEF MainPC
<1>4. CASE /\ proc' = [proc EXCEPT ![h] = Signalled(@, g_pid_ds[h], "terminate")]
           /\ Goto(h, "ds_wait") /\ g_pid_ds[h] # 0 /\ UNCHANGED g_pid_ds
  <2> DEFINE c == Signalled(proc[h], g_pid_ds[h], "terminate")
  <2>1. /\ c \in [Pids -> Child] /\ Tamer(proc[h], c)
        /\ c[g_pid_ds[h]].state \in {"none", "zombie"} \/ c[g_pid_ds[h]].flags # {}
    BY <1>1, <1>4, MainTypes, SignalledChildren
  <2>2. proc' = [proc EXCEPT ![h] = c]
    BY <1>4
  <2> HIDE DEF c
  <2>3. /\ proc' \in [Hosts -> [Pids -> Child]] /\ proc'[h] = c
        /\ \A g \in Hosts : g # h => proc'[g] = proc[g]
    BY <2>1, <2>2, MainTypes
  <2>4. /\ main' \in [Hosts -> MainType] /\ main'[h].pc = "ds_wait"
        /\ \A g \in Hosts : g # h => main'[g] = main[g]
    BY <1>4, GotoPlace DEF MainPC
  <2>5. Known(h)'
    BY <1>1, <1>4, <2>1, <2>3 DEF IInv, HostInv, Known, Tamer, Live
  <2>6. Awaited(h)' /\ Resumes(h)'
    BY <1>4, <2>1, <2>3, <2>4 DEF Awaited, Resumes, Told, Live
  <2>7. Types'
    BY <1>1, <1>4, <2>3, <2>4, MainTypes DEF Types, MainType
  <2> QED BY <1>1, <1>4, <2>3, <2>4, <2>5, <2>6, <2>7, HostStep DEF HostInv
<1> QED BY <1>2, <1>3, <1>4 DEF Decide

LEMMA OtherMainSteps ==
    ASSUME IInv, NEW h \in Hosts,
           \/ RejectConfiguration(h) \/ ReloadFails(h) \/ SkipMigrate(h) \/ Migrate(h)
           \/ SetMigrationInfo(h)
    PROVE  IInv'
<1>1. UNCHANGED <<g_pid_af, g_pid_ds, proc, config>> /\ leader' \in Hosts
  BY MainTypes DEF RejectConfiguration, ReloadFails, SkipMigrate, Migrate, SetMigrationInfo, pids,
                   catalog, history
<1>2. CASE Migrate(h)
  <2>1. main' = [main EXCEPT ![h].pc = "decide", ![h].leader = leader]
    BY <1>2 DEF Migrate
  <2>2. "decide" \in MainPC /\ main \in [Hosts -> MainType] /\ leader \in Hosts
    BY MainTypes DEF MainPC
  <2>3. main' \in [Hosts -> MainType] /\ main'[h].pc = "decide"
        /\ \A g \in Hosts : g # h => main'[g] = main[g]
    BY <2>1, <2>2 DEF MainType
  <2> QED BY <1>1, <2>3, MainTypes, IdleStep
<1>3. CASE \E pc \in {"children", "loop", "rejected"} : Goto(h, pc)
  BY <1>1, <1>3, GoneOn DEF MainPC
<1> QED BY <1>2, <1>3 DEF RejectConfiguration, ReloadFails, SkipMigrate, SetMigrationInfo

-----------------------------------------------------------------------------
(* The children and the environment                                        *)

\* A child goes on to a state, with the flags and the kind it has.
LEMMA ChildMoves ==
    ASSUME IInv, NEW h \in Hosts, NEW p \in Pids,
           NEW s \in {"serving", "reaping", "timeout", "zombie"},
           Live(h, p), proc' = [proc EXCEPT ![h][p].state = s],
           UNCHANGED <<main, g_pid_af, g_pid_ds, config, leader>>
    PROVE  IInv'
<1>1. proc \in [Hosts -> [Pids -> Child]] /\ proc[h][p] \in Processes
  <2>1. proc \in [Hosts -> [Pids -> Child]]
    BY MainTypes
  <2>2. proc[h][p] # NoProc
    BY SMT DEF Live, NoProc, Process
  <2> QED BY <2>1, <2>2 DEF Child
<1>2. proc' \in [Hosts -> [Pids -> Child]]
  BY <1>1 DEF Child, Processes
<1>3. /\ proc'[h][p].kind = proc[h][p].kind /\ proc'[h][p].flags = proc[h][p].flags
      /\ \A q \in Pids : q # p => proc'[h][q] = proc[h][q]
      /\ \A g \in Hosts : g # h => proc'[g] = proc[g]
  BY <1>1 DEF Processes
<1>4. Tamer(proc[h], proc'[h])
  BY <1>1, <1>3, ZeroIsNoPid DEF Tamer, Live
<1> QED BY <1>2, <1>3, <1>4, MainTypes, QuietStep

LEMMA ChildSteps ==
    ASSUME IInv, NEW h \in Hosts, NEW p \in Pids, ChildStep(h, p) \/ Dies(h, p)
    PROVE  IInv'
<1>1. UNCHANGED <<main, g_pid_af, g_pid_ds, config, leader>>
  BY DEF ChildStep, AgentFactoryReady, CloseSocket, GracefulTimeout, AgentFactoryExits,
         DelayServerExits, Dies, pids, catalog, history
<1>2. Live(h, p)
  BY ZeroIsNoPid DEF ChildStep, AgentFactoryReady, CloseSocket, GracefulTimeout,
         AgentFactoryExits, DelayServerExits, Dies, Live
<1>3. \E s \in {"serving", "reaping", "timeout", "zombie"} :
        proc' = [proc EXCEPT ![h][p].state = s]
  BY DEF ChildStep, AgentFactoryReady, CloseSocket, GracefulTimeout, AgentFactoryExits,
         DelayServerExits, Dies
<1> QED BY <1>1, <1>2, <1>3, ChildMoves

\* Steps of agents, clients and administrators.
LEMMA OutsideSteps ==
    ASSUME IInv, NEW h \in Hosts,
           \/ \E p \in Pids, a \in Agents : Accept(h, p, a)
           \/ \E a \in Agents : AgentStep(h, a) \/ ClientLeaves(h, a)
           \/ \E f \in {"terminate", "graceful"} : Shutdown(h, f)
           \/ Reload(h) \/ RequestMigration(h)
    PROVE  IInv'
<1>1. UNCHANGED <<main, g_pid_af, g_pid_ds, proc, leader>>
  BY DEF Accept, AgentStep, InstallHandler, AgentTerminates, ClientLeaves, Shutdown, Reload,
         RequestMigration, pids, catalog
<1>2. config' \in [Hosts -> 0..MaxConfig]
  <2>1. CASE Reload(h)
    <3>1. config[h] \in 0..MaxConfig /\ config[h] < MaxConfig
          /\ config' = [config EXCEPT ![h] = config[h] + 1]
      BY <2>1, MainTypes DEF Reload
    <3>2. config[h] + 1 \in 0..MaxConfig
      BY <3>1, MainServerAssumption, SMT
    <3> QED BY <3>1, <3>2, MainTypes
  <2>2. CASE ~ Reload(h)
    BY <2>2, MainTypes DEF Accept, AgentStep, InstallHandler, AgentTerminates, ClientLeaves,
         Shutdown, RequestMigration, history
  <2> QED BY <2>1, <2>2
<1> QED BY <1>1, <1>2, MainTypes, IdleStep

-----------------------------------------------------------------------------

LEMMA InitIInv == Init => IInv
<1> SUFFICES ASSUME Init PROVE IInv
  OBVIOUS
<1>1. Types
  BY MainServerAssumption, SMT DEF Init, Types, MainPC, Child
<1>2. ASSUME NEW h \in Hosts PROVE HostInv(h)
  <2>1. main[h].pc = "boot" /\ \A p \in Pids : proc[h][p].state = "none"
    BY DEF Init, NoProc, Process
  <2> QED BY <2>1 DEF HostInv, Known, Awaited, Resumes, Live
<1> QED BY <1>1, <1>2 DEF IInv

LEMMA NextIInv == IInv /\ [Next]_vars => IInv'
<1> SUFFICES ASSUME IInv, [Next]_vars PROVE IInv'
  OBVIOUS
<1>1. ASSUME NEW h \in Hosts, MainStep(h) PROVE IInv'
  BY <1>1, LaunchSteps, AwaitStep, ShutdownStep, ReloadStep, WaitSteps, DecideStep,
     OtherMainSteps DEF MainStep
<1>2. ASSUME NEW h \in Hosts, NEW p \in Pids, ChildStep(h, p) \/ Dies(h, p) PROVE IInv'
  BY <1>2, ChildSteps
<1>3. CASE UNCHANGED vars
  <2>1. UNCHANGED <<main, g_pid_af, g_pid_ds, proc, config, leader>>
    BY <1>3 DEF vars
  <2> QED BY <2>1, OtherHost DEF IInv, Types
<1> QED BY <1>1, <1>2, <1>3, OutsideSteps DEF Next

\* An agent factory or a delay server that was not told to end is the one that its
\* main server remembers, and there is only one of each, for any number of hosts,
\* reloads, migrations and deaths and wherever signals interrupt the main server
\* (launch_agent_factory, launch_delay_server, handle_configuration_reload,
\* migrate_and_launch_delay_server).
THEOREM MainServerKnowsItsChildren == Spec => []ChildrenAreKnown
<1>1. IInv => ChildrenAreKnown
  BY DEF IInv, HostInv, Known, ChildrenAreKnown
<1> QED BY <1>1, InitIInv, NextIInv, PTL DEF Spec

-----------------------------------------------------------------------------
(* Type correctness                                                        *)

AgentRecord == [state : AgentStates, parent : Pids \cup {0}]

\* What TypeOK says beyond Types.
OtherTypes ==
    /\ flags \in [Hosts -> SUBSET Flags]
    /\ agent \in [Hosts -> [Agents -> AgentRecord]]
    /\ asked \in [Hosts -> 0..MaxConfig]
    /\ dropped \in [Hosts -> 0..MaxConfig]
    /\ successor \in Hosts \cup {None}
    /\ requests \in 0..MaxRequests
    /\ faults \in 0..MaxFaults

LEMMA NoAgentType == NoAgent \in AgentRecord
  BY DEF NoAgent, AgentRecord, AgentStates

LEMMA AgentRecordWith ==
    ASSUME NEW x \in AgentRecord, NEW s \in AgentStates
    PROVE  [x EXCEPT !.state = s] \in AgentRecord /\ [x EXCEPT !.parent = 0] \in AgentRecord
  BY DEF AgentRecord

LEMMA RaiseType ==
    ASSUME OtherTypes, NEW h \in Hosts, NEW fs \in SUBSET Flags, Raise(h, fs)
    PROVE  flags' \in [Hosts -> SUBSET Flags]
  BY DEF OtherTypes, Raise, Flags

\* The steps of a main server lower flags, and only they take a migration back.
LEMMA MainStepKeepsTypes ==
    ASSUME IInv, OtherTypes, NEW h \in Hosts, MainStep(h)
    PROVE  OtherTypes'
<1>1. agent' = agent /\ requests' = requests /\ faults' = faults
  BY DEF MainStep, Boot, AwaitAgentFactory, HandleShutdown, HandleConfigurationReload,
         RejectConfiguration, ReloadFails, FinishReload, ReapAndLaunch, SkipMigrate, Migrate,
         Decide, SetMigrationInfo, WaitForDelayServer, WaitForChildren, history
<1>2. asked' \in [Hosts -> 0..MaxConfig]
  <2>1. asked' = asked \/ asked' = [asked EXCEPT ![h] = 0]
    BY DEF MainStep, Boot, AwaitAgentFactory, HandleShutdown, HandleConfigurationReload,
           RejectConfiguration, ReloadFails, FinishReload, ReapAndLaunch, SkipMigrate, Migrate,
           Decide, SetMigrationInfo, WaitForDelayServer, WaitForChildren, history
  <2>2. 0 \in 0..MaxConfig
    BY MainServerAssumption, SMT
  <2> QED BY <2>1, <2>2 DEF OtherTypes
<1>3. successor' \in Hosts \cup {None}
  <2>1. successor' = successor \/ successor' = None
    BY DEF MainStep, Boot, AwaitAgentFactory, HandleShutdown, HandleConfigurationReload,
           RejectConfiguration, ReloadFails, FinishReload, ReapAndLaunch, SkipMigrate, Migrate,
           Decide, SetMigrationInfo, WaitForDelayServer, WaitForChildren, catalog
  <2> QED BY <2>1 DEF OtherTypes
<1>4. flags' \in [Hosts -> SUBSET Flags]
  <2>1. flags' = flags \/ \E lower : flags' = [flags EXCEPT ![h] = flags[h] \ lower]
    <3>1. CASE Boot(h) \/ FinishReload(h) \/ ReapAndLaunch(h)
      BY <3>1 DEF Boot, FinishReload, ReapAndLaunch, LaunchAgentFactory
    <3>2. CASE Decide(h)
      BY <3>2 DEF Decide, LaunchDelayServer
    <3>3. CASE WaitForDelayServer(h) \/ WaitForChildren(h)
      BY <3>3 DEF WaitForDelayServer, WaitForChildren, Waited
    <3>4. CASE \/ AwaitAgentFactory(h) \/ HandleShutdown(h) \/ HandleConfigurationReload(h)
               \/ RejectConfiguration(h) \/ ReloadFails(h) \/ SkipMigrate(h) \/ Migrate(h)
               \/ SetMigrationInfo(h)
      BY <3>4 DEF AwaitAgentFactory, HandleShutdown, HandleConfigurationReload,
                  RejectConfiguration, ReloadFails, SkipMigrate, Migrate, SetMigrationInfo
    <3> QED BY <3>1, <3>2, <3>3, <3>4 DEF MainStep
  <2> QED BY <2>1 DEF OtherTypes
<1>5. dropped' \in [Hosts -> 0..MaxConfig]
  <2>1. dropped' = dropped \/ dropped' = [dropped EXCEPT ![h] = asked[h]]
    BY DEF MainStep, Boot, AwaitAgentFactory, HandleShutdown, HandleConfigurationReload,
           RejectConfiguration, ReloadFails, FinishReload, ReapAndLaunch, SkipMigrate, Migrate,
           Decide, SetMigrationInfo, WaitForDelayServer, WaitForChildren, history
  <2> QED BY <2>1 DEF OtherTypes
<1> QED BY <1>1, <1>2, <1>3, <1>4, <1>5 DEF OtherTypes

\* Agents are told to end, or lose their factory.
LEMMA AgentsOfHost ==
    ASSUME OtherTypes, NEW h \in Hosts, NEW f \in [Agents -> AgentRecord],
           agent' = agent \/ agent' = [agent EXCEPT ![h] = f]
    PROVE  agent' \in [Hosts -> [Agents -> AgentRecord]]
  BY DEF OtherTypes

LEMMA SignalAgentsType ==
    ASSUME OtherTypes, NEW h \in Hosts, NEW p \in Pids, SignalAgents(h, p)
    PROVE  agent' \in [Hosts -> [Agents -> AgentRecord]]
<1> DEFINE f == [a \in Agents |-> IF agent[h][a] = [state |-> "serving", parent |-> p]
                                  THEN [agent[h][a] EXCEPT !.state = "terminating"]
                                  ELSE agent[h][a]]
<1>1. ASSUME NEW a \in Agents
      PROVE  /\ agent[h][a] \in AgentRecord
             /\ [agent[h][a] EXCEPT !.state = "terminating"] \in AgentRecord
  <2>1. agent[h][a] \in AgentRecord /\ "terminating" \in AgentStates
    BY DEF OtherTypes, AgentStates
  <2> QED BY <2>1, AgentRecordWith
<1>2. f \in [Agents -> AgentRecord]
  BY <1>1
<1>3. agent' = [agent EXCEPT ![h] = f]
  BY DEF SignalAgents, OtherTypes
<1> QED BY <1>2, <1>3, AgentsOfHost

LEMMA ChildStepKeepsTypes ==
    ASSUME IInv, OtherTypes, NEW h \in Hosts, NEW p \in Pids, ChildStep(h, p) \/ Dies(h, p)
    PROVE  OtherTypes'
<1>1. asked' = asked /\ dropped' = dropped /\ successor' = successor /\ requests' = requests
  BY DEF ChildStep, AgentFactoryReady, CloseSocket, GracefulTimeout, AgentFactoryExits,
         DelayServerExits, Dies, catalog, history
<1>2. flags' \in [Hosts -> SUBSET Flags]
  <2>1. flags' = flags \/ Raise(h, {"af_ready"})
    BY DEF ChildStep, AgentFactoryReady, CloseSocket, GracefulTimeout, AgentFactoryExits,
           DelayServerExits, Dies
  <2>2. {"af_ready"} \in SUBSET Flags
    BY DEF Flags
  <2> QED BY <2>1, <2>2, RaiseType DEF OtherTypes
<1>3. faults' \in 0..MaxFaults
  <2>1. CASE Dies(h, p)
    BY <2>1, MainServerAssumption, SMT DEF Dies, OtherTypes
  <2>2. CASE ChildStep(h, p)
    BY <2>2 DEF ChildStep, AgentFactoryReady, CloseSocket, GracefulTimeout, AgentFactoryExits,
                DelayServerExits, history, OtherTypes
  <2> QED BY <2>1, <2>2
<1>4. agent' \in [Hosts -> [Agents -> AgentRecord]]
  <2>1. CASE ChildStep(h, p)
    <3>1. agent' = agent \/ SignalAgents(h, p)
      BY <2>1 DEF ChildStep, AgentFactoryReady, CloseSocket, GracefulTimeout, AgentFactoryExits,
                  DelayServerExits
    <3> QED BY <3>1, SignalAgentsType DEF OtherTypes
  <2>2. CASE Dies(h, p)
    <3> DEFINE f == [a \in Agents |-> IF agent[h][a].parent = p
                                      THEN [agent[h][a] EXCEPT !.parent = 0]
                                      ELSE agent[h][a]]
    <3>1. ASSUME NEW a \in Agents
          PROVE  agent[h][a] \in AgentRecord /\ [agent[h][a] EXCEPT !.parent = 0] \in AgentRecord
      <4>1. agent[h][a] \in AgentRecord
        BY DEF OtherTypes
      <4> QED BY <4>1, SMT DEF AgentRecord
    <3>2. f \in [Agents -> AgentRecord]
      BY <3>1
    <3>3. agent' = [agent EXCEPT ![h] = f]
      BY <2>2 DEF Dies, OtherTypes
    <3> QED BY <3>2, <3>3, AgentsOfHost
  <2> QED BY <2>1, <2>2
<1> QED BY <1>1, <1>2, <1>3, <1>4 DEF OtherTypes

LEMMA OutsideKeepsTypes ==
    ASSUME IInv, OtherTypes, NEW h \in Hosts,
           \/ \E p \in Pids, a \in Agents : Accept(h, p, a)
           \/ \E a \in Agents : AgentStep(h, a) \/ ClientLeaves(h, a)
           \/ \E f \in {"terminate", "graceful"} : Shutdown(h, f)
           \/ Reload(h) \/ RequestMigration(h)
    PROVE  OtherTypes'
<1>1. ASSUME NEW p \in Pids, NEW a \in Agents, Accept(h, p, a) PROVE OtherTypes'
  <2>1. [state |-> "forked", parent |-> p] \in AgentRecord
    BY DEF AgentRecord, AgentStates
  <2> QED BY <1>1, <2>1 DEF Accept, OtherTypes, catalog, history
<1>2. ASSUME NEW a \in Agents, AgentStep(h, a) \/ ClientLeaves(h, a) PROVE OtherTypes'
  <2> DEFINE x == [agent[h][a] EXCEPT !.state = "serving"]
  <2>1. \/ agent' = [agent EXCEPT ![h] = [agent[h] EXCEPT ![a] = NoAgent]]
        \/ agent' = [agent EXCEPT ![h] = [agent[h] EXCEPT ![a] = x]]
    BY <1>2 DEF AgentStep, InstallHandler, AgentTerminates, ClientLeaves
  <2>2. agent[h][a] \in AgentRecord /\ "serving" \in AgentStates
    BY DEF OtherTypes, AgentStates
  <2>4. x \in AgentRecord
    BY <2>2, AgentRecordWith
  <2> HIDE DEF x
  <2>5. /\ [agent[h] EXCEPT ![a] = NoAgent] \in [Agents -> AgentRecord]
        /\ [agent[h] EXCEPT ![a] = x] \in [Agents -> AgentRecord]
    BY <2>4, NoAgentType DEF OtherTypes
  <2>3. agent' \in [Hosts -> [Agents -> AgentRecord]]
    BY <2>1, <2>5, AgentsOfHost
  <2> QED BY <1>2, <2>3 DEF AgentStep, InstallHandler, AgentTerminates, ClientLeaves, OtherTypes,
                            catalog, history
<1>3. ASSUME NEW f \in {"terminate", "graceful"}, Shutdown(h, f) PROVE OtherTypes'
  <2>1. {} \in SUBSET Flags /\ {f} \in SUBSET Flags
    BY DEF Flags
  <2>2. flags' \in [Hosts -> SUBSET Flags]
    BY <1>3, <2>1, RaiseType DEF Shutdown
  <2> QED BY <1>3, <2>2 DEF Shutdown, OtherTypes, catalog, history
<1>4. CASE Reload(h)
  <2>1. {"reload"} \in SUBSET Flags
    BY DEF Flags
  <2>2. flags' \in [Hosts -> SUBSET Flags]
    BY <1>4, <2>1, RaiseType DEF Reload
  <2>3. config'[h] \in 0..MaxConfig
    BY <1>4, MainTypes, MainServerAssumption, SMT DEF Reload
  <2> QED BY <1>4, <2>2, <2>3 DEF Reload, OtherTypes, catalog
<1>5. CASE RequestMigration(h)
  BY <1>5, MainServerAssumption, SMT DEF RequestMigration, OtherTypes
<1> QED BY <1>1, <1>2, <1>3, <1>4, <1>5

LEMMA NextKeepsTypes == IInv /\ OtherTypes /\ [Next]_vars => OtherTypes'
<1> SUFFICES ASSUME IInv, OtherTypes, [Next]_vars PROVE OtherTypes'
  OBVIOUS
<1>1. CASE UNCHANGED vars
  BY <1>1 DEF OtherTypes, vars
<1> QED BY <1>1, MainStepKeepsTypes, ChildStepKeepsTypes, OutsideKeepsTypes DEF Next

\* The places of the main servers, the children, the agents and the counters have
\* their types in every state: what launch_agent_factory and launch_delay_server
\* remember is the PID of a child or 0, and a main server that awaits an agent
\* factory always has a place to go on at.
THEOREM MainServerTypes == Spec => []TypeOK
<1>1. Init => OtherTypes
  BY NoAgentType, MainServerAssumption, SMT DEF Init, OtherTypes, Flags
<1>2. IInv /\ OtherTypes => TypeOK
  BY DEF IInv, Types, OtherTypes, TypeOK, Child, AgentRecord
<1> QED BY <1>1, <1>2, InitIInv, NextIInv, NextKeepsTypes, PTL DEF Spec
=============================================================================
