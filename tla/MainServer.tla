----------------------------- MODULE MainServer -----------------------------
(***************************************************************************)
(* The processes of the iRODS servers of a zone: on each host the main     *)
(* server (server/main_server/src/main.cpp), the agent factory and the     *)
(* agents it forks (agent_main.cpp), and the delay server, which runs on   *)
(* the host that the catalog names as leader.                              *)
(*                                                                         *)
(* The main server is one loop.  Signals only raise flags that the loop    *)
(* looks at; they also interrupt a blocking waitpid, which is not repeated.*)
(* A process that has ended stays a zombie, for which kill(pid, 0) still   *)
(* succeeds, until its parent has waited for it.                           *)
(*                                                                         *)
(* fork and exec are one step and do not fail.  The delay server is        *)
(* reduced to when it ends; module DelayServer has its work.               *)
(***************************************************************************)
EXTENDS Integers, FiniteSets

CONSTANTS
    Hosts,
    Agents,       \* clients that a host serves at a time
    Pids,         \* process ids of the children of a main server, positive
    MaxConfig,    \* how often server_config.json changes
    MaxRequests,  \* migrations that the administrator asks for
    MaxFaults,    \* children that die
    None,         \* the empty string
    Environment   \* what happens to the servers, see EnvironmentKinds

(*   "term"      SIGTERM or SIGINT to a main server
     "quit"      SIGQUIT to a main server
     "early"     these signals also during the first launch of an agent factory
     "invalid"   a new configuration is invalid                              *)
EnvironmentKinds == {"term", "quit", "early", "invalid"}

ASSUME MainServerAssumption ==
    /\ Environment \subseteq EnvironmentKinds
    /\ None \notin Hosts
    /\ Pids \subseteq Nat \ {0}
    /\ MaxConfig \in Nat /\ MaxRequests \in Nat /\ MaxFaults \in Nat

VARIABLES
    main,       \* the main server: where it is and will go on, the leader it has read
    flags,      \* the flags that signals raise, and a waitpid to be interrupted
    g_pid_af,   \* the PIDs the main server remembers, or 0
    g_pid_ds,
    proc,       \* the children of the main server, zombies included
    agent,      \* the agents
    config,     \* version of server_config.json
    asked,      \* version of the last SIGHUP, 0 when it was answered by an error
    dropped,    \* version of the last SIGHUP that came while a reload was failing
    leader,     \* delay_server.leader and .successor in R_GRID_CONFIGURATION
    successor,
    requests,
    faults

vars == <<main, flags, g_pid_af, g_pid_ds, proc, agent, config, asked, dropped, leader,
          successor, requests, faults>>

pids == <<g_pid_af, g_pid_ds>>
catalog == <<leader, successor>>
history == <<config, asked, dropped, requests, faults>>

-----------------------------------------------------------------------------

Flags == {"terminate", "graceful", "reload", "af_ready", "eintr"}

MainPC ==
    {"boot", "await", "loop", "reload", "rejected", "children", "migrate", "decide",
     "ds_wait", "promote", "clear", "stop_af", "stop_ds", "exited"}

Process(k, s, v, f) == [kind |-> k, state |-> s, version |-> v, flags |-> f]

\* reaping: the agent factory has closed its socket; timeout: it has also told
\* its agents to end after the time for a graceful shutdown.
Processes ==
    [kind : {"af", "ds"}, state : {"init", "serving", "reaping", "timeout", "zombie"},
     version : 0..MaxConfig, flags : SUBSET {"terminate", "graceful"}]

NoProc == Process("none", "none", 0, {})

\* forked: the handler of SIGUSR1 is not installed yet and the signal ignored.
AgentStates == {"none", "forked", "serving", "terminating"}

NoAgent == [state |-> "none", parent |-> 0]

\* kill(pid, 0) succeeds, also for a zombie.
Exists(h, p) == p # 0 /\ proc[h][p] # NoProc

Live(h, p) == p # 0 /\ proc[h][p].state \notin {"none", "zombie"}

\* is_server_listening_for_connections on the host itself.
Listening(h) == \E p \in Pids : proc[h][p].kind = "af" /\ proc[h][p].state = "serving"

Stopping(h) == flags[h] \cap {"terminate", "graceful"} # {}

Goto(h, pc) == main' = [main EXCEPT ![h].pc = pc]

\* A signal to a main server that is blocked in waitpid interrupts it.
Raise(h, fs) ==
    flags' = [flags EXCEPT ![h] =
        @ \cup fs \cup (IF main[h].pc \in {"ds_wait", "stop_af", "stop_ds"} THEN {"eintr"} ELSE {})]

\* The children of a host after a signal to one of them; an agent factory heeds
\* the first of SIGTERM and SIGQUIT.
Signalled(children, p, f) ==
    IF p = 0 \/ children[p].state \in {"none", "zombie"} \/ children[p].flags # {} THEN children
    ELSE [children EXCEPT ![p].flags = {f}]

\* The PID of a new process: one that is not in use, and, as PIDs come back late,
\* not remembered.  It is the least one: only its being new matters.
NewPids(h, children) ==
    LET free == {p \in Pids : children[p] = NoProc /\ p \notin {g_pid_af[h], g_pid_ds[h]}} IN
    {p \in free : \A q \in free : p <= q}

-----------------------------------------------------------------------------
(* The main server                                                         *)

\* launch_agent_factory, given the children of the host: it does nothing when the
\* process g_pid_af exists, otherwise it forks and awaits the signal of the new
\* process.  The main server goes on at next, with the flags in lower reset.
LaunchAgentFactory(h, children, next, lower) ==
    IF g_pid_af[h] # 0 /\ children[g_pid_af[h]] # NoProc
    THEN /\ Goto(h, next)
         /\ proc' = [proc EXCEPT ![h] = children]
         /\ flags' = [flags EXCEPT ![h] = @ \ lower]
         /\ UNCHANGED g_pid_af
    ELSE \E p \in NewPids(h, children) :
         /\ main' = [main EXCEPT ![h].pc = "await", ![h].next = next]
         /\ proc' = [proc EXCEPT ![h] =
                [children EXCEPT ![p] = Process("af", "init", config[h], {})]]
         /\ g_pid_af' = [g_pid_af EXCEPT ![h] = p]
         /\ flags' = [flags EXCEPT ![h] = @ \ {"af_ready"}]

\* main up to the loop.  A shutdown signal ends it while it waits for the
\* catalog; one that comes later is seen only after the agent factory was forked.
Boot(h) ==
    /\ main[h].pc = "boot"
    /\ \/ /\ Stopping(h)
          /\ Goto(h, "exited")
          /\ UNCHANGED <<flags, g_pid_af, proc>>
       \/ ~ Stopping(h) /\ LaunchAgentFactory(h, proc[h], "loop", {})
    /\ UNCHANGED <<g_pid_ds, agent, catalog, history>>

\* Mutant: the flag of a reload is reset whenever an agent factory was launched.
AwaitAgentFactory_resets(h) ==
    /\ main[h].pc = "await"
    /\ "af_ready" \in flags[h] \/ Stopping(h)
    /\ LET failed == "af_ready" \notin flags[h] /\ main[h].next = "loop" IN
       main' = [main EXCEPT ![h].pc = IF failed THEN "exited" ELSE main[h].next,
                            ![h].next = "none"]
    /\ flags' = [flags EXCEPT ![h] = @ \ {"reload"}]
    /\ UNCHANGED <<pids, proc, agent, catalog, history>>

\* The end of launch_agent_factory: SIGUSR2 has come, or a shutdown signal,
\* which ends the process at once when it is not in its loop yet.
AwaitAgentFactory(h) ==
    /\ main[h].pc = "await"
    /\ "af_ready" \in flags[h] \/ Stopping(h)
    /\ LET failed == "af_ready" \notin flags[h] /\ main[h].next = "loop" IN
       main' = [main EXCEPT ![h].pc = IF failed THEN "exited" ELSE main[h].next,
                            ![h].next = "none"]
    /\ flags' = IF main[h].next = "children" THEN [flags EXCEPT ![h] = @ \ {"reload"}] ELSE flags
    /\ UNCHANGED <<pids, proc, agent, catalog, history>>

\* The children after SIGTERM or SIGQUIT to the agent factory and SIGTERM to
\* the delay server.
StopChildren(h, f) ==
    proc' = [proc EXCEPT ![h] = Signalled(Signalled(@, g_pid_af[h], f), g_pid_ds[h], "terminate")]

\* handle_shutdown and handle_shutdown_graceful up to their first waitpid.
HandleShutdown(h) ==
    /\ main[h].pc = "loop" /\ Stopping(h)
    /\ StopChildren(h, IF "terminate" \in flags[h] THEN "terminate" ELSE "graceful")
    /\ Goto(h, "stop_af")
    /\ UNCHANGED <<flags, pids, agent, catalog, history>>

\* Mutant: the delay server is forgotten and not told to end.
HandleConfigurationReload_keeps(h) ==
    /\ main[h].pc = "loop" /\ ~ Stopping(h) /\ "reload" \in flags[h]
    /\ proc' = [proc EXCEPT ![h] = Signalled(@, g_pid_af[h], "graceful")]
    /\ g_pid_ds' = [g_pid_ds EXCEPT ![h] = 0]
    /\ Goto(h, "reload")
    /\ UNCHANGED <<flags, g_pid_af, agent, catalog, history>>

\* handle_configuration_reload up to the wait for the socket to be closed.  The
\* PID of the delay server is forgotten, the one of the agent factory is not.
HandleConfigurationReload(h) ==
    /\ main[h].pc = "loop" /\ ~ Stopping(h) /\ "reload" \in flags[h]
    /\ StopChildren(h, "graceful")
    /\ g_pid_ds' = [g_pid_ds EXCEPT ![h] = 0]
    /\ Goto(h, "reload")
    /\ UNCHANGED <<flags, g_pid_af, agent, catalog, history>>

\* The new configuration has been read; it is not valid or cannot be used ...
RejectConfiguration(h) ==
    /\ "invalid" \in Environment
    /\ main[h].pc = "loop" /\ ~ Stopping(h) /\ "reload" \in flags[h]
    /\ asked' = [asked EXCEPT ![h] = 0]
    /\ Goto(h, "rejected")
    /\ UNCHANGED <<flags, pids, proc, agent, catalog, config, dropped, requests, faults>>

\* ... and the flag is reset when handle_configuration_reload returns, whatever
\* has arrived since.
ReloadFails(h) ==
    /\ main[h].pc = "rejected"
    /\ flags' = [flags EXCEPT ![h] = @ \ {"reload"}]
    /\ dropped' = [dropped EXCEPT ![h] = asked[h]]
    /\ Goto(h, "children")
    /\ UNCHANGED <<pids, proc, agent, catalog, config, asked, requests, faults>>

\* The socket is closed: the rest of handle_configuration_reload.  Its flag is
\* reset at the end, whatever has arrived since.
FinishReload(h) ==
    /\ main[h].pc = "reload"
    /\ \/ /\ Stopping(h)
          /\ Goto(h, "children")
          /\ flags' = [flags EXCEPT ![h] = @ \ {"reload"}]
          /\ UNCHANGED <<g_pid_af, proc>>
       \/ /\ ~ Stopping(h) /\ ~ Listening(h)
          /\ LaunchAgentFactory(h, proc[h], "children", {"reload"})
    /\ UNCHANGED <<g_pid_ds, agent, catalog, history>>

\* The rest of the loop, when no flag is raised or a reload is over.  Two children
\* at most are waited for; then an agent factory that no longer exists is replaced.
ReapAndLaunch(h) ==
    /\ \/ main[h].pc = "children"
       \/ main[h].pc = "loop" /\ ~ Stopping(h) /\ "reload" \notin flags[h]
    /\ LET zombies == {p \in Pids : proc[h][p].state = "zombie"} IN
       \E reaped \in SUBSET zombies :
        /\ Cardinality(reaped) = IF Cardinality(zombies) > 2 THEN 2 ELSE Cardinality(zombies)
        /\ LaunchAgentFactory(h, [p \in Pids |-> IF p \in reaped THEN NoProc ELSE proc[h][p]],
                              "migrate", {})
    /\ UNCHANGED <<g_pid_ds, agent, catalog, history>>

-----------------------------------------------------------------------------
(* Migration of the delay server                                           *)

\* migrate_and_launch_delay_server does nothing: it is not time yet, the
\* catalog cannot be reached, or nobody listens and no delay server was launched.
SkipMigrate(h) ==
    /\ main[h].pc = "migrate"
    /\ Goto(h, "loop")
    /\ UNCHANGED <<flags, pids, proc, agent, catalog, history>>

\* The leader is read first, then the successor.
Migrate(h) ==
    /\ main[h].pc = "migrate"
    /\ g_pid_ds[h] # 0 \/ Listening(h)
    /\ main' = [main EXCEPT ![h].pc = "decide", ![h].leader = leader]
    /\ UNCHANGED <<flags, pids, proc, agent, catalog, history>>

\* Mutant: a delay server that has ended is not noticed.
LaunchDelayServer_once(h, pc) ==
    /\ Goto(h, pc)
    /\ IF g_pid_ds[h] # 0 THEN UNCHANGED <<proc, g_pid_ds>>
       ELSE \E p \in NewPids(h, proc[h]) :
            /\ proc' = [proc EXCEPT ![h][p] = Process("ds", "serving", config[h], {})]
            /\ g_pid_ds' = [g_pid_ds EXCEPT ![h] = p]
    /\ UNCHANGED flags

\* Mutant: a delay server is launched without a look at the one that runs.
LaunchDelayServer_always(h, pc) ==
    /\ Goto(h, pc)
    /\ \E p \in NewPids(h, proc[h]) :
            /\ proc' = [proc EXCEPT ![h][p] = Process("ds", "serving", config[h], {})]
            /\ g_pid_ds' = [g_pid_ds EXCEPT ![h] = p]
    /\ UNCHANGED flags

\* Mutant: fork fails, and its result is kept.
LaunchDelayServer_unchecked(h, pc) ==
    /\ Goto(h, pc)
    /\ IF Exists(h, g_pid_ds[h]) THEN UNCHANGED <<proc, g_pid_ds>>
       ELSE /\ g_pid_ds' = [g_pid_ds EXCEPT ![h] = -1]
            /\ UNCHANGED proc
    /\ UNCHANGED flags

\* launch_delay_server, and where the main server goes on.
LaunchDelayServer(h, pc) ==
    /\ Goto(h, pc)
    /\ IF Exists(h, g_pid_ds[h]) THEN UNCHANGED <<proc, g_pid_ds>>
       ELSE \E p \in NewPids(h, proc[h]) :
            /\ proc' = [proc EXCEPT ![h][p] = Process("ds", "serving", config[h], {})]
            /\ g_pid_ds' = [g_pid_ds EXCEPT ![h] = p]
    /\ UNCHANGED flags

\* The successor is read, and the host acts on what it has read.
Decide(h) ==
    /\ main[h].pc = "decide"
    /\ \/ /\ main[h].leader = h /\ successor = h
          /\ LaunchDelayServer(h, "clear")
       \/ /\ main[h].leader = h /\ successor = None
          /\ LaunchDelayServer(h, "loop")
       \/ /\ main[h].leader # h /\ successor = h
          /\ LaunchDelayServer(h, "promote")
       \/ /\ main[h].leader = h /\ successor \notin {h, None}
          /\ IF g_pid_ds[h] = 0 THEN Goto(h, "loop") /\ UNCHANGED proc
             ELSE /\ proc' = [proc EXCEPT ![h] = Signalled(@, g_pid_ds[h], "terminate")]
                  /\ Goto(h, "ds_wait")
          /\ UNCHANGED <<flags, g_pid_ds>>
       \/ /\ main[h].leader # h /\ successor # h
          /\ Goto(h, "loop")
          /\ UNCHANGED <<flags, g_pid_ds, proc>>
    /\ UNCHANGED <<g_pid_af, agent, catalog, history>>

\* set_delay_server_migration_info, which may fail.
SetMigrationInfo(h) ==
    /\ main[h].pc \in {"promote", "clear"}
    /\ \/ /\ successor' = None
          /\ leader' = IF main[h].pc = "promote" THEN h ELSE leader
       \/ UNCHANGED catalog
    /\ Goto(h, "loop")
    /\ UNCHANGED <<flags, pids, proc, agent, history>>

\* waitpid of a child: it has ended, is not known, or a signal has come.
Waited(h, p, pc) ==
    /\ ~ Live(h, p) \/ "eintr" \in flags[h]
    /\ proc' = IF p # 0 /\ ~ Live(h, p) THEN [proc EXCEPT ![h][p] = NoProc] ELSE proc
    /\ flags' = [flags EXCEPT ![h] = @ \ {"eintr"}]
    /\ Goto(h, pc)

WaitForDelayServer(h) ==
    /\ main[h].pc = "ds_wait"
    /\ Waited(h, g_pid_ds[h], "loop")
    /\ g_pid_ds' = [g_pid_ds EXCEPT ![h] = 0]
    /\ UNCHANGED <<g_pid_af, agent, catalog, history>>

\* The rest of handle_shutdown and the end of main.
WaitForChildren(h) ==
    /\ \/ main[h].pc = "stop_af" /\ Waited(h, g_pid_af[h], "stop_ds")
       \/ main[h].pc = "stop_ds" /\ Waited(h, g_pid_ds[h], "exited")
    /\ UNCHANGED <<pids, agent, catalog, history>>

MainStep(h) ==
    \/ Boot(h) \/ AwaitAgentFactory(h) \/ HandleShutdown(h) \/ HandleConfigurationReload(h)
    \/ RejectConfiguration(h) \/ ReloadFails(h) \/ FinishReload(h) \/ ReapAndLaunch(h)
    \/ SkipMigrate(h) \/ Migrate(h) \/ Decide(h) \/ SetMigrationInfo(h)
    \/ WaitForDelayServer(h) \/ WaitForChildren(h)

-----------------------------------------------------------------------------
(* The agent factory, its agents and the delay server                      *)

\* The factory has read its configuration and listens; SIGUSR2 to its parent.
AgentFactoryReady(h, p) ==
    /\ proc[h][p].kind = "af" /\ proc[h][p].state = "init"
    /\ proc' = [proc EXCEPT ![h][p].state = "serving"]
    /\ IF main[h].pc = "exited" THEN UNCHANGED flags ELSE Raise(h, {"af_ready"})
    /\ UNCHANGED <<main, pids, agent, catalog, history>>

Accept(h, p, a) ==
    /\ proc[h][p].kind = "af" /\ proc[h][p].state = "serving" /\ proc[h][p].flags = {}
    /\ agent[h][a] = NoAgent
    /\ agent' = [agent EXCEPT ![h][a] = [state |-> "forked", parent |-> p]]
    /\ UNCHANGED <<main, flags, pids, proc, catalog, history>>

\* kill(0, SIGUSR1): the agents whose handler is installed and whose parent has
\* sent the signal are to end; those of another factory, and those whose factory
\* has died, ignore it.
SignalAgents(h, p) ==
    agent' = [agent EXCEPT ![h] = [a \in Agents |->
        IF @[a] = [state |-> "serving", parent |-> p] THEN [@[a] EXCEPT !.state = "terminating"]
        ELSE @[a]]]

\* The factory leaves its loop and closes its socket.
CloseSocket(h, p) ==
    /\ proc[h][p].kind = "af" /\ proc[h][p].state = "serving" /\ proc[h][p].flags # {}
    /\ proc' = [proc EXCEPT ![h][p].state = "reaping"]
    /\ IF "graceful" \in proc[h][p].flags THEN UNCHANGED agent ELSE SignalAgents(h, p)
    /\ UNCHANGED <<main, flags, pids, catalog, history>>

\* Mutant: nobody is told that the time is over.
GracefulTimeout_silent(h, p) ==
    /\ proc[h][p].state = "reaping" /\ "graceful" \in proc[h][p].flags
    /\ \A a \in Agents : agent[h][a] # [state |-> "forked", parent |-> p]
    /\ proc' = [proc EXCEPT ![h][p].state = "timeout"]
    /\ UNCHANGED <<main, flags, pids, agent, catalog, history>>

\* The time for a graceful shutdown is over.  It is long enough for an agent to
\* install its handler.
GracefulTimeout(h, p) ==
    /\ proc[h][p].state = "reaping" /\ "graceful" \in proc[h][p].flags
    /\ \A a \in Agents : agent[h][a] # [state |-> "forked", parent |-> p]
    /\ proc' = [proc EXCEPT ![h][p].state = "timeout"]
    /\ SignalAgents(h, p)
    /\ UNCHANGED <<main, flags, pids, catalog, history>>

\* All agents have been waited for.
AgentFactoryExits(h, p) ==
    /\ proc[h][p].state \in {"reaping", "timeout"}
    /\ \A a \in Agents : agent[h][a].parent # p
    /\ proc' = [proc EXCEPT ![h][p].state = "zombie"]
    /\ UNCHANGED <<main, flags, pids, agent, catalog, history>>

InstallHandler(h, a) ==
    /\ agent[h][a].state = "forked"
    /\ agent' = [agent EXCEPT ![h][a].state = "serving"]
    /\ UNCHANGED <<main, flags, pids, proc, catalog, history>>

AgentTerminates(h, a) ==
    /\ agent[h][a].state = "terminating"
    /\ agent' = [agent EXCEPT ![h][a] = NoAgent]
    /\ UNCHANGED <<main, flags, pids, proc, catalog, history>>

ClientLeaves(h, a) ==
    /\ agent[h][a].state = "serving"
    /\ agent' = [agent EXCEPT ![h][a] = NoAgent]
    /\ UNCHANGED <<main, flags, pids, proc, catalog, history>>

\* The delay server was told to stop, or sees that another host is the leader.
DelayServerExits(h, p) ==
    /\ proc[h][p].kind = "ds" /\ proc[h][p].state = "serving"
    /\ proc[h][p].flags # {} \/ leader # h
    /\ proc' = [proc EXCEPT ![h][p].state = "zombie"]
    /\ UNCHANGED <<main, flags, pids, agent, catalog, history>>

-----------------------------------------------------------------------------
(* The environment                                                         *)

\* A child ends on its own, the agent factory not before it is ready; the agents
\* of a factory live on without it.
Dies(h, p) ==
    /\ faults < MaxFaults
    /\ Live(h, p) /\ proc[h][p].state # "init"
    /\ faults' = faults + 1
    /\ proc' = [proc EXCEPT ![h][p].state = "zombie"]
    /\ agent' = [agent EXCEPT ![h] = [a \in Agents |->
            IF @[a].parent = p THEN [@[a] EXCEPT !.parent = 0] ELSE @[a]]]
    /\ UNCHANGED <<main, flags, pids, catalog, config, asked, dropped, requests>>

\* The handlers of SIGTERM and SIGQUIT: the first of them counts.
Shutdown(h, f) ==
    /\ main[h].pc # "exited"
    /\ main[h].next = "loop" => "early" \in Environment
    /\ Raise(h, IF Stopping(h) THEN {} ELSE {f})
    /\ UNCHANGED <<main, pids, proc, agent, catalog, history>>

\* The administrator edits server_config.json and sends SIGHUP.
Reload(h) ==
    /\ main[h].pc # "exited" /\ config[h] < MaxConfig
    /\ config' = [config EXCEPT ![h] = @ + 1]
    /\ asked' = [asked EXCEPT ![h] = config'[h]]
    /\ Raise(h, {"reload"})
    /\ UNCHANGED <<main, pids, proc, agent, catalog, dropped, requests, faults>>

\* iadmin set_delay_server.
RequestMigration(h) ==
    /\ requests < MaxRequests
    /\ requests' = requests + 1
    /\ successor' = h
    /\ UNCHANGED <<main, flags, pids, proc, agent, leader, config, asked, dropped, faults>>

-----------------------------------------------------------------------------

Init ==
    /\ main = [h \in Hosts |-> [pc |-> "boot", next |-> "none", leader |-> None]]
    /\ flags = [h \in Hosts |-> {}]
    /\ g_pid_af = [h \in Hosts |-> 0]
    /\ g_pid_ds = [h \in Hosts |-> 0]
    /\ proc = [h \in Hosts |-> [p \in Pids |-> NoProc]]
    /\ agent = [h \in Hosts |-> [a \in Agents |-> NoAgent]]
    /\ config = [h \in Hosts |-> 0]
    /\ asked = [h \in Hosts |-> 0]
    /\ dropped = [h \in Hosts |-> 0]
    /\ leader \in Hosts
    /\ successor = None
    /\ requests = 0
    /\ faults = 0

ChildStep(h, p) ==
    \/ AgentFactoryReady(h, p) \/ CloseSocket(h, p) \/ GracefulTimeout(h, p)
    \/ AgentFactoryExits(h, p) \/ DelayServerExits(h, p)

AgentStep(h, a) == InstallHandler(h, a) \/ AgentTerminates(h, a)

Next ==
    \E h \in Hosts :
        \/ MainStep(h)
        \/ \E p \in Pids : ChildStep(h, p) \/ Dies(h, p) \/ \E a \in Agents : Accept(h, p, a)
        \/ \E a \in Agents : AgentStep(h, a) \/ ClientLeaves(h, a)
        \/ "term" \in Environment /\ Shutdown(h, "terminate")
        \/ "quit" \in Environment /\ Shutdown(h, "graceful")
        \/ Reload(h)
        \/ RequestMigration(h)

Spec == Init /\ [][Next]_vars

\* Every process makes progress; the time for a look at the leader comes, and
\* the catalog does not refuse every request.  Nothing is assumed of clients.
Fairness ==
    /\ \A h \in Hosts :
        /\ WF_vars(MainStep(h))
        /\ SF_vars(Migrate(h))
        /\ SF_vars(SetMigrationInfo(h) /\ successor' = None)
    /\ \A h \in Hosts, p \in Pids : WF_vars(ChildStep(h, p))
    /\ \A h \in Hosts, a \in Agents : WF_vars(AgentStep(h, a))

FairSpec == Spec /\ Fairness

-----------------------------------------------------------------------------

TypeOK ==
    /\ main \in [Hosts -> [pc : MainPC, next : MainPC \cup {"none"}, leader : Hosts \cup {None}]]
    /\ flags \in [Hosts -> SUBSET Flags]
    /\ g_pid_af \in [Hosts -> Pids \cup {0}]
    /\ g_pid_ds \in [Hosts -> Pids \cup {0}]
    /\ proc \in [Hosts -> [Pids -> Processes \cup {NoProc}]]
    /\ agent \in [Hosts -> [Agents -> [state : AgentStates, parent : Pids \cup {0}]]]
    /\ config \in [Hosts -> 0..MaxConfig]
    /\ asked \in [Hosts -> 0..MaxConfig]
    /\ dropped \in [Hosts -> 0..MaxConfig]
    /\ leader \in Hosts
    /\ successor \in Hosts \cup {None}
    /\ requests \in 0..MaxRequests
    /\ faults \in 0..MaxFaults

\* Every agent factory and delay server that has not been told to end is the one
\* the main server remembers, through reloads, interrupted waits, migrations and
\* children that die.  So a shutdown reaches it, and there are never two that take
\* work (launch_agent_factory, launch_delay_server, handle_configuration_reload).
ChildrenAreKnown ==
    \A h \in Hosts, p \in Pids :
        Live(h, p) /\ proc[h][p].flags = {}
            => p = IF proc[h][p].kind = "af" THEN g_pid_af[h] ELSE g_pid_ds[h]

\* Agents that an agent factory has told to end but that were not listening yet.
MissedSignal(h) ==
    \E a \in Agents, p \in Pids :
        /\ proc[h][p].kind = "af"
        /\ proc[h][p].state \in {"reaping", "timeout"}
        /\ "terminate" \in proc[h][p].flags
        /\ agent[h][a] = [state |-> "serving", parent |-> p]

Serves(h, k, v) ==
    \E p \in Pids : /\ proc[h][p].kind = k /\ proc[h][p].state = "serving"
                    /\ proc[h][p].flags = {} /\ proc[h][p].version >= v

\* After SIGHUP an agent factory and, on the leader, a delay server with at least
\* that configuration come to serve, unless the server is stopped or rejects the
\* configuration.  A SIGHUP during a reload is dropped.  When that reload succeeds
\* the new children still read the latest file; when it fails there are none, and
\* the SIGHUP for a corrected file is never answered, which is the one exception.
ReloadIsServed ==
    \A h \in Hosts : \A v \in 1..MaxConfig :
        asked[h] = v ~> \/ asked[h] # v \/ Stopping(h) \/ dropped[h] = v
                        \/ Serves(h, "af", v) /\ (leader = h => Serves(h, "ds", v))

\* A server that is told to stop exits and leaves no agent factory behind.  Only
\* an agent that was forked when its factory told the agents to end, and so has
\* missed it, can hold this up (handle_shutdown, reap_agent_processes).
ShutdownCompletes ==
    \A h \in Hosts :
        Stopping(h) ~> \/ MissedSignal(h)
                       \/ /\ main[h].pc = "exited"
                          /\ \A p \in Pids : proc[h][p].kind = "af" => ~ Live(h, p)

\* When no more migrations are asked for, the request is taken back and exactly
\* the leader runs a delay server for good (migrate_and_launch_delay_server).
MigrationCompletes ==
    <>[](/\ successor = None
         /\ \A h \in Hosts : leader = h <=> \E p \in Pids : proc[h][p].kind = "ds" /\ Live(h, p))

\* handle_configuration_reload launches a new agent factory before it returns;
\* the previous one lingers until its agents end.
ReloadLaunchesFactory ==
    [][\A h \in Hosts :
        main[h].pc = "reload" /\ main'[h].pc # "reload" /\ ~ Stopping(h)
            => g_pid_af'[h] # g_pid_af[h]]_vars

=============================================================================
