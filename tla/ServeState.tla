----------------------------- MODULE ServeState -----------------------------
(***************************************************************************)
(* serve.state.json: how `lens serve` processes create, take over, rewrite *)
(* and remove the file that names the running server, and how              *)
(* `lens shutdown` and `lens restart` read it, decide and act on it        *)
(* (internal/cli).                                                         *)
(*                                                                         *)
(* Concurrency.  Every serve and every command is an operating system      *)
(* process; nothing but the file system and the two ports orders them.     *)
(* One action is one system call on the file, one bind, one close, or one  *)
(* probe.  A serve process may be killed between any two of them.          *)
(*                                                                         *)
(* Data.  Of the file's content only the pid matters; an empty or torn     *)
(* file has the pid Nobody and every reader fails on it.  All processes    *)
(* are started with the same configuration, so they want the same two      *)
(* ports.  Pids are not reused.                                            *)
(***************************************************************************)
EXTENDS Naturals, FiniteSets

CONSTANTS
  Procs,      \* serve processes, each started at most once
  MaxCrashes  \* bound: processes killed

ASSUME ServeStateAssumption ==
  /\ {"dead", "nobody", "absent", "free", "command"} \cap Procs = {}
  /\ MaxCrashes \in Nat

Dead == "dead"      \* the pid of a server that was killed before the story starts
Nobody == "nobody"
Absent == "absent"
Free == "free"

VARIABLES
  file,      \* Absent, or the pid the file holds
  pc,        \* what each serve process is about to do
  proxy,     \* who holds the proxy port
  dash,      \* who holds the dashboard port
  store,     \* processes that have the store open
  stopping,  \* processes whose context is cancelled
  bindLost,  \* processes that lost a bind
  suppress,  \* processes that gave up the removal (leaveFile)
  crashes,   \* processes killed so far
  cmd,       \* the command that is running: its kind, step, and the pid it read
  current,   \* history: who looked at the file as it is now, or made it so
  intact,    \* history: nobody acted on a file that had changed since its look
  winner     \* history: the last process to finish its rewrite, or Dead

procVars == <<pc, store, stopping, bindLost, suppress>>
ports == <<proxy, dash>>
history == <<current, intact, winner>>
vars == <<file, procVars, ports, crashes, cmd, history>>

Command == "command"   \* the command, as a reader of the file
NoCmd == [kind |-> "none", at |-> "idle", pid |-> Dead]

Init ==
  /\ file \in {Absent, Dead}
  /\ pc = [p \in Procs |-> "new"]
  /\ proxy = Free /\ dash = Free
  /\ store = {} /\ stopping = {} /\ bindLost = {} /\ suppress = {}
  /\ crashes = 0 /\ cmd = NoCmd
  /\ current = {} /\ intact = TRUE /\ winner = Dead

Alive(p) == p \in Procs /\ pc[p] \notin {"new", "exited", "killed"}

Goto(p, label) == pc' = [pc EXCEPT ![p] = label]

\* p changes the file: whatever others know of it is old.
Change(p, content) == file' = content /\ current' = {p}

\* p acts on what it knows of the file.
Trusts(p) == intact' = (intact /\ p \in current)

----------------------------------------------------------------------------
(* Start: openServeStateFile, the store, the two binds, the rewrite.       *)

\* O_EXCL.  The create leaves an empty file.
CreateFile(p) ==
  /\ IF file = Absent THEN Change(p, Nobody) /\ Goto(p, "encode")
                      ELSE UNCHANGED <<file, current>> /\ Goto(p, "readOld")
  /\ UNCHANGED <<store, stopping, bindLost, suppress, ports, crashes, cmd, intact, winner>>

\* Somebody runs `lens serve`; the next pid is as good as any.
NextPid == CHOOSE p \in Procs : pc[p] = "new"

Start(p) == pc[p] = "new" /\ p = NextPid /\ CreateFile(p)

\* A process that `lens restart` spawned.
Create(p) == pc[p] = "create" /\ CreateFile(p)

\* Content is written through an open handle: lost when the file is gone,
\* and a torn file when somebody wrote there since.
Written(p) == IF file = Absent THEN {Absent}
              ELSE IF p \in current THEN {p} ELSE {p, Nobody}

Encode(p) ==
  /\ pc[p] = "encode" /\ Trusts(p) /\ Goto(p, "open")
  /\ \E content \in Written(p) : Change(p, content)
  /\ UNCHANGED <<store, stopping, bindLost, suppress, ports, crashes, cmd, winner>>

\* A live owner's file is left alone; one nobody can read ends the start.
ReadOld(p) ==
  /\ pc[p] = "readOld"
  /\ Goto(p, CASE file \in {Absent, Nobody} -> "exited"
               [] file \notin {Absent, Nobody} /\ Alive(file) -> "open"
               [] OTHER -> "takeOver")
  /\ current' = current \cup {p}
  /\ UNCHANGED <<file, store, stopping, bindLost, suppress, ports, crashes, cmd, intact, winner>>

\* os.WriteFile truncates (or creates) and then writes.
TakeOver(p) ==
  /\ pc[p] = "takeOver" /\ Trusts(p) /\ Change(p, Nobody) /\ Goto(p, "encode")
  /\ UNCHANGED <<store, stopping, bindLost, suppress, ports, crashes, cmd, winner>>

\* The store may not open, and the proxy behind it may not be built.
OpenStore(p) ==
  /\ pc[p] = "open"
  /\ \/ store' = store \cup {p} /\ Goto(p, "listenProxy")
     \/ store' = store \cup {p} /\ Goto(p, "closeStore")
     \/ store' = store /\ Goto(p, "removeLook")
  /\ UNCHANGED <<file, stopping, bindLost, suppress, ports, crashes, cmd, history>>

\* A bind fails when the port is taken, or any other time.
ListenProxy(p) ==
  /\ pc[p] = "listenProxy"
  /\ \/ proxy = Free /\ proxy' = p /\ Goto(p, "listenDash") /\ UNCHANGED bindLost
     \/ UNCHANGED proxy /\ bindLost' = bindLost \cup {p} /\ Goto(p, "closeStore")
  /\ UNCHANGED <<file, store, stopping, suppress, dash, crashes, cmd, history>>

\* [mutant] the proxy port is not given back when the second bind fails.
ListenDashKeepsProxy(p) ==
  /\ pc[p] = "listenDash"
  /\ \/ dash = Free /\ dash' = p /\ Goto(p, "truncate") /\ UNCHANGED <<proxy, bindLost>>
     \/ UNCHANGED ports /\ bindLost' = bindLost \cup {p} /\ Goto(p, "closeStore")
  /\ UNCHANGED <<file, store, stopping, suppress, crashes, cmd, history>>

ListenDash(p) ==
  /\ pc[p] = "listenDash"
  /\ \/ dash = Free /\ dash' = p /\ Goto(p, "truncate") /\ UNCHANGED <<proxy, bindLost>>
     \/ /\ proxy' = Free /\ UNCHANGED dash
        /\ bindLost' = bindLost \cup {p} /\ Goto(p, "closeStore")
  /\ UNCHANGED <<file, store, stopping, suppress, crashes, cmd, history>>

\* bindWon, whoever's file it was.
Truncate(p) ==
  /\ pc[p] = "truncate" /\ Change(p, Nobody) /\ Goto(p, "rewrite")
  /\ UNCHANGED <<store, stopping, bindLost, suppress, ports, crashes, cmd, intact, winner>>

Rewrite(p) ==
  /\ pc[p] = "rewrite" /\ Trusts(p) /\ Goto(p, "serve")
  /\ \E content \in Written(p) : Change(p, content)
  /\ winner' = p
  /\ UNCHANGED <<store, stopping, bindLost, suppress, ports, crashes, cmd>>

----------------------------------------------------------------------------
(* Stop.                                                                   *)

\* A signal, or a server that failed.
Interrupt(p) ==
  /\ pc[p] \in {"listenProxy", "listenDash", "truncate", "rewrite", "serve"}
  /\ p \notin stopping /\ stopping' = stopping \cup {p}
  /\ UNCHANGED <<file, pc, store, bindLost, suppress, ports, crashes, cmd, history>>

\* proxySrv.Shutdown closes its listener first, then dashSrv's: both ports
\* are free long before the store is closed.
ShutProxy(p) ==
  /\ pc[p] = "serve" /\ p \in stopping /\ proxy' = Free /\ Goto(p, "shutDash")
  /\ UNCHANGED <<file, store, stopping, bindLost, suppress, dash, crashes, cmd, history>>

ShutDash(p) ==
  /\ pc[p] = "shutDash" /\ dash' = Free /\ Goto(p, "join")
  /\ UNCHANGED <<file, store, stopping, bindLost, suppress, proxy, crashes, cmd, history>>

\* [mutant] the file goes while the deferred close is still to come.
JoinRemovesFirst(p) ==
  /\ pc[p] = "join" /\ Goto(p, "removeLook")
  /\ suppress' \in {suppress, suppress \cup {p}}
  /\ UNCHANGED <<file, store, stopping, bindLost, ports, crashes, cmd, history>>

\* [mutant] the teardown waits until nobody answers on the ports.
JoinAwaitsPorts(p) ==
  /\ pc[p] = "join" /\ proxy = Free /\ dash = Free /\ Goto(p, "closeStore")
  /\ suppress' \in {suppress, suppress \cup {p}}
  /\ UNCHANGED <<file, store, stopping, bindLost, ports, crashes, cmd, history>>

\* The maintenance goroutine joins within the grace period, or the file stays.
Join(p) ==
  /\ pc[p] = "join" /\ Goto(p, "closeStore")
  /\ suppress' \in {suppress, suppress \cup {p}}
  /\ UNCHANGED <<file, store, stopping, bindLost, ports, crashes, cmd, history>>

\* The store is closed before the file goes: in closeStoreThenRemoveState,
\* and by the order of the deferred calls on every early return.
CloseStore(p) ==
  /\ pc[p] = "closeStore" /\ store' = store \ {p} /\ Goto(p, "removeLook")
  /\ UNCHANGED <<file, stopping, bindLost, suppress, ports, crashes, cmd, history>>

\* [mutant] the removal does not compare the owner.
RemoveLookAnyOwner(p) ==
  /\ pc[p] = "removeLook"
  /\ Goto(p, IF file # Absent /\ p \notin bindLost \cup suppress THEN "remove" ELSE "exited")
  /\ current' = current \cup {p}
  /\ UNCHANGED <<file, store, stopping, bindLost, suppress, ports, crashes, cmd, intact, winner>>

\* [mutant] a process that was told to stop is vetoed as if it had lost a bind.
RemoveLookNeverStopped(p) ==
  /\ pc[p] = "removeLook"
  /\ Goto(p, IF file = p /\ p \notin bindLost \cup suppress \cup stopping THEN "remove" ELSE "exited")
  /\ current' = current \cup {p}
  /\ UNCHANGED <<file, store, stopping, bindLost, suppress, ports, crashes, cmd, intact, winner>>

\* removeServeStateIfOwner: the gates, the owner, and then the removal.
RemoveLook(p) ==
  /\ pc[p] = "removeLook"
  /\ Goto(p, IF file = p /\ p \notin bindLost \cup suppress THEN "remove" ELSE "exited")
  /\ current' = current \cup {p}
  /\ UNCHANGED <<file, store, stopping, bindLost, suppress, ports, crashes, cmd, intact, winner>>

Remove(p) ==
  /\ pc[p] = "remove" /\ Trusts(p) /\ Change(p, Absent) /\ Goto(p, "exited")
  /\ UNCHANGED <<store, stopping, bindLost, suppress, ports, crashes, cmd, winner>>

\* The system closes what a killed process held; the file stays as it is.
Kill(p) ==
  /\ Goto(p, "killed") /\ store' = store \ {p}
  /\ proxy' = IF proxy = p THEN Free ELSE proxy
  /\ dash' = IF dash = p THEN Free ELSE dash

Crash(p) ==
  /\ Alive(p) /\ crashes < MaxCrashes /\ crashes' = crashes + 1
  /\ Kill(p)
  /\ UNCHANGED <<file, stopping, bindLost, suppress, cmd, history>>

Step(p) ==
  \/ Create(p) \/ Encode(p) \/ ReadOld(p) \/ TakeOver(p) \/ OpenStore(p)
  \/ ListenProxy(p) \/ ListenDash(p) \/ Truncate(p) \/ Rewrite(p)
  \/ ShutProxy(p) \/ ShutDash(p) \/ Join(p) \/ CloseStore(p)
  \/ RemoveLook(p) \/ Remove(p)

----------------------------------------------------------------------------
(* lens shutdown and lens restart.                                         *)

HealthUp == dash # Free /\ pc[dash] \in {"serve", "shutDash"}
PortsRefuse == proxy = Free /\ dash = Free

CmdGoto(label) == cmd' = [cmd EXCEPT !.at = label]
CmdUnchanged == UNCHANGED <<procVars, ports, crashes, winner>>

RunCommand ==
  /\ cmd = NoCmd
  /\ \E k \in {"shutdown", "restart", "restart --exe"} : cmd' = [NoCmd EXCEPT !.kind = k, !.at = "read"]
  /\ UNCHANGED <<file, current, intact>> /\ CmdUnchanged

\* Without a file a shutdown still asks a server that answers on the
\* configured port; a restart gives up, and so does either on a torn file.
CmdRead ==
  /\ cmd.at = "read"
  /\ cmd' = IF file \in Procs \cup {Dead} THEN [cmd EXCEPT !.at = "probe", !.pid = file]
            ELSE [cmd EXCEPT !.at = IF file = Absent /\ cmd.kind = "shutdown" /\ HealthUp
                                    THEN "postOnly" ELSE "done"]
  /\ current' = current \cup {Command}
  /\ UNCHANGED <<file, intact>> /\ CmdUnchanged

CmdProbe ==
  /\ cmd.at = "probe"
  /\ CmdGoto(IF ~ HealthUp /\ PortsRefuse THEN "pid" ELSE "post")
  /\ UNCHANGED <<file, current, intact>> /\ CmdUnchanged

CmdPid ==
  /\ cmd.at = "pid"
  /\ CmdGoto(IF Alive(cmd.pid) THEN "post" ELSE "removeStale")
  /\ UNCHANGED <<file, current, intact>> /\ CmdUnchanged

\* os.Remove, whoever owns the file by now.
CmdRemoveStale ==
  /\ cmd.at = "removeStale" /\ Trusts(Command) /\ Change(Command, Absent)
  /\ CmdGoto(IF cmd.kind = "shutdown" THEN "done" ELSE "spawn")
  /\ CmdUnchanged

\* POST /api/shutdown cancels the context of the server that answers.
CmdPost ==
  /\ cmd.at \in {"post", "postOnly"}
  /\ \/ /\ HealthUp /\ stopping' = stopping \cup {dash}
        /\ CmdGoto(IF cmd.at = "post" THEN "wait" ELSE "done")
     \/ UNCHANGED stopping /\ CmdGoto("done")
  /\ UNCHANGED <<file, current, intact, pc, store, bindLost, suppress, ports, crashes, winner>>

\* The poll sees the file gone and the ports free, or its deadline passes;
\* past it a restart looks at the file alone.
CmdWait ==
  /\ cmd.at = "wait"
  /\ \/ /\ file = Absent /\ PortsRefuse
        /\ CmdGoto(IF cmd.kind = "shutdown" THEN "done" ELSE "spawn")
     \/ CmdGoto(IF cmd.kind # "shutdown" /\ file = Absent THEN "spawn" ELSE "done")
  /\ UNCHANGED <<file, current, intact>> /\ CmdUnchanged

\* The child is a serve process like any other.
CmdSpawn ==
  /\ cmd.at = "spawn"
  /\ \E p \in Procs :
       /\ pc[p] = "new" /\ p = NextPid /\ Goto(p, "create")
       /\ cmd' = [cmd EXCEPT !.at = "health", !.pid = p]
  /\ UNCHANGED <<file, current, intact, store, stopping, bindLost, suppress, ports, crashes, winner>>

\* Whoever answers counts.  A binary that was asked for with --exe and does
\* not is killed, and the previous one is started in its place.
CmdHealth ==
  /\ cmd.at = "health"
  /\ \/ HealthUp /\ CmdGoto("done") /\ UNCHANGED <<pc, store, ports>>
     \/ cmd.kind = "restart" /\ CmdGoto("done") /\ UNCHANGED <<pc, store, ports>>
     \/ /\ cmd.kind = "restart --exe"
        /\ IF Alive(cmd.pid) THEN Kill(cmd.pid) ELSE UNCHANGED <<pc, store, ports>>
        /\ cmd' = [cmd EXCEPT !.kind = "rollback", !.at = "spawn"]
  /\ UNCHANGED <<file, current, intact, stopping, bindLost, suppress, crashes, winner>>

\* A rollback does not wait for its child.
CmdLeave ==
  /\ cmd.at = "health" /\ cmd.kind = "rollback" /\ CmdGoto("done")
  /\ UNCHANGED <<file, current, intact>> /\ CmdUnchanged

CmdStep ==
  \/ CmdRead \/ CmdProbe \/ CmdPid \/ CmdRemoveStale \/ CmdPost \/ CmdWait
  \/ CmdSpawn \/ CmdHealth \/ CmdLeave

Next ==
  \/ \E p \in Procs : Start(p) \/ Step(p) \/ Interrupt(p) \/ Crash(p)
  \/ RunCommand \/ CmdStep

Spec == Init /\ [][Next]_vars

\* Code that runs goes on running; nothing makes anybody start, stop or kill.
FairSpec == Spec /\ \A p \in Procs : WF_vars(Step(p))

----------------------------------------------------------------------------
(* Properties.                                                             *)

Labels == {"new", "create", "encode", "readOld", "takeOver", "open", "listenProxy",
           "listenDash", "truncate", "rewrite", "serve", "shutDash", "join",
           "closeStore", "removeLook", "remove", "exited", "killed"}

\* Type invariant; a port is held by a process that bound it and lives.
TypeOK ==
  /\ file \in Procs \cup {Dead, Nobody, Absent}
  /\ pc \in [Procs -> Labels]
  /\ proxy # Free => proxy \in Procs /\ pc[proxy] \in {"listenDash", "truncate", "rewrite", "serve"}
  /\ dash # Free => dash \in Procs /\ pc[dash] \in {"truncate", "rewrite", "serve", "shutDash"}
  /\ {stopping, bindLost, suppress} \subseteq SUBSET Procs
  /\ store \subseteq {p \in Procs : Alive(p)}
  /\ crashes \in 0..MaxCrashes
  /\ cmd.kind \in {"none", "shutdown", "restart", "restart --exe", "rollback"}
  /\ cmd.pid \in Procs \cup {Dead}
  /\ current \subseteq Procs \cup {Command}
  /\ intact \in BOOLEAN /\ winner \in Procs \cup {Dead}

\* Ownership follows the successful bind: the process that serves is the one
\* the file names, whichever processes created it, found a dead owner in it,
\* lost a bind, are still draining, or were killed while they wrote it -- as
\* long as no process acted on what the file said before somebody else
\* changed it.
WinnerOwnsFile ==
  intact => \A p \in Procs : pc[p] = "serve" => file = p

\* The file's disappearance is a proof that the store of the last server it
\* named is closed, also when a shutdown or restart takes it for stale: what
\* `lens restart` relies on before it spawns (closeStoreThenRemoveState).
FileGoneStoreClosed ==
  intact /\ file = Absent => winner \notin store

\* A process that comes to its own end without having lost a bind, and whose
\* maintenance joined, leaves no file that names it.
CleanExitLeavesNoFile ==
  \A p \in Procs :
    pc[p] = "exited" /\ p \notin bindLost \cup suppress => file # p

\* A process that is told to stop exits, whatever the others do.
StopLeadsToExit ==
  \A p \in Procs : p \in stopping ~> ~ Alive(p)
=============================================================================
