----------------------------- MODULE Supervisor -----------------------------
(***************************************************************************)
(* daemon/supervisor.py and the commands that use it: `krewcli daemon`     *)
(* start, stop and status (cli/daemon.py) and the bootstrap of `krewcli    *)
(* login` (cli/login.py), which starts like `daemon start`.                *)
(*                                                                         *)
(* Two files tell the commands about the daemon: the pid file and the      *)
(* status sidecar.  A start in the background checks them, seeds the       *)
(* sidecar, spawns `daemon start --foreground` detached, writes the        *)
(* child's pid and waits for the ready mark; the child writes both files   *)
(* again by itself, in its own time.  The daemon has no signal handler, so *)
(* a signal ends it where it is and leaves the files behind; an exception  *)
(* ends it through `finally: supervisor.clear()`.                          *)
(*                                                                         *)
(* Process ids are not used again, and reading, writing or removing the    *)
(* files takes no time.  A user who waits for one command before giving    *)
(* the next is Overlap = FALSE.                                            *)
(***************************************************************************)
EXTENDS Integers, FiniteSets

CONSTANTS
  MaxCommands,  \* bound: the commands that are given
  MaxDaemons,   \* bound: the processes there may ever be
  None,
  Overlap       \* may a command begin while another runs

ASSUME SupervisorAssumption ==
  /\ MaxCommands \in Nat
  /\ MaxDaemons \in Nat
  /\ None \notin 1..MaxDaemons
  /\ Overlap \in BOOLEAN

\* Commands and processes are numbered as they come.
Cmds == 1..MaxCommands
Pids == 1..MaxDaemons

VARIABLES
  pidFile,     \* daemon.pid: whom it names, or None
  statusFile,  \* daemon.status: not there, there, or there with ready: True
  proc,        \* how far each daemon process is
  kind,        \* what each command is
  pc,          \* how far it is
  seen,        \* the pid it read, or spawned
  said         \* what it told the user

files   == <<pidFile, statusFile>>
cmdVars == <<kind, pc, seen, said>>
vars    == <<files, proc, cmdVars>>

Kinds == {"start", "stop", "status"}

Init ==
  /\ pidFile = None
  /\ statusFile = "absent"
  /\ proc = [p \in Pids |-> "none"]
  /\ kind = [c \in Cmds |-> "none"]
  /\ pc = [c \in Cmds |-> "idle"]
  /\ seen = [c \in Cmds |-> None]
  /\ said = [c \in Cmds |-> "none"]

\* Where a process that takes steps may be; "stopping" has a SIGTERM pending.
Running == {"begin", "seeded", "looping", "ready"}
Alive   == Running \cup {"stopping"}

Live(p) == proc[p] \in Alive

Busy == {c \in Cmds : pc[c] \notin {"idle", "ended"}}

Goes(c, where) == pc' = [pc EXCEPT ![c] = where]

Says(c, what) ==
  /\ Goes(c, "ended")
  /\ said' = [said EXCEPT ![c] = what]

Cleared == pidFile' = None /\ statusFile' = "absent"

-----------------------------------------------------------------------------
(* The daemon: start --foreground and DaemonLoop.run.                      *)

DaemonSeeds(p) ==
  /\ proc[p] = "begin"
  /\ proc' = [proc EXCEPT ![p] = "seeded"]
  /\ statusFile' = "seeded"
  /\ UNCHANGED <<pidFile, cmdVars>>

DaemonWritesPid(p) ==
  /\ proc[p] = "seeded"
  /\ proc' = [proc EXCEPT ![p] = "looping"]
  /\ pidFile' = p
  /\ UNCHANGED <<statusFile, cmdVars>>

\* update_status, once the agents are registered; without a file, nothing.
DaemonReady(p) ==
  /\ proc[p] = "looping"
  /\ proc' = [proc EXCEPT ![p] = "ready"]
  /\ statusFile' = IF statusFile = "absent" THEN "absent" ELSE "ready"
  /\ UNCHANGED <<pidFile, cmdVars>>

\* _run_daemon raises, or Ctrl-C: the files go, whoever's they are.
DaemonRaises(p) ==
  /\ proc[p] \in {"looping", "ready"}
  /\ proc' = [proc EXCEPT ![p] = "dead"]
  /\ Cleared
  /\ UNCHANGED cmdVars

\* A signal, or an error before the `try`: nothing is cleaned up.
DaemonKilled(p) ==
  /\ Live(p)
  /\ proc' = [proc EXCEPT ![p] = "dead"]
  /\ UNCHANGED <<files, cmdVars>>

-----------------------------------------------------------------------------
(* read_status, by all three.                                              *)

CommandGiven(c, k) ==
  /\ pc[c] = "idle"
  /\ \A d \in 1..(c - 1) : pc[d] # "idle"
  /\ Overlap \/ Busy = {}
  /\ kind' = [kind EXCEPT ![c] = k]
  /\ Goes(c, "reads")
  /\ UNCHANGED <<files, proc, seen, said>>

ReadsPid(c) ==
  /\ pc[c] \in {"reads", "readsAgain"}
  /\ seen' = [seen EXCEPT ![c] = pidFile]
  /\ Goes(c, IF pc[c] = "reads" THEN "judges" ELSE "judgesAgain")
  /\ UNCHANGED <<files, proc, kind, said>>

Judges(c) == pc[c] \in {"judges", "judgesAgain"}

\* The pid file was there and its process is alive.
Found(c) == seen[c] # None /\ Live(seen[c])

\* A pid file without its process is cleared away, with the sidecar.
ClearsStale(c) == IF seen[c] = None THEN UNCHANGED files ELSE Cleared

StatusTold(c) ==
  /\ Judges(c)
  /\ kind[c] = "status"
  /\ IF Found(c) THEN Says(c, "running") /\ UNCHANGED files
                 ELSE Says(c, "stopped") /\ ClearsStale(c)
  /\ UNCHANGED <<proc, kind, seen>>

-----------------------------------------------------------------------------
(* start, in the background.                                               *)

\* "Daemon already running"; login leaves it online.
StartRefused(c) ==
  /\ Judges(c)
  /\ kind[c] = "start"
  /\ Found(c)
  /\ Says(c, "already running")
  /\ UNCHANGED <<files, proc, kind, seen>>

\* Mutant: a start does not look whether there is a daemon.
MutStartAllowed(c) ==
  /\ Judges(c)
  /\ kind[c] = "start"
  /\ ClearsStale(c)
  /\ Goes(c, "seeds")
  /\ UNCHANGED <<proc, kind, seen, said>>

StartAllowed(c) ==
  /\ Judges(c)
  /\ kind[c] = "start"
  /\ ~Found(c)
  /\ ClearsStale(c)
  /\ Goes(c, "seeds")
  /\ UNCHANGED <<proc, kind, seen, said>>

StartSeeds(c) ==
  /\ pc[c] = "seeds"
  /\ statusFile' = "seeded"
  /\ Goes(c, "spawns")
  /\ UNCHANGED <<pidFile, proc, kind, seen, said>>

StartSpawns(c, p) ==
  /\ pc[c] = "spawns"
  /\ proc[p] = "none"
  /\ \A q \in 1..(p - 1) : proc[q] # "none"
  /\ proc' = [proc EXCEPT ![p] = "begin"]
  /\ seen' = [seen EXCEPT ![c] = p]
  /\ Goes(c, "names")
  /\ UNCHANGED <<files, kind, said>>

\* Mutant: the child is left to write its pid by itself.
MutStartNames(c) ==
  /\ pc[c] = "names"
  /\ Goes(c, "waits")
  /\ UNCHANGED <<files, proc, kind, seen, said>>

StartNames(c) ==
  /\ pc[c] = "names"
  /\ pidFile' = seen[c]
  /\ Goes(c, "waits")
  /\ UNCHANGED <<statusFile, proc, kind, seen, said>>

\* wait_until_ready: the mark.  That the child is gone does not show as long as
\* this process has not reaped it.
StartOnline(c) ==
  /\ pc[c] = "waits"
  /\ statusFile = "ready"
  /\ Says(c, "online")
  /\ UNCHANGED <<files, proc, kind, seen>>

\* 15 s are over, or the user does not wait for them.
StartUnconfirmed(c) ==
  /\ pc[c] = "waits"
  /\ Says(c, "not ready")
  /\ UNCHANGED <<files, proc, kind, seen>>

-----------------------------------------------------------------------------
(* stop: the command reads the status, and supervisor.stop reads it again. *)

StopNotNeeded(c) ==
  /\ Judges(c)
  /\ kind[c] = "stop"
  /\ ~Found(c)
  /\ ClearsStale(c)
  /\ Says(c, IF pc[c] = "judges" THEN "not running" ELSE "failed")
  /\ UNCHANGED <<proc, kind, seen>>

StopGoesOn(c) ==
  /\ Judges(c)
  /\ kind[c] = "stop"
  /\ Found(c)
  /\ Goes(c, IF pc[c] = "judges" THEN "readsAgain" ELSE "signals")
  /\ UNCHANGED <<files, proc, kind, seen, said>>

StopSignals(c) ==
  /\ pc[c] = "signals"
  /\ Live(seen[c])
  /\ proc' = [proc EXCEPT ![seen[c]] = "stopping"]
  /\ Goes(c, "polls")
  /\ UNCHANGED <<files, kind, seen, said>>

\* ProcessLookupError: it went by itself.
StopTooLate(c) ==
  /\ pc[c] = "signals"
  /\ ~Live(seen[c])
  /\ Cleared
  /\ Says(c, "failed")
  /\ UNCHANGED <<proc, kind, seen>>

StopSeesItGone(c) ==
  /\ pc[c] = "polls"
  /\ ~Live(seen[c])
  /\ Cleared
  /\ Says(c, "stopped")
  /\ UNCHANGED <<proc, kind, seen>>

\* Mutant: no SIGKILL after the timeout.
MutStopKills(c) ==
  /\ pc[c] = "polls"
  /\ Cleared
  /\ Says(c, "stopped")
  /\ UNCHANGED <<proc, kind, seen>>

\* The SIGTERM has not done it in time: a process that is suspended, say.
StopKills(c) ==
  /\ pc[c] = "polls"
  /\ Live(seen[c])
  /\ proc' = [proc EXCEPT ![seen[c]] = "dead"]
  /\ Cleared
  /\ Says(c, "stopped")
  /\ UNCHANGED <<kind, seen>>

-----------------------------------------------------------------------------
Daemon(p) ==
  \/ DaemonSeeds(p) \/ DaemonWritesPid(p) \/ DaemonReady(p)
  \/ DaemonRaises(p) \/ DaemonKilled(p)

Start(c) ==
  \/ StartRefused(c) \/ StartAllowed(c) \/ StartSeeds(c)
  \/ \E p \in Pids : StartSpawns(c, p)
  \/ StartNames(c) \/ StartOnline(c) \/ StartUnconfirmed(c)

Stop(c) ==
  \/ StopNotNeeded(c) \/ StopGoesOn(c) \/ StopSignals(c)
  \/ StopTooLate(c) \/ StopSeesItGone(c) \/ StopKills(c)

Command(c) == ReadsPid(c) \/ StatusTold(c) \/ Start(c) \/ Stop(c)

Next ==
  \/ \E p \in Pids : Daemon(p)
  \/ \E c \in Cmds : Command(c)
  \/ \E c \in Cmds, k \in Kinds : CommandGiven(c, k)

Spec == Init /\ [][Next]_vars

(* A command that has begun goes on: its waits have deadlines.  Nothing is *)
(* assumed of the daemon, which may hang, nor of who gives commands.       *)
FairSpec == Spec /\ \A c \in Cmds : WF_vars(Command(c))

-----------------------------------------------------------------------------
(* Properties.                                                             *)

TypeOK ==
  /\ pidFile \in Pids \cup {None}
  /\ statusFile \in {"absent", "seeded", "ready"}
  /\ proc \in [Pids -> Alive \cup {"none", "dead"}]
  /\ kind \in [Cmds -> Kinds \cup {"none"}]
  /\ pc \in [Cmds -> {"idle", "reads", "judges", "readsAgain", "judgesAgain",
                      "seeds", "spawns", "names", "waits", "signals", "polls",
                      "ended"}]
  /\ seen \in [Cmds -> Pids \cup {None}]
  /\ \A c \in Cmds : pc[c] \in {"names", "waits", "signals", "polls"} => seen[c] \in Pids
  /\ said \in [Cmds -> {"none", "running", "stopped", "already running",
                        "online", "not ready", "not running", "failed"}]

(* Of commands given one after the other, a start never leaves two daemons *)
(* at work, however slowly the first comes up and however it dies: daemons *)
(* that share the agents' names would run each other's tasks               *)
(* (cli/daemon.py:143-151, login.py:169-180).                              *)
OneDaemon == Cardinality({p \in Pids : Live(p)}) <= 1

(* Between commands a live daemon is always the one the pid file names, so *)
(* `stop` finds it: also when the start has stopped waiting for a child    *)
(* that has not yet written anything, and when an earlier daemon was       *)
(* killed or took the files away in its `finally` (supervisor.py:73-97,    *)
(* 110-141, cli/daemon.py:182-219).                                        *)
StopFindsIt == Busy = {} => \A p \in Pids : Live(p) => pidFile = p

(* A stop that was given while a daemon lived, and that goes on to signal  *)
(* it, rids the user of it, also of one that does not react to SIGTERM     *)
(* (supervisor.py:175-206).                                                *)
StopWorks ==
  \A c \in Cmds : pc[c] = "signals" ~> pc[c] = "ended" /\ seen[c] \notin {p \in Pids : Live(p)}

=============================================================================
