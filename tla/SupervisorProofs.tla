---------------------------- MODULE SupervisorProofs ----------------------------
(* Theorems about Supervisor and their proofs.                             *)
EXTENDS Supervisor, FiniteSetTheorems, TLAPS

-----------------------------------------------------------------------------
(* Types.                                                                  *)

LEMMA DaemonTypes ==
  ASSUME TypeOK, NEW p \in Pids, Daemon(p)
  PROVE  TypeOK'
<1> USE DEF TypeOK, cmdVars, files, Alive, Running
<1>1. CASE DaemonSeeds(p) \/ DaemonWritesPid(p)
  BY <1>1 DEF DaemonSeeds, DaemonWritesPid
<1>2. CASE DaemonReady(p)
  BY <1>2 DEF DaemonReady
<1>3. CASE DaemonRaises(p) \/ DaemonKilled(p)
  BY <1>3 DEF DaemonRaises, DaemonKilled, Cleared
<1> QED BY <1>1, <1>2, <1>3 DEF Daemon

LEMMA CommandTypes ==
  ASSUME TypeOK, NEW c \in Cmds, Command(c)
  PROVE  TypeOK'
<1> USE DEF TypeOK, files, Goes, Says, Cleared, ClearsStale, Judges, Found, Live, Alive, Running
<1>1. CASE ReadsPid(c)
  BY <1>1 DEF ReadsPid
<1>2. CASE StatusTold(c)
  BY <1>2 DEF StatusTold
<1>3. CASE StartRefused(c) \/ StartAllowed(c)
  BY <1>3 DEF StartRefused, StartAllowed
<1>4. CASE StartSeeds(c)
  BY <1>4 DEF StartSeeds
<1>5. ASSUME NEW p \in Pids, StartSpawns(c, p) PROVE TypeOK'
  BY <1>5 DEF StartSpawns
<1>6. CASE StartNames(c) \/ StartOnline(c) \/ StartUnconfirmed(c)
  BY <1>6 DEF StartNames, StartOnline, StartUnconfirmed
<1>7. CASE StopNotNeeded(c)
  BY <1>7 DEF StopNotNeeded
<1>8. CASE StopGoesOn(c)
  BY <1>8, SupervisorAssumption DEF StopGoesOn, SupervisorAssumption, Pids
<1>9. CASE StopSignals(c) \/ StopTooLate(c)
  BY <1>9 DEF StopSignals, StopTooLate
<1>10. CASE StopSeesItGone(c) \/ StopKills(c)
  BY <1>10 DEF StopSeesItGone, StopKills
<1> QED BY <1>1, <1>2, <1>3, <1>4, <1>5, <1>6, <1>7, <1>8, <1>9, <1>10
        DEF Command, Start, Stop

LEMMA StepTypes == TypeOK /\ [Next]_vars => TypeOK'
<1> SUFFICES ASSUME TypeOK, [Next]_vars PROVE TypeOK'
  OBVIOUS
<1>1. CASE \E p \in Pids : Daemon(p)
  BY <1>1, DaemonTypes
<1>2. CASE \E c \in Cmds : Command(c)
  BY <1>2, CommandTypes
<1>3. CASE \E c \in Cmds, k \in Kinds : CommandGiven(c, k)
  BY <1>3 DEF CommandGiven, TypeOK, files, Goes
<1>4. CASE UNCHANGED vars
  BY <1>4 DEF TypeOK, vars, files, cmdVars
<1> QED BY <1>1, <1>2, <1>3, <1>4 DEF Next

(* The files name processes there have been, and a command signals one it  *)
(* has read or spawned, for any number of commands and processes.          *)
THEOREM TypesHold == Spec => []TypeOK
<1>1. Init => TypeOK
  BY DEF Init, TypeOK, Alive, Running
<1> QED BY <1>1, StepTypes, PTL DEF Spec

-----------------------------------------------------------------------------
(* The one daemon and the commands that know of it.                        *)

Working(c) == pc[c] \notin {"idle", "ended"}

OneCommand == \A c, d \in Cmds : Working(c) /\ Working(d) => c = d

(* Whoever is alive is known: to the pid file, or to the start that has    *)
(* just spawned it; and no command acts on anything else.                  *)
Known(p) ==
  /\ \A c \in Cmds : pc[c] \notin {"seeds", "spawns"}
  /\ \A c \in Cmds :
       pc[c] \in {"judges", "judgesAgain", "names", "signals", "polls"} => seen[c] = p
  /\ pidFile = p \/ \E c \in Cmds : pc[c] = "names"

AllKnown == \A p \in Pids : Live(p) => Known(p)

DaemonInv == OneCommand /\ AllKnown

LEMMA DaemonKnown ==
  ASSUME TypeOK, DaemonInv, NEW p \in Pids, Daemon(p)
  PROVE  DaemonInv'
<1>1. /\ UNCHANGED cmdVars
      /\ \A q \in Pids : Live(q)' => Live(q)
      /\ pidFile' \in {pidFile, p} \/ ~Live(p)'
  BY DEF TypeOK, Daemon, DaemonSeeds, DaemonWritesPid, DaemonReady, DaemonRaises,
         DaemonKilled, Live, Alive, Running, Cleared, files
<1>2. Live(p)
  BY DEF Daemon, DaemonSeeds, DaemonWritesPid, DaemonReady, DaemonRaises,
         DaemonKilled, Live, Alive, Running
<1>3. \A q \in Pids : Live(q) => q = p
  BY <1>2 DEF DaemonInv, AllKnown, Known
<1> QED BY <1>1, <1>2, <1>3 DEF DaemonInv, OneCommand, AllKnown, Known, Working, cmdVars

LEMMA CommandKnown ==
  ASSUME TypeOK, DaemonInv, NEW c \in Cmds, Command(c)
  PROVE  DaemonInv'
<1>1. Working(c) /\ \A d \in Cmds \ {c} : ~Working(d)
  BY DEF Command, Start, Stop, ReadsPid, StatusTold, StartRefused, StartAllowed,
         StartSeeds, StartSpawns, StartNames, StartOnline, StartUnconfirmed,
         StopNotNeeded, StopGoesOn, StopSignals, StopTooLate, StopSeesItGone,
         StopKills, Judges, DaemonInv, OneCommand, Working
<1>2. /\ pc' = [pc EXCEPT ![c] = pc'[c]]
      /\ seen' = [seen EXCEPT ![c] = seen'[c]]
  BY DEF TypeOK, Command, Start, Stop, ReadsPid, StatusTold, StartRefused, StartAllowed,
         StartSeeds, StartSpawns, StartNames, StartOnline, StartUnconfirmed,
         StopNotNeeded, StopGoesOn, StopSignals, StopTooLate, StopSeesItGone,
         StopKills, Goes, Says
<1>3. \A d \in Cmds \ {c} : pc'[d] = pc[d] /\ ~Working(d)'
  BY <1>1, <1>2 DEF TypeOK, Working
<1>4. OneCommand'
  BY <1>3 DEF OneCommand
<1>5. AllKnown'
  <2> SUFFICES ASSUME NEW q \in Pids, Live(q)'
               PROVE  /\ pc'[c] \notin {"seeds", "spawns"}
                      /\ pc'[c] \in {"judges", "judgesAgain", "names", "signals", "polls"}
                           => seen'[c] = q
                      /\ pidFile' = q \/ pc'[c] = "names"
    BY <1>3 DEF AllKnown, Known, Working
  <2>0. q # None /\ q \in Pids
    BY SupervisorAssumption DEF SupervisorAssumption, Pids
  <2>1. Live(q) => /\ pc[c] \notin {"seeds", "spawns"}
                   /\ pc[c] \in {"judges", "judgesAgain", "names", "signals", "polls"}
                        => seen[c] = q
                   /\ pidFile = q \/ pc[c] = "names"
    BY <1>1 DEF DaemonInv, AllKnown, Known, Working
  <2> USE <2>0, <2>1 DEF TypeOK, files, Goes, Says, Cleared, ClearsStale, Judges, Found
  <2>2. CASE ReadsPid(c)
    BY <2>2 DEF ReadsPid, Live
  <2>3. CASE StatusTold(c)
    BY <2>3 DEF StatusTold, Live
  <2>4a. CASE StartRefused(c)
    BY <2>4a DEF StartRefused, Live
  <2>4. CASE StartAllowed(c)
    <3>1. UNCHANGED proc /\ ~Found(c) /\ pc[c] \in {"judges", "judgesAgain"}
      BY <2>4 DEF StartAllowed
    <3>2. Live(q) /\ seen[c] = q
      BY <3>1, <2>1 DEF Live
    <3> QED BY <3>1, <3>2, <2>0 DEF Found
  <2>5. CASE StartSeeds(c)
    BY <2>5 DEF StartSeeds, Live
  <2>6. ASSUME NEW p \in Pids, StartSpawns(c, p)
        PROVE  pc'[c] = "names" /\ seen'[c] = q
    BY <2>6 DEF StartSpawns, Live
  <2>7. CASE StartNames(c) \/ StartOnline(c) \/ StartUnconfirmed(c)
    BY <2>7 DEF StartNames, StartOnline, StartUnconfirmed, Live
  <2>8. CASE StopNotNeeded(c)
    BY <2>8 DEF StopNotNeeded, Live
  <2>9. CASE StopGoesOn(c)
    BY <2>9 DEF StopGoesOn, Live
  <2>10. CASE StopSignals(c)
    BY <2>10 DEF StopSignals, Live, Alive, Running
  <2>11. CASE StopTooLate(c) \/ StopSeesItGone(c)
    BY <2>11 DEF StopTooLate, StopSeesItGone, Live
  <2>12. CASE StopKills(c)
    BY <2>12 DEF StopKills, Live, Alive, Running
  <2> QED BY <2>2, <2>3, <2>4a, <2>4, <2>5, <2>6, <2>7, <2>8, <2>9, <2>10, <2>11, <2>12
          DEF Command, Start, Stop
<1> QED BY <1>4, <1>5 DEF DaemonInv

LEMMA StepDaemonInv ==
  ASSUME Overlap = FALSE, TypeOK, DaemonInv, [Next]_vars
  PROVE  DaemonInv'
<1>1. CASE \E p \in Pids : Daemon(p)
  BY <1>1, DaemonKnown
<1>2. CASE \E c \in Cmds : Command(c)
  BY <1>2, CommandKnown
<1>3. ASSUME NEW c \in Cmds, NEW k \in Kinds, CommandGiven(c, k) PROVE DaemonInv'
  <2>1. \A d \in Cmds : ~Working(d)
    BY <1>3 DEF CommandGiven, Busy, Working
  <2>2. pc' = [pc EXCEPT ![c] = "reads"] /\ UNCHANGED <<pidFile, proc, seen>>
    BY <1>3 DEF CommandGiven, Goes, files
  <2> QED BY <2>1, <2>2 DEF TypeOK, DaemonInv, OneCommand, AllKnown, Known, Working, Live
<1>4. CASE UNCHANGED vars
  BY <1>4 DEF vars, files, cmdVars, DaemonInv, OneCommand, AllKnown, Known, Working, Live
<1> QED BY <1>1, <1>2, <1>3, <1>4 DEF Next

LEMMA DaemonInvHolds == ASSUME Overlap = FALSE PROVE Spec => []DaemonInv
<1>1. Init => DaemonInv
  BY DEF Init, DaemonInv, OneCommand, AllKnown, Known, Working, Live, Alive, Running
<1> QED BY <1>1, StepDaemonInv, TypesHold, PTL DEF Spec

(* However many commands are given, one after the other, there is never    *)
(* more than one daemon (cli/daemon.py:143-151, supervisor.py:73-97).      *)
THEOREM OneDaemonAtMost == ASSUME Overlap = FALSE PROVE Spec => []OneDaemon
<1>1. DaemonInv => OneDaemon
  <2> SUFFICES ASSUME DaemonInv PROVE OneDaemon
    OBVIOUS
  <2> DEFINE living == {p \in Pids : Live(p)}
  <2>1. \A p, q \in living : p = q
    BY DEF DaemonInv, AllKnown, Known
  <2>2. living = {} \/ \E p \in living : living = {p}
    BY <2>1
  <2>3. CASE living = {}
    BY <2>3, FS_EmptySet DEF OneDaemon
  <2>4. CASE \E p \in living : living = {p}
    <3>1. PICK p \in living : living = {p}
      BY <2>4
    <3>2. Cardinality(living) = 1
      BY <3>1, FS_Singleton
    <3> QED BY <3>2 DEF OneDaemon
  <2> QED BY <2>2, <2>3, <2>4
<1> QED BY <1>1, DaemonInvHolds, PTL

(* Between commands a live daemon is the one the pid file names            *)
(* (supervisor.py:110-141, cli/daemon.py:182-219).                         *)
THEOREM StopAlwaysFindsIt == ASSUME Overlap = FALSE PROVE Spec => []StopFindsIt
<1>1. DaemonInv => StopFindsIt
  BY DEF DaemonInv, AllKnown, Known, StopFindsIt, Busy
<1> QED BY <1>1, DaemonInvHolds, PTL
=============================================================================
