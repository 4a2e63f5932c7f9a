----------------------------- MODULE WebProcess -----------------------------
(***************************************************************************)
(* The managed Web server (src/src/composition/web-process-manager.ts and  *)
(* fs-web-server-state-store.ts): commands, each in a process of its own,  *)
(* start, stop, restart and inspect the server behind a file lock; the     *)
(* server saves and removes its record, server.json, without that lock.    *)
(* A command or a server may end at any time, and a pid may pass to a      *)
(* process that is not Norn's.  A step reaches the next await.             *)
(***************************************************************************)
EXTENDS Naturals

CONSTANTS
    Manager,     \* the processes of commands
    Server,      \* the processes of servers, each with its pid
    Nobody,      \* no manager, no server
    MaxCommands, \* bound on the commands
    MaxEvents    \* bound on failures, slow answers, kills, signals and reused pids

ASSUME ConstantsAssumption ==
    /\ Nobody \notin Manager \cup Server
    /\ MaxCommands \in Nat /\ MaxEvents \in Nat

VARIABLES
    lock,     \* who has the file lock of the record
    cmd,      \* what each command is doing: [op, pc, about]
    record,   \* server.json: the server it names
    server,   \* what each server is doing
    orphaned, \* a command ended early after it spawned a server (history)
    raced,    \* a pid passed on while a command was to signal it (history)
    hurt,     \* a process that is not Norn's was signalled (history)
    commands, events

vars == <<lock, cmd, record, server, orphaned, raced, hurt, commands, events>>

History == <<orphaned, raced, hurt>>

Ops == {"start", "stop", "restart", "status", "foreground"}
Idle == [op |-> "status", pc |-> "idle", about |-> Nobody]

Init ==
    /\ lock = Nobody /\ cmd = [m \in Manager |-> Idle]
    /\ record = Nobody /\ server = [s \in Server |-> "unused"]
    /\ orphaned = FALSE /\ raced = FALSE /\ hurt = FALSE
    /\ commands = 0 /\ events = 0

At(m, pc) == cmd[m].pc = pc
About(m) == cmd[m].about
Goes(m, pc) == cmd' = [cmd EXCEPT ![m].pc = pc]
Is(s, stage) == server[s] = stage
Turns(s, stage) == server' = [server EXCEPT ![s] = stage]

(* Before shutdown is installed a signal kills; then it asks; once asked,   *)
(* the server closes, removes its record ("unforgotten": in vain), and      *)
(* lingers until its last work is done.                                     *)
Starting(s) == server[s] \in {"booting", "listening", "saved"}
Ending(s) == server[s] \in {"asked", "closing", "closed", "unlinking", "unforgotten", "lingering"}
Up(s) == Starting(s) \/ Is(s, "serving") \/ Ending(s)

(* isProcessAlive: of the pid, whoever has it. *)
PidAlive(s) == Up(s) \/ Is(s, "reused")

Event == events < MaxEvents /\ events' = events + 1
OnlyCmd == UNCHANGED <<lock, record, server, History, commands, events>>

(* probe: a server answers from the moment it listens; while it closes it   *)
(* may still answer, and any answer may come too late.                      *)
Healthy(s) == server[s] \in {"listening", "saved", "serving", "asked"}
Answers(s) == (Healthy(s) \/ Is(s, "closing")) /\ UNCHANGED events
DoesNotAnswer(s) == IF Healthy(s) THEN Event ELSE UNCHANGED events

(* process.kill(pid, "SIGTERM"), an error when there is no such process.    *)
(* The handler runs once: a later signal of its kind kills.                 *)
Sends(s) ==
    /\ PidAlive(s) /\ hurt' = (hurt \/ Is(s, "reused"))
    /\ \/ Starting(s) /\ Turns(s, "killed")
       \/ Is(s, "serving") /\ Turns(s, "asked")
       \/ Ending(s) /\ ~Is(s, "asked") /\ Turns(s, "killed")
       \/ (Ending(s) \/ Is(s, "reused")) /\ UNCHANGED server
NoSuchProcess(s) == ~PidAlive(s) /\ UNCHANGED <<server, hurt>>

-----------------------------------------------------------------------------
(* inspectUnlocked, the beginning of every command *)

Acquire(m) ==
    /\ At(m, "idle") /\ lock = Nobody /\ commands < MaxCommands /\ commands' = commands + 1
    /\ lock' = m
    /\ \E op \in Ops : cmd' = [cmd EXCEPT ![m] = [op |-> op, pc |-> "load", about |-> Nobody]]
    /\ UNCHANGED <<record, server, History, events>>

Load(m) ==
    /\ At(m, "load") /\ OnlyCmd
    /\ cmd' = [cmd EXCEPT ![m] = [op |-> cmd[m].op, about |-> record,
                                  pc |-> IF record = Nobody THEN "stopped" ELSE "probe"]]

Probe(m) ==
    /\ At(m, "probe")
    /\ \/ Answers(About(m)) /\ Goes(m, "running")
       \/ DoesNotAnswer(About(m)) /\ Goes(m, "alive")
    /\ UNCHANGED <<lock, record, server, History, commands>>

(* Mutant of CheckAlive: a server that does not answer is taken for stopped. *)
CheckAlive_Assumes(m) == At(m, "alive") /\ OnlyCmd /\ Goes(m, "removeLoad")

CheckAlive(m) ==
    /\ At(m, "alive") /\ OnlyCmd
    /\ Goes(m, IF PidAlive(About(m)) THEN "unresponsive" ELSE "removeLoad")

(* FsWebServerStateStore.remove(pid): a load, then an unlink.  One that     *)
(* fails ends the command.                                                  *)
RemoveLoad(m) ==
    /\ At(m, "removeLoad") /\ UNCHANGED <<lock, record, server, History, commands>>
    /\ \/ Goes(m, IF record = About(m) THEN "removeUnlink" ELSE "stopped") /\ UNCHANGED events
       \/ Goes(m, "done") /\ Event

RemoveUnlink(m) ==
    /\ At(m, "removeUnlink") /\ UNCHANGED <<lock, server, History, commands>>
    /\ \/ Goes(m, "stopped") /\ record' = Nobody /\ UNCHANGED events
       \/ Goes(m, "done") /\ UNCHANGED record /\ Event

Inspect(m) ==
    Load(m) \/ Probe(m) \/ CheckAlive(m) \/ RemoveLoad(m) \/ RemoveUnlink(m)

-----------------------------------------------------------------------------
(* What each command does with the answer *)

(* start(), and restart() when nothing runs or no longer: startUnlocked     *)
(* inspects again in restart().                                             *)
StartAgain(m) ==
    /\ At(m, "stopped") /\ cmd[m].op = "restart" /\ OnlyCmd
    /\ cmd' = [cmd EXCEPT ![m] = [op |-> "start", pc |-> "load", about |-> Nobody]]

(* The new server is the child of start(), or foreground() itself.          *)
Spawn(m) ==
    /\ At(m, "stopped") /\ cmd[m].op \in {"start", "foreground"}
    /\ \E s \in Server :
          /\ Is(s, "unused") /\ Turns(s, "booting")
          /\ cmd' = [cmd EXCEPT ![m].about = s,
                        ![m].pc = IF cmd[m].op = "start" THEN "await" ELSE "serve"]
    /\ UNCHANGED <<lock, record, History, commands, events>>

(* One round of the wait for the child. *)
Await(m) ==
    /\ At(m, "await") /\ OnlyCmd
    /\ Goes(m, IF record = About(m) THEN "awaitProbe" ELSE "awaitAlive")

AwaitProbe(m) ==
    /\ At(m, "awaitProbe")
    /\ \/ Answers(About(m)) /\ Goes(m, "done")
       \/ DoesNotAnswer(About(m)) /\ Goes(m, "awaitAlive")
    /\ UNCHANGED <<lock, record, server, History, commands>>

AwaitAlive(m) ==
    /\ At(m, "awaitAlive") /\ OnlyCmd
    /\ Goes(m, IF PidAlive(About(m)) THEN "await" ELSE "done")

(* Ten seconds of rounds later the child is told to end.                    *)
StartTimesOut(m) ==
    /\ At(m, "await") /\ Goes(m, "done")
    /\ Sends(About(m)) \/ NoSuchProcess(About(m))
    /\ UNCHANGED <<lock, record, orphaned, raced, commands, events>>

(* A read of the record that fails ends start() where it is.                *)
StartFails(m) ==
    /\ At(m, "await") /\ Event /\ Goes(m, "done") /\ orphaned' = TRUE
    /\ UNCHANGED <<lock, record, server, raced, hurt, commands>>

(* foreground() has the lock until its own server serves. *)
Served(m) ==
    /\ At(m, "serve") /\ ~Starting(About(m)) /\ OnlyCmd
    /\ Goes(m, "done")

(* Mutant of StopRunning: the pid of an unresponsive server is signalled too. *)
StopRunning_Unverified(m) ==
    /\ cmd[m].pc \in {"running", "unresponsive"} /\ cmd[m].op \in {"stop", "restart"}
    /\ \/ Sends(About(m)) /\ Goes(m, "awaitExit")
       \/ NoSuchProcess(About(m)) /\ Goes(m, "done")
    /\ UNCHANGED <<lock, record, orphaned, raced, commands, events>>

(* stopRunning *)
StopRunning(m) ==
    /\ At(m, "running") /\ cmd[m].op \in {"stop", "restart"}
    /\ \/ Sends(About(m)) /\ Goes(m, "awaitExit")
       \/ NoSuchProcess(About(m)) /\ Goes(m, "done")
    /\ UNCHANGED <<lock, record, orphaned, raced, commands, events>>

AwaitExit(m) ==
    /\ At(m, "awaitExit") /\ ~PidAlive(About(m)) /\ OnlyCmd
    /\ Goes(m, "removeLoad")

StopTimesOut(m) == At(m, "awaitExit") /\ OnlyCmd /\ Goes(m, "done")

(* Every other answer ends the command, with a status or with an error.     *)
Ends(m) ==
    \/ At(m, "done") \/ At(m, "unresponsive")
    \/ At(m, "running") /\ cmd[m].op \notin {"stop", "restart"}
    \/ At(m, "stopped") /\ cmd[m].op \in {"stop", "status"}

Return(m) ==
    /\ Ends(m) /\ lock' = Nobody
    /\ cmd' = [cmd EXCEPT ![m] = Idle]
    /\ UNCHANGED <<record, server, History, commands, events>>

Waits(m) == At(m, "await") \/ At(m, "awaitProbe") \/ At(m, "awaitAlive")

(* The process of the command ends, in foreground() with its server; the    *)
(* lock file stays.                                                         *)
Crash(m) ==
    /\ cmd[m].pc \notin {"idle", "crashed"} /\ Event /\ Goes(m, "crashed")
    /\ orphaned' = (orphaned \/ Waits(m))
    /\ IF At(m, "serve") /\ Up(About(m))
          THEN Turns(About(m), "killed") ELSE UNCHANGED server
    /\ UNCHANGED <<lock, record, raced, hurt, commands>>

(* A later command finds the lock abandoned (FileLock). *)
Reap(m) ==
    /\ At(m, "crashed") /\ lock' = Nobody
    /\ cmd' = [cmd EXCEPT ![m] = Idle]
    /\ UNCHANGED <<record, server, History, commands, events>>

Command(m) ==
    \/ Acquire(m) \/ Inspect(m) \/ StartAgain(m) \/ Spawn(m)
    \/ Await(m) \/ AwaitProbe(m) \/ AwaitAlive(m) \/ StartTimesOut(m) \/ StartFails(m)
    \/ Served(m) \/ StopRunning(m) \/ AwaitExit(m) \/ StopTimesOut(m)
    \/ Return(m) \/ Crash(m) \/ Reap(m)

-----------------------------------------------------------------------------
(* serve() and the end of a server *)

OnlyServer == UNCHANGED <<lock, cmd, History, commands>>

Boot(s) ==
    /\ Is(s, "booting") /\ OnlyServer /\ UNCHANGED record
    /\ \/ Turns(s, "listening") /\ UNCHANGED events
       \/ Turns(s, "exited") /\ Event

(* A save that fails, before or after it took effect, closes the server.    *)
Save(s) ==
    /\ Is(s, "listening") /\ OnlyServer
    /\ \/ Turns(s, "saved") /\ record' = s /\ UNCHANGED events
       \/ Turns(s, "exited") /\ record' \in {record, s} /\ Event

(* From here on a signal runs shutdown. *)
Listen(s) ==
    Is(s, "saved") /\ Turns(s, "serving") /\ OnlyServer /\ UNCHANGED <<record, events>>

Shutdown(s) ==
    Is(s, "asked") /\ Turns(s, "closing") /\ OnlyServer /\ UNCHANGED <<record, events>>

Close(s) ==
    Is(s, "closing") /\ Turns(s, "closed") /\ OnlyServer /\ UNCHANGED <<record, events>>

(* Mutant of Forget: the record of another server is left, and so is its own. *)
Forget_Keeps(s) ==
    Is(s, "closed") /\ Turns(s, "lingering") /\ OnlyServer /\ UNCHANGED <<record, events>>

(* remove(process.pid), without the lock: a load, then an unlink.  The      *)
(* failure of either is logged, and the server ends all the same.           *)
Forget(s) ==
    /\ Is(s, "closed") /\ OnlyServer /\ UNCHANGED record
    /\ \/ Turns(s, IF record = s THEN "unlinking" ELSE "lingering") /\ UNCHANGED events
       \/ Turns(s, "unforgotten") /\ Event

Unlink(s) ==
    /\ Is(s, "unlinking") /\ OnlyServer
    /\ \/ Turns(s, "lingering") /\ record' = Nobody /\ UNCHANGED events
       \/ Turns(s, "unforgotten") /\ UNCHANGED record /\ Event

Exit(s) ==
    /\ Is(s, "lingering") \/ Is(s, "unforgotten")
    /\ Turns(s, "exited") /\ OnlyServer /\ UNCHANGED <<record, events>>

Serve(s) ==
    Boot(s) \/ Save(s) \/ Listen(s) \/ Shutdown(s) \/ Close(s) \/ Forget(s) \/ Unlink(s) \/ Exit(s)

-----------------------------------------------------------------------------
(* The environment *)

(* The user or the system ends a server, with or without leave. *)
Signal(s) ==
    Up(s) /\ Event /\ Sends(s) /\ UNCHANGED <<lock, cmd, record, orphaned, raced, commands>>

Kill(s) ==
    Up(s) /\ Event /\ Turns(s, "killed") /\ OnlyServer /\ UNCHANGED record

(* A command that verified or spawned s, and may still signal it.           *)
AboutToSignal(m, s) ==
    /\ About(m) = s
    /\ Waits(m) \/ At(m, "running")

PidReused(s) ==
    /\ server[s] \in {"exited", "killed"} /\ Event /\ Turns(s, "reused")
    /\ raced' = (raced \/ \E m \in Manager : AboutToSignal(m, s))
    /\ UNCHANGED <<lock, cmd, record, orphaned, hurt, commands>>

Next ==
    \/ \E m \in Manager : Command(m)
    \/ \E s \in Server : Serve(s) \/ Signal(s) \/ Kill(s) \/ PidReused(s)

(* A server goes on with what it began, to the end of its shutdown. *)
Fairness == \A s \in Server : WF_vars(Serve(s))

Spec == Init /\ [][Next]_vars
FairSpec == Spec /\ Fairness

-----------------------------------------------------------------------------
(* Properties *)

(* A server that is meant to be there: it was not told to end. *)
Current == {s \in Server : Starting(s) \/ Is(s, "serving")}

(* Every variable keeps its type, and only the command that has the lock is *)
(* inside its operation.                                                    *)
TypeOK ==
    /\ lock \in Manager \cup {Nobody} /\ record \in Server \cup {Nobody}
    /\ \A m \in Manager :
          /\ cmd[m].op \in Ops /\ About(m) \in Server \cup {Nobody}
          /\ ~At(m, "idle") => lock = m
          /\ cmd[m].pc \notin {"idle", "load", "stopped", "crashed"} => About(m) \in Server

(* There is never a second server, whatever answers late, times out or      *)
(* ends, and a server that serves is the one in the record, so that stop    *)
(* and restart find it: unless a command that had spawned one ended early   *)
(* (web-process-manager.ts:92-107, 112-153, 177-186).                       *)
OneRecordedServer ==
    ~orphaned => \A s, t \in Current : s = t /\ (Is(s, "serving") => record = s)

(* A process that is not Norn's is signalled only if it took the pid of a   *)
(* server while the command that had verified or spawned that server was    *)
(* still running (web-process-manager.ts:155-175).                          *)
ForeignUnhurt == hurt => raced

(* A server that begins to close leaves no record behind, unless it is      *)
(* killed or the removal itself failed, which is only logged                *)
(* (web-process-manager.ts:99-106).                                         *)
ShutdownForgets ==
    \A s \in Server : Is(s, "closing")
        ~> record # s \/ server[s] \in {"unforgotten", "killed", "reused"}
=============================================================================
