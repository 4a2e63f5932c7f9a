-------------------------- MODULE WebProcessProofs --------------------------
(***************************************************************************)
(* What TLAPS proves of WebProcess, for any number of commands and servers.*)
(*                                                                         *)
(* The record and the server are two things that change at different       *)
(* times.  The inductive invariant says how far apart they may be while no *)
(* server was orphaned: a server is in the record, or one command attends  *)
(* to it and then it is the only one (Attended, Known); what an inspection *)
(* found in the record is still there or was removed by its own server,    *)
(* and is dead when the record is about to go (Inspected).                 *)
(***************************************************************************)
EXTENDS WebProcess, TLAPS

Pcs == {"idle", "load", "probe", "alive", "removeLoad", "removeUnlink", "stopped", "running",
        "unresponsive", "await", "awaitProbe", "awaitAlive", "serve", "awaitExit", "done",
        "crashed"}
Stages == {"unused", "booting", "listening", "saved", "serving", "asked", "closing", "closed",
           "unlinking", "unforgotten", "lingering", "exited", "killed", "reused"}

(* Types, and the lock. *)
Shape ==
    /\ lock \in Manager \cup {Nobody} /\ record \in Server \cup {Nobody}
    /\ server \in [Server -> Stages]
    /\ cmd \in [Manager -> [op : Ops, pc : Pcs, about : Server \cup {Nobody}]]
    /\ orphaned \in BOOLEAN /\ raced \in BOOLEAN /\ hurt \in BOOLEAN
    /\ \A m \in Manager :
          /\ ~At(m, "idle") => lock = m
          /\ cmd[m].pc \notin {"idle", "load", "stopped", "crashed"} => About(m) \in Server

(* m has a server that may not be in the record yet. *)
Attends(m) == Waits(m) \/ At(m, "serve")
Inspects(m) ==
    cmd[m].pc \in {"probe", "running", "awaitExit", "alive", "removeLoad", "removeUnlink"}

Attended ==
    \A m \in Manager : Attends(m) =>
        /\ \A s \in Server : Starting(s) \/ Is(s, "serving") => s = About(m)
        /\ record = About(m) \/ record = Nobody
        /\ At(m, "awaitProbe") /\ (Starting(About(m)) \/ Is(About(m), "serving"))
              => record = About(m)

Known ==
    \A s \in Server : Starting(s) \/ Is(s, "serving")
        => record = s \/ \E m \in Manager : Attends(m) /\ About(m) = s

Recorded ==
    \A s \in Server : server[s] \in {"saved", "serving", "unlinking"} => record = s

Inspected ==
    \A m \in Manager :
        /\ Inspects(m) => record = About(m) \/ record = Nobody
        /\ At(m, "removeLoad") \/ At(m, "removeUnlink") => ~Up(About(m))
        /\ At(m, "removeUnlink") => record = About(m)

Stopped ==
    \A m \in Manager : At(m, "stopped") =>
        record = Nobody /\ \A s \in Server : ~Starting(s) /\ ~Is(s, "serving")

Safe == Attended /\ Known /\ Recorded /\ Inspected /\ Stopped
IInv == Shape /\ (~orphaned => Safe)

-----------------------------------------------------------------------------
LEMMA Initially == Init => IInv
<1> SUFFICES ASSUME Init PROVE IInv
  OBVIOUS
<1> USE ConstantsAssumption DEF Init, Idle, At, About
<1>1. Shape
  BY DEF Shape, Ops, Pcs, Stages
<1>2. \A m \in Manager : cmd[m].pc = "idle"
  OBVIOUS
<1>3. Attended /\ Inspected /\ Stopped
  BY <1>2 DEF Attended, Inspected, Stopped, Attends, Inspects, Waits
<1>4. Known /\ Recorded
  BY DEF Known, Recorded, Starting, Is
<1> QED
  BY <1>1, <1>3, <1>4 DEF IInv, Safe

LEMMA ShapeStep ==
    ASSUME Shape, [Next]_vars
    PROVE  Shape'
<1> USE ConstantsAssumption DEF Shape, Pcs, Stages, Ops, Idle, At, About, Is, Turns, Goes, OnlyCmd,
        OnlyServer, History, Event
<1>1. ASSUME NEW m \in Manager, Acquire(m) PROVE Shape'
  BY <1>1 DEF Acquire
<1>2. ASSUME NEW m \in Manager, Load(m) PROVE Shape'
  BY <1>2 DEF Load
<1>3. ASSUME NEW m \in Manager, Probe(m) PROVE Shape'
  BY <1>3 DEF Probe, Answers, DoesNotAnswer
<1>4. ASSUME NEW m \in Manager, CheckAlive(m) PROVE Shape'
  BY <1>4 DEF CheckAlive
<1>5. ASSUME NEW m \in Manager, RemoveLoad(m) PROVE Shape'
  BY <1>5 DEF RemoveLoad
<1>6. ASSUME NEW m \in Manager, RemoveUnlink(m) PROVE Shape'
  BY <1>6 DEF RemoveUnlink
<1>7. ASSUME NEW m \in Manager, StartAgain(m) PROVE Shape'
  BY <1>7 DEF StartAgain
<1>8. ASSUME NEW m \in Manager, Spawn(m) PROVE Shape'
  BY <1>8 DEF Spawn
<1>9. ASSUME NEW m \in Manager, Await(m) PROVE Shape'
  BY <1>9 DEF Await
<1>10. ASSUME NEW m \in Manager, AwaitProbe(m) PROVE Shape'
  BY <1>10 DEF AwaitProbe, Answers, DoesNotAnswer
<1>11. ASSUME NEW m \in Manager, AwaitAlive(m) PROVE Shape'
  BY <1>11 DEF AwaitAlive
<1>12. ASSUME NEW m \in Manager, StartTimesOut(m) PROVE Shape'
  BY <1>12 DEF StartTimesOut, Sends, NoSuchProcess
<1>13. ASSUME NEW m \in Manager, StartFails(m) PROVE Shape'
  BY <1>13 DEF StartFails
<1>14. ASSUME NEW m \in Manager, Served(m) PROVE Shape'
  BY <1>14 DEF Served
<1>15. ASSUME NEW m \in Manager, StopRunning(m) PROVE Shape'
  <2>1. About(m) \in Server
    BY <1>15 DEF StopRunning
  <2>2. CASE Sends(About(m)) /\ Goes(m, "awaitExit")
    BY <1>15, <2>1, <2>2 DEF StopRunning, Sends
  <2>3. CASE NoSuchProcess(About(m)) /\ Goes(m, "done")
    BY <1>15, <2>1, <2>3 DEF StopRunning, NoSuchProcess
  <2> QED
    BY <1>15, <2>2, <2>3 DEF StopRunning
<1>16. ASSUME NEW m \in Manager, AwaitExit(m) PROVE Shape'
  BY <1>16 DEF AwaitExit
<1>17. ASSUME NEW m \in Manager, StopTimesOut(m) PROVE Shape'
  BY <1>17 DEF StopTimesOut
<1>18. ASSUME NEW m \in Manager, Return(m) PROVE Shape'
  BY <1>18 DEF Return, Ends
<1>19. ASSUME NEW m \in Manager, Crash(m) PROVE Shape'
  BY <1>19 DEF Crash
<1>20. ASSUME NEW m \in Manager, Reap(m) PROVE Shape'
  BY <1>20 DEF Reap
<1>21. ASSUME NEW s \in Server, Boot(s) PROVE Shape'
  BY <1>21 DEF Boot
<1>22. ASSUME NEW s \in Server, Save(s) PROVE Shape'
  BY <1>22 DEF Save
<1>23. ASSUME NEW s \in Server, Listen(s) PROVE Shape'
  BY <1>23 DEF Listen
<1>24. ASSUME NEW s \in Server, Shutdown(s) PROVE Shape'
  BY <1>24 DEF Shutdown
<1>25. ASSUME NEW s \in Server, Close(s) PROVE Shape'
  BY <1>25 DEF Close
<1>26. ASSUME NEW s \in Server, Forget(s) PROVE Shape'
  BY <1>26 DEF Forget
<1>27. ASSUME NEW s \in Server, Unlink(s) PROVE Shape'
  BY <1>27 DEF Unlink
<1>28. ASSUME NEW s \in Server, Exit(s) PROVE Shape'
  BY <1>28 DEF Exit
<1>29. ASSUME NEW s \in Server, Signal(s) PROVE Shape'
  BY <1>29 DEF Signal, Sends
<1>30. ASSUME NEW s \in Server, Kill(s) PROVE Shape'
  BY <1>30 DEF Kill
<1>31. ASSUME NEW s \in Server, PidReused(s) PROVE Shape'
  BY <1>31 DEF PidReused
<1>32. CASE UNCHANGED vars
  BY <1>32 DEF vars
<1> QED
  BY <1>1, <1>2, <1>3, <1>4, <1>5, <1>6, <1>7, <1>8, <1>9, <1>10, <1>11, <1>12, <1>13, <1>14, <1>15, <1>16, <1>17, <1>18, <1>19, <1>20, <1>21, <1>22, <1>23, <1>24, <1>25, <1>26, <1>27, <1>28, <1>29, <1>30, <1>31, <1>32 DEF Next, Command, Inspect, Serve

(* Servers that begin to end leave the record as it is. *)
LEMMA EndingKeepsRecord ==
    ASSUME Known, Recorded, record' = record, \A m \in Manager : ~Attends(m),
           \A s \in Server : server'[s] # server[s] => server'[s] \in {"asked", "killed"}
    PROVE  Known' /\ Recorded'
BY DEF Known, Recorded, Starting, Is

LEMMA SafeStep ==
    ASSUME Shape, Shape', Safe, ~orphaned', [Next]_vars
    PROVE  Safe'
<1> USE ConstantsAssumption DEF Shape, Safe, Attended, Known, Recorded, Inspected, Stopped, Attends,
        Inspects, Waits, Starting, Ending, Up, PidAlive, At, About, Is, Turns, Goes, OnlyCmd,
        OnlyServer, History, Event
<1>1. ASSUME NEW m \in Manager, Acquire(m) PROVE Safe'
  BY <1>1 DEF Acquire, Idle
<1>2. ASSUME NEW m \in Manager, Load(m) PROVE Safe'
  BY <1>2 DEF Load
<1>3. ASSUME NEW m \in Manager, Probe(m) PROVE Safe'
  BY <1>3 DEF Probe, Answers, DoesNotAnswer, Healthy
<1>4. ASSUME NEW m \in Manager, CheckAlive(m) PROVE Safe'
  <2>1. /\ At(m, "alive") /\ lock = m /\ UNCHANGED <<record, server>>
        /\ \/ cmd' = [cmd EXCEPT ![m].pc = "unresponsive"]
           \/ ~Up(About(m)) /\ cmd' = [cmd EXCEPT ![m].pc = "removeLoad"]
    BY <1>4 DEF CheckAlive
  <2>2. \A n \in Manager : ~Attends(n) /\ ~Attends(n)' /\ ~At(n, "stopped")'
    BY <2>1
  <2>3. Known' /\ Recorded'
    <3> HIDE DEF Safe, Attended, Known, Recorded, Inspected, Stopped, Attends, Starting, Shape
    <3>1. Known /\ Recorded
      BY DEF Safe
    <3> QED
      BY <2>1, <2>2, <3>1, EndingKeepsRecord
  <2>4. Attended' /\ Stopped'
    BY <2>2
  <2>5. Inspected'
    BY <2>1
  <2> QED
    BY <2>3, <2>4, <2>5
<1>5. ASSUME NEW m \in Manager, RemoveLoad(m) PROVE Safe'
  BY <1>5 DEF RemoveLoad
<1>6. ASSUME NEW m \in Manager, RemoveUnlink(m) PROVE Safe'
  BY <1>6 DEF RemoveUnlink
<1>7. ASSUME NEW m \in Manager, StartAgain(m) PROVE Safe'
  BY <1>7 DEF StartAgain
<1>8. ASSUME NEW m \in Manager, Spawn(m) PROVE Safe'
  BY <1>8 DEF Spawn
<1>9. ASSUME NEW m \in Manager, Await(m) PROVE Safe'
  BY <1>9 DEF Await
<1>10. ASSUME NEW m \in Manager, AwaitProbe(m) PROVE Safe'
  BY <1>10 DEF AwaitProbe, Answers, DoesNotAnswer, Healthy
<1>11. ASSUME NEW m \in Manager, AwaitAlive(m) PROVE Safe'
  <2>1. CASE PidAlive(About(m))
    <3>1. /\ cmd' = [cmd EXCEPT ![m].pc = "await"] /\ UNCHANGED <<record, server>>
          /\ At(m, "awaitAlive") /\ lock = m
      BY <1>11, <2>1 DEF AwaitAlive
    <3>2. \A n \in Manager : Attends(n) <=> n = m
      BY <3>1
    <3>3. /\ \A n \in Manager : Attends(n)' <=> n = m
          /\ \A n \in Manager \ {m} : ~Inspects(n)' /\ ~At(n, "stopped")'
          /\ ~Inspects(m)' /\ ~At(m, "stopped")' /\ About(m)' = About(m) /\ ~At(m, "awaitProbe")'
      BY <3>1
    <3>4. Attended'
      BY <3>1, <3>2, <3>3
    <3>5. Known' /\ Recorded'
      BY <3>1, <3>2, <3>3
    <3>6. Inspected' /\ Stopped'
      BY <3>1, <3>3
    <3> QED
      BY <3>4, <3>5, <3>6
  <2>2. CASE ~PidAlive(About(m))
    <3>1. /\ cmd' = [cmd EXCEPT ![m].pc = "done"] /\ UNCHANGED <<record, server>>
          /\ Attends(m) /\ lock = m
      BY <1>11, <2>2 DEF AwaitAlive
    <3>2. \A s \in Server : ~Starting(s) /\ ~Is(s, "serving")
      BY <2>2, <3>1
    <3> QED
      BY <3>1, <3>2
  <2> QED
    BY <2>1, <2>2
<1>12. ASSUME NEW m \in Manager, StartTimesOut(m) PROVE Safe'
  BY <1>12 DEF StartTimesOut, Sends, NoSuchProcess
<1>13. ASSUME NEW m \in Manager, StartFails(m) PROVE Safe'
  BY <1>13 DEF StartFails
<1>14. ASSUME NEW m \in Manager, Served(m) PROVE Safe'
  BY <1>14 DEF Served
<1>15. ASSUME NEW m \in Manager, StopRunning(m) PROVE Safe'
  <2>1. /\ At(m, "running") /\ lock = m /\ record' = record /\ About(m) \in Server
        /\ \/ cmd' = [cmd EXCEPT ![m].pc = "awaitExit"]
           \/ cmd' = [cmd EXCEPT ![m].pc = "done"]
    BY <1>15 DEF StopRunning
  <2>2. \A n \in Manager : ~Attends(n) /\ ~Attends(n)' /\ ~At(n, "stopped")'
    BY <2>1
  <2>3. \A s \in Server : server'[s] # server[s] => server'[s] \in {"asked", "killed"}
    <3>1. \/ server' = server
          \/ server' = [server EXCEPT ![About(m)] = "asked"]
          \/ server' = [server EXCEPT ![About(m)] = "killed"]
      BY <1>15 DEF StopRunning, Sends, NoSuchProcess
    <3> QED
      BY <2>1, <3>1
  <2>4. Attended' /\ Stopped'
    BY <2>2
  <2>5. Known' /\ Recorded'
    <3> HIDE DEF Safe, Attended, Known, Recorded, Inspected, Stopped, Attends, Starting, Shape
    <3>1. Known /\ Recorded
      BY DEF Safe
    <3> QED
      BY <2>1, <2>2, <2>3, <3>1, EndingKeepsRecord
  <2>6. Inspected'
    BY <2>1, <2>3
  <2> QED
    BY <2>4, <2>5, <2>6
<1>16. ASSUME NEW m \in Manager, AwaitExit(m) PROVE Safe'
  BY <1>16 DEF AwaitExit
<1>17. ASSUME NEW m \in Manager, StopTimesOut(m) PROVE Safe'
  BY <1>17 DEF StopTimesOut
<1>18. ASSUME NEW m \in Manager, Return(m) PROVE Safe'
  BY <1>18 DEF Return, Ends, Idle
<1>19. ASSUME NEW m \in Manager, Crash(m) PROVE Safe'
  <2>1. /\ cmd' = [cmd EXCEPT ![m].pc = "crashed"] /\ record' = record
        /\ lock = m /\ ~Waits(m)
    BY <1>19 DEF Crash
  <2>2. CASE At(m, "serve") /\ Up(About(m))
    <3>1. About(m) \in Server /\ server' = [server EXCEPT ![About(m)] = "killed"]
      BY <1>19, <2>2 DEF Crash
    <3>2. \A s \in Server : ~Starting(s)' /\ ~Is(s, "serving")'
      BY <2>2, <3>1
    <3> QED
      BY <2>1, <3>1, <3>2
  <2>3. CASE ~(At(m, "serve") /\ Up(About(m)))
    <3>1. server' = server
      BY <1>19, <2>3 DEF Crash
    <3>2. At(m, "serve") => \A s \in Server : ~Starting(s) /\ ~Is(s, "serving")
      BY <2>3
    <3> QED
      BY <2>1, <3>1, <3>2
  <2> QED
    BY <2>2, <2>3
<1>20. ASSUME NEW m \in Manager, Reap(m) PROVE Safe'
  BY <1>20 DEF Reap, Idle
<1>21. ASSUME NEW s \in Server, Boot(s) PROVE Safe'
  BY <1>21 DEF Boot
<1>22. ASSUME NEW s \in Server, Save(s) PROVE Safe'
  BY <1>22 DEF Save
<1>23. ASSUME NEW s \in Server, Listen(s) PROVE Safe'
  BY <1>23 DEF Listen
<1>24. ASSUME NEW s \in Server, Shutdown(s) PROVE Safe'
  BY <1>24 DEF Shutdown
<1>25. ASSUME NEW s \in Server, Close(s) PROVE Safe'
  BY <1>25 DEF Close
<1>26. ASSUME NEW s \in Server, Forget(s) PROVE Safe'
  BY <1>26 DEF Forget
<1>27. ASSUME NEW s \in Server, Unlink(s) PROVE Safe'
  BY <1>27 DEF Unlink
<1>28. ASSUME NEW s \in Server, Exit(s) PROVE Safe'
  BY <1>28 DEF Exit
<1>29. ASSUME NEW s \in Server, Signal(s) PROVE Safe'
  BY <1>29 DEF Signal, Sends
<1>30. ASSUME NEW s \in Server, Kill(s) PROVE Safe'
  BY <1>30 DEF Kill
<1>31. ASSUME NEW s \in Server, PidReused(s) PROVE Safe'
  BY <1>31 DEF PidReused
<1>32. CASE UNCHANGED vars
  BY <1>32 DEF vars
<1> QED
  BY <1>1, <1>2, <1>3, <1>4, <1>5, <1>6, <1>7, <1>8, <1>9, <1>10, <1>11, <1>12, <1>13, <1>14, <1>15, <1>16, <1>17, <1>18, <1>19, <1>20, <1>21, <1>22, <1>23, <1>24, <1>25, <1>26, <1>27, <1>28, <1>29, <1>30, <1>31, <1>32 DEF Next, Command, Inspect, Serve

(* IInv holds in every state: the strengthening the theorems rest on. *)
LEMMA Invariance == Spec => []IInv
<1>1. IInv /\ [Next]_vars => IInv'
  <2> SUFFICES ASSUME IInv, [Next]_vars PROVE IInv'
    OBVIOUS
  <2>1. Shape'
    BY ShapeStep DEF IInv
  <2>2. orphaned => orphaned'
    BY DEF Next, Command, Serve, Inspect, vars, OnlyCmd, OnlyServer, History, Acquire, Load, Probe,
        CheckAlive, RemoveLoad, RemoveUnlink, StartAgain, Spawn, Await, AwaitProbe, AwaitAlive,
        StartTimesOut, StartFails, Served, StopRunning, AwaitExit, StopTimesOut, Return, Crash,
        Reap, Boot, Save, Listen, Shutdown, Close, Forget, Unlink, Exit, Signal, Kill, PidReused
  <2>3. ~orphaned' => Safe'
    BY <2>1, <2>2, SafeStep DEF IInv
  <2> QED
    BY <2>1, <2>3 DEF IInv
<1> QED
  BY Initially, <1>1, PTL DEF Spec

-----------------------------------------------------------------------------
(* The types, and only the command with the lock is inside its operation.   *)
THEOREM TypeCorrect == Spec => []TypeOK
<1>1. IInv => TypeOK
  BY DEF IInv, Shape, TypeOK, About, At
<1> QED
  BY Invariance, <1>1, PTL

(* Any number of commands, restarts, timeouts, kills and reused pids never  *)
(* make a second server or lose one that serves, if no start() ends between *)
(* its spawn and its answer.                                                *)
THEOREM OneServer == Spec => []OneRecordedServer
<1>1. IInv => OneRecordedServer
  <2> SUFFICES ASSUME IInv, ~orphaned, NEW s \in Current, NEW t \in Current
               PROVE  s = t /\ (Is(s, "serving") => record = s)
    BY DEF OneRecordedServer
  <2>1. s \in Server /\ t \in Server
    BY DEF Current
  <2>2. s = t
    <3>1. CASE \E m \in Manager : Attends(m)
      BY <2>1, <3>1 DEF IInv, Safe, Attended, Current
    <3>2. CASE ~\E m \in Manager : Attends(m)
      BY <2>1, <3>2 DEF IInv, Safe, Known, Current
    <3> QED
      BY <3>1, <3>2
  <2>3. Is(s, "serving") => record = s
    BY <2>1 DEF IInv, Safe, Recorded, Is
  <2> QED
    BY <2>2, <2>3
<1> QED
  BY Invariance, <1>1, PTL

-----------------------------------------------------------------------------
(* The pid of a server that a command is about to signal is that server's,  *)
(* or it passed on under the eyes of that command.                          *)
PidsKnown ==
    /\ hurt => raced
    /\ \A m \in Manager : (Waits(m) \/ At(m, "running")) /\ Is(About(m), "reused") => raced

LEMMA PidsStep ==
    ASSUME Shape, Shape', PidsKnown, [Next]_vars
    PROVE  PidsKnown'
<1> USE ConstantsAssumption DEF Shape, PidsKnown, Waits, Starting, Ending, Up, PidAlive, At, About,
        Is, Turns, Goes, OnlyCmd, OnlyServer, History, Event
<1>1. ASSUME NEW m \in Manager, Acquire(m) PROVE PidsKnown'
  BY <1>1 DEF Acquire, Idle
<1>2. ASSUME NEW m \in Manager, Load(m) PROVE PidsKnown'
  BY <1>2 DEF Load
<1>3. ASSUME NEW m \in Manager, Probe(m) PROVE PidsKnown'
  <2>1. CASE Answers(About(m)) /\ Goes(m, "running")
    <3>1. ~Is(About(m), "reused")
      BY <2>1 DEF Answers, Healthy
    <3> QED
      BY <1>3, <2>1, <3>1 DEF Probe
  <2>2. CASE Goes(m, "alive")
    BY <1>3, <2>2 DEF Probe
  <2> QED
    BY <1>3, <2>1, <2>2 DEF Probe
<1>4. ASSUME NEW m \in Manager, CheckAlive(m) PROVE PidsKnown'
  BY <1>4 DEF CheckAlive
<1>5. ASSUME NEW m \in Manager, RemoveLoad(m) PROVE PidsKnown'
  BY <1>5 DEF RemoveLoad
<1>6. ASSUME NEW m \in Manager, RemoveUnlink(m) PROVE PidsKnown'
  BY <1>6 DEF RemoveUnlink
<1>7. ASSUME NEW m \in Manager, StartAgain(m) PROVE PidsKnown'
  BY <1>7 DEF StartAgain
<1>8. ASSUME NEW m \in Manager, Spawn(m) PROVE PidsKnown'
  BY <1>8 DEF Spawn
<1>9. ASSUME NEW m \in Manager, Await(m) PROVE PidsKnown'
  BY <1>9 DEF Await
<1>10. ASSUME NEW m \in Manager, AwaitProbe(m) PROVE PidsKnown'
  BY <1>10 DEF AwaitProbe, Answers, DoesNotAnswer, Healthy
<1>11. ASSUME NEW m \in Manager, AwaitAlive(m) PROVE PidsKnown'
  BY <1>11 DEF AwaitAlive
<1>12. ASSUME NEW m \in Manager, StartTimesOut(m) PROVE PidsKnown'
  BY <1>12 DEF StartTimesOut, Sends, NoSuchProcess
<1>13. ASSUME NEW m \in Manager, StartFails(m) PROVE PidsKnown'
  BY <1>13 DEF StartFails
<1>14. ASSUME NEW m \in Manager, Served(m) PROVE PidsKnown'
  BY <1>14 DEF Served
<1>15. ASSUME NEW m \in Manager, StopRunning(m) PROVE PidsKnown'
  BY <1>15 DEF StopRunning, Sends, NoSuchProcess
<1>16. ASSUME NEW m \in Manager, AwaitExit(m) PROVE PidsKnown'
  BY <1>16 DEF AwaitExit
<1>17. ASSUME NEW m \in Manager, StopTimesOut(m) PROVE PidsKnown'
  BY <1>17 DEF StopTimesOut
<1>18. ASSUME NEW m \in Manager, Return(m) PROVE PidsKnown'
  BY <1>18 DEF Return, Ends, Idle
<1>19. ASSUME NEW m \in Manager, Crash(m) PROVE PidsKnown'
  BY <1>19 DEF Crash
<1>20. ASSUME NEW m \in Manager, Reap(m) PROVE PidsKnown'
  BY <1>20 DEF Reap, Idle
<1>21. ASSUME NEW s \in Server, Boot(s) PROVE PidsKnown'
  BY <1>21 DEF Boot
<1>22. ASSUME NEW s \in Server, Save(s) PROVE PidsKnown'
  BY <1>22 DEF Save
<1>23. ASSUME NEW s \in Server, Listen(s) PROVE PidsKnown'
  BY <1>23 DEF Listen
<1>24. ASSUME NEW s \in Server, Shutdown(s) PROVE PidsKnown'
  BY <1>24 DEF Shutdown
<1>25. ASSUME NEW s \in Server, Close(s) PROVE PidsKnown'
  BY <1>25 DEF Close
<1>26. ASSUME NEW s \in Server, Forget(s) PROVE PidsKnown'
  BY <1>26 DEF Forget
<1>27. ASSUME NEW s \in Server, Unlink(s) PROVE PidsKnown'
  BY <1>27 DEF Unlink
<1>28. ASSUME NEW s \in Server, Exit(s) PROVE PidsKnown'
  BY <1>28 DEF Exit
<1>29. ASSUME NEW s \in Server, Signal(s) PROVE PidsKnown'
  BY <1>29 DEF Signal, Sends
<1>30. ASSUME NEW s \in Server, Kill(s) PROVE PidsKnown'
  BY <1>30 DEF Kill
<1>31. ASSUME NEW s \in Server, PidReused(s) PROVE PidsKnown'
  BY <1>31 DEF PidReused, AboutToSignal
<1>32. CASE UNCHANGED vars
  BY <1>32 DEF vars
<1> QED
  BY <1>1, <1>2, <1>3, <1>4, <1>5, <1>6, <1>7, <1>8, <1>9, <1>10, <1>11, <1>12, <1>13, <1>14, <1>15, <1>16, <1>17, <1>18, <1>19, <1>20, <1>21, <1>22, <1>23, <1>24, <1>25, <1>26, <1>27, <1>28, <1>29, <1>30, <1>31, <1>32 DEF Next, Command, Inspect, Serve

(* No command signals a process that is not Norn's, but for a pid that      *)
(* passed on between the command's own check and its signal.                *)
THEOREM ForeignNeverSignalled == Spec => []ForeignUnhurt
<1>1. Init => PidsKnown
  BY DEF Init, PidsKnown, Idle, At, About, Waits, Is
<1>2. IInv /\ IInv' /\ PidsKnown /\ [Next]_vars => PidsKnown'
  BY PidsStep DEF IInv
<1>3. PidsKnown => ForeignUnhurt
  BY DEF PidsKnown, ForeignUnhurt
<1> QED
  BY Invariance, <1>1, <1>2, <1>3, PTL DEF Spec
=============================================================================
