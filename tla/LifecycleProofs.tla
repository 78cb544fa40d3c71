--------------------------- MODULE LifecycleProofs ---------------------------
(***************************************************************************)
(* Startup and Close, for every interleaving of serve, startup's work, the *)
(* server and the refresh loop: who closes the sources, and that nothing   *)
(* is read or listened to past the step of Close that ends it.             *)
(*                                                                         *)
(* The invariant says, at every point of serve in root.go, where startup's *)
(* work may be, who is left to close the sources, and what Close has done. *)
(***************************************************************************)
EXTENDS Lifecycle, TLAPS

\* Past the mutual exclusion of Close: it was marked, and is under way.
Closing == {"cancel", "cancelServing", "wind", "windServing", "library",
            "listener", "kdc", "sources", "await"}

\* A Close that finds itself done: runUntil's came before the deferred one.
SecondClose == main = "mark" /\ closed

\* Close is marked once, on the way out; the context ends after it is marked.
CloseIsMarked ==
  /\ main \in Closing => closed
  /\ closed => main \in Closing \cup {"mark", "exited"}
  /\ cancelled => closed

\* The flags under startup's mutex say where its work is, and only a serve that
\* has left is not waiting for it.
WorkIsAwaited ==
  /\ work.at = "none" <=> main = "startup"
  /\ finished <=> work.at \in {"sweep", "ended"}
  /\ main \notin {"startup", "wait", "exited"} => work.at = "ended"
  /\ work.at = "sweep" => main = "exited"
  /\ abandoned => main \in {"tooLate", "exited"}
  /\ main = "exited" /\ work.at \in {"reading", "mark"} => abandoned

\* Who has closed the sources: nobody, until serve has left and its work with
\* it, or Close came to its end.
SourcesClosed ==
  closings = IF \/ main = "exited" /\ work.at = "ended"
                \/ main = "await" \/ SecondClose
             THEN 1 ELSE 0

\* Close has waited for the refresh loop.
WaitedForLoop ==
  \/ main \in {"library", "listener", "kdc", "sources", "await"} \/ SecondClose
  \/ main = "exited" /\ cancelled

LoopIsOver == WaitedForLoop => loop \in {"none", "ended"}

\* The listener is opened by listen and closed by Close, whoever serves it.
ListenerIsOver ==
  /\ main \in {"startup", "wait", "tooLate", "listen"} => sock["ldap"] = "unset"
  /\ main \in {"kdc", "sources", "await", "exited"} \/ SecondClose
       => sock["ldap"] # "open"

LifeInv == /\ TypeOK
           /\ CloseIsMarked /\ WorkIsAwaited /\ SourcesClosed
           /\ LoopIsOver /\ ListenerIsOver

------------------------------------------------------------------------------
\* What the goroutines beside serve leave alone: only serve moves on, closes
\* and cancels, and only it and startup's work have to do with startup.
LEMMA Beside ==
  ASSUME TypeOK,
         Serve \/ Library \/ World \/ WriterGives \/ Loop \/ LoopTicks \/ WorkerEnds
  PROVE  UNCHANGED <<main, boot, closed, cancelled>> /\ UNCHANGED sock["ldap"]
<1>1. CASE Serve
  BY <1>1 DEF Serve, StartServing, Spawn, Stopped, ClearServing, boot
<1>2. CASE Library
  BY <1>2 DEF Library, Track, AcceptEnds, server, boot
<1>3. CASE World
  <2>1. ASSUME NEW t \in Transports, TransportStarts(t) \/ TransportEnds(t)
        PROVE  UNCHANGED <<main, boot, closed, cancelled>> /\ UNCHANGED sock["ldap"]
    BY <2>1 DEF TransportStarts, TransportEnds, Transports, TypeOK, Sockets, server, boot
  <2> QED
    BY <1>3, <2>1 DEF World, Signal, WriterTakes, Accept, Hangup, AcceptDies, server, boot
<1>4. CASE WriterGives \/ Loop \/ LoopTicks \/ WorkerEnds
  BY <1>4 DEF WriterGives, Loop, LoopReturns, LoopEnds, LoopTicks, WorkerEnds, server,
              boot
<1> QED
  BY <1>1, <1>2, <1>3, <1>4

\* What startup's work leaves alone.
LEMMA OnlyStartup ==
  ASSUME Work
  PROVE  UNCHANGED <<main, closed, cancelled, sock, loop>>
BY DEF Work, WorkEnds, WorkMarks, WorkSweeps, server, refresh

------------------------------------------------------------------------------
\* Every step keeps who may close what, and where Close is.
LEMMA ControlStep ==
  ASSUME LifeInv, [Next]_vars
  PROVE  CloseIsMarked' /\ WorkIsAwaited' /\ SourcesClosed'
<1> USE DEF LifeInv, CloseIsMarked, Closing, WorkIsAwaited, SourcesClosed, SecondClose
<1>1. CASE WorkEnds
  BY <1>1 DEF WorkEnds, TypeOK, boot, server, asked
<1>2. CASE WorkMarks
  BY <1>2 DEF WorkMarks, TypeOK, boot, server, asked
<1>3. CASE WorkSweeps
  BY <1>3 DEF WorkSweeps, TypeOK, boot, server, asked
<1>4. CASE StartWork
  BY <1>4 DEF StartWork, TypeOK, boot, server, asked
<1>5. CASE TakeResult
  BY <1>5 DEF TakeResult, TypeOK, boot, server, asked
<1>6. CASE TimeOut
  BY <1>6 DEF TimeOut, TypeOK, boot, server, asked
<1>7. CASE CloseLate
  BY <1>7 DEF CloseLate, TypeOK, boot, server, asked
<1>8. CASE ListenDirectory
  BY <1>8 DEF ListenDirectory, TypeOK, boot, server, asked
<1>9. CASE ListenRealm
  BY <1>9 DEF ListenRealm, TypeOK, boot, server, asked
<1>10. CASE Run
  BY <1>10 DEF Run, TypeOK, boot, server, asked
<1>11. CASE Selected
  BY <1>11 DEF Selected, TypeOK, boot, server, asked
<1>12. CASE Await
  BY <1>12 DEF Await, TypeOK, boot, server, asked
<1>13. CASE Mark
  BY <1>13 DEF Mark, TypeOK, boot, server, asked
<1>14. CASE Cancel
  BY <1>14 DEF Cancel, TypeOK, boot, server, asked
<1>15. CASE WaitForLoop
  BY <1>15 DEF WaitForLoop, TypeOK, boot, server, asked
<1>16. CASE CloseLibrary
  BY <1>16 DEF CloseLibrary, TypeOK, boot, server, asked
<1>17. CASE CloseListener
  BY <1>17 DEF CloseListener, TypeOK, boot, server, asked
<1>18. CASE CloseRealm
  BY <1>18 DEF CloseRealm, TypeOK, boot, server, asked
<1>19. CASE CloseSources
  BY <1>19 DEF CloseSources, TypeOK, boot, server, asked
<1>20. CASE UNCHANGED <<main, boot, closed, cancelled>>
  BY <1>20 DEF boot
<1> QED
  BY <1>1, <1>2, <1>3, <1>4, <1>5, <1>6, <1>7, <1>8, <1>9, <1>10, <1>11, <1>12,
     <1>13, <1>14, <1>15, <1>16, <1>17, <1>18, <1>19, <1>20, Beside
     DEF Next, Main, Work, vars, server

\* No step lets the refresh loop go on, or start, past Close's wait for it:
\* StartServing finds the server closed.
LEMMA LoopStep ==
  ASSUME LifeInv, [Next]_vars
  PROVE  LoopIsOver'
<1> USE DEF LifeInv, LoopIsOver, WaitedForLoop, SecondClose
<1>1. CASE WaitForLoop
  BY <1>1 DEF WaitForLoop, refresh
<1>2. CASE StartServing
  <2>1. UNCHANGED <<main, closed, cancelled>> /\ (closed => UNCHANGED loop)
    BY <1>2 DEF StartServing
  <2>2. WaitedForLoop => closed
    BY DEF CloseIsMarked, Closing
  <2> QED
    BY <2>1, <2>2
<1>3. CASE LoopTicks \/ Loop \/ WorkerEnds
  <2>1. /\ UNCHANGED <<main, closed, cancelled>>
        /\ loop \in {"none", "ended"} => loop' \in {"none", "ended"}
    BY <1>3 DEF LoopTicks, Loop, LoopReturns, LoopEnds, WorkerEnds, server
  <2> QED
    BY <2>1
<1>4. CASE Mark
  <2>1. /\ UNCHANGED <<cancelled, loop>> /\ main = "mark"
        /\ main' = IF closed THEN "exited" ELSE IF serving THEN "cancelServing" ELSE "cancel"
    BY <1>4 DEF Mark, refresh
  <2> QED
    BY <2>1
<1>5. CASE Cancel
  BY <1>5 DEF Cancel, refresh
<1>6. CASE CloseLibrary \/ CloseListener \/ CloseRealm \/ CloseSources \/ Await
  <2>1. WaitedForLoop /\ UNCHANGED loop
    BY <1>6 DEF CloseLibrary, CloseListener, CloseRealm, CloseSources, Await, refresh
  <2> QED
    BY <2>1
<1>7. CASE \/ StartWork \/ TakeResult \/ TimeOut \/ CloseLate
           \/ ListenDirectory \/ ListenRealm \/ Run \/ Selected
  <2>1. main \notin Closing \cup {"mark", "exited"}
    BY <1>7 DEF StartWork, TakeResult, TimeOut, CloseLate, ListenDirectory, ListenRealm,
                Run, Selected, Closing
  <2>2. ~closed /\ ~cancelled
    BY <2>1 DEF CloseIsMarked
  <2>3. /\ UNCHANGED <<closed, cancelled>>
        /\ main' \in {"wait", "exited", "listen", "tooLate", "mark", "realm", "run", "select"}
    BY <1>7 DEF StartWork, TakeResult, TimeOut, CloseLate, ListenDirectory, ListenRealm,
                Run, Selected, server
  <2> QED
    BY <2>2, <2>3
<1>8. CASE UNCHANGED <<main, closed, cancelled, loop>>
  BY <1>8
<1>9. \/ WaitForLoop \/ StartServing \/ LoopTicks \/ Loop \/ WorkerEnds \/ Mark \/ Cancel
      \/ CloseLibrary \/ CloseListener \/ CloseRealm \/ CloseSources \/ Await
      \/ StartWork \/ TakeResult \/ TimeOut \/ CloseLate
      \/ ListenDirectory \/ ListenRealm \/ Run \/ Selected
      \/ UNCHANGED <<main, closed, cancelled, loop>>
  <2>1. CASE Serve \/ Library \/ World \/ WriterGives
    <3>1. StartServing \/ UNCHANGED loop
      BY <2>1 DEF Serve, Spawn, Stopped, ClearServing, Library, Track, AcceptEnds,
                  World, Signal, WriterTakes, Accept, Hangup, AcceptDies,
                  TransportStarts, TransportEnds, WriterGives, refresh
    <3> QED
      BY <2>1, <3>1, Beside
  <2> QED
    BY <2>1, OnlyStartup DEF Next, Main, vars, server, refresh
<1> QED
  BY <1>1, <1>2, <1>3, <1>4, <1>5, <1>6, <1>7, <1>8, <1>9

\* Close frees the port on every way to its end: the library closes a listener
\* it tracks, and s.ln.Close every other.
LEMMA ListenerStep ==
  ASSUME LifeInv, [Next]_vars
  PROVE  ListenerIsOver'
<1> USE DEF LifeInv, ListenerIsOver, SecondClose, TypeOK, Sockets
<1>1. CASE ListenDirectory
  BY <1>1 DEF ListenDirectory, server, CloseIsMarked, Closing
<1>2. CASE ListenRealm
  BY <1>2 DEF ListenRealm, server, CloseIsMarked, Closing
<1>3. CASE CloseLibrary
  BY <1>3 DEF CloseLibrary, server
<1>4. CASE CloseListener
  BY <1>4 DEF CloseListener, server
<1>5. CASE CloseRealm
  BY <1>5 DEF CloseRealm, server, Transports
<1>6. CASE \/ StartWork \/ TakeResult \/ TimeOut \/ CloseLate \/ Run \/ Selected \/ Await
           \/ Mark \/ Cancel \/ WaitForLoop \/ CloseSources
  <2>1. UNCHANGED sock
    BY <1>6 DEF StartWork, TakeResult, TimeOut, CloseLate, Run, Selected, Await, Mark,
                Cancel, WaitForLoop, CloseSources
  <2>2. CASE StartWork \/ TakeResult \/ TimeOut \/ CloseLate
    BY <2>1, <2>2 DEF StartWork, TakeResult, TimeOut, CloseLate
  <2>3. CASE Run \/ Selected \/ Cancel \/ WaitForLoop
    BY <2>1, <2>3 DEF Run, Selected, Cancel, WaitForLoop, server, CloseIsMarked, Closing
  <2>4. CASE Await \/ CloseSources \/ Mark
    BY <2>1, <2>4 DEF Await, CloseSources, Mark, server
  <2> QED
    BY <1>6, <2>2, <2>3, <2>4
<1>7. CASE UNCHANGED <<main, closed>> /\ UNCHANGED sock["ldap"]
  BY <1>7
<1> QED
  BY <1>1, <1>2, <1>3, <1>4, <1>5, <1>6, <1>7, Beside, OnlyStartup
     DEF Next, Main, vars, server

\* Every step keeps the types; that the sources are closed at most once is
\* ControlStep's.
LEMMA TypeStep ==
  ASSUME LifeInv, [Next]_vars, SourcesClosed'
  PROVE  TypeOK'
<1>0. closings' \in 0..1
  BY DEF SourcesClosed
<1> USE <1>0, LifecycleAssumption DEF LifeInv, TypeOK, Sockets, Transports, asked, boot,
    server, library, refresh
<1>1. CASE WorkEnds
  BY <1>1 DEF WorkEnds
<1>2. CASE WorkMarks
  BY <1>2 DEF WorkMarks
<1>3. CASE WorkSweeps
  BY <1>3 DEF WorkSweeps
<1>4. CASE StartWork
  BY <1>4 DEF StartWork
<1>5. CASE TakeResult
  BY <1>5 DEF TakeResult
<1>6. CASE TimeOut
  BY <1>6 DEF TimeOut
<1>7. CASE CloseLate
  BY <1>7 DEF CloseLate
<1>8. CASE ListenDirectory
  BY <1>8 DEF ListenDirectory
<1>9. CASE ListenRealm
  BY <1>9 DEF ListenRealm
<1>10. CASE Run
  BY <1>10 DEF Run
<1>11. CASE Selected
  <2>1. stopping' \in BOOLEAN /\ main' = "mark"
    BY <1>11, Zenon DEF Selected
  <2>2. UNCHANGED <<conf, signalled, boot, sock, server, library, refresh>>
    BY <1>11 DEF Selected
  <2> QED
    BY <2>1, <2>2
<1>12. CASE Await
  BY <1>12 DEF Await
<1>13. CASE Mark
  BY <1>13 DEF Mark
<1>14. CASE Cancel
  BY <1>14 DEF Cancel
<1>15. CASE WaitForLoop
  BY <1>15 DEF WaitForLoop
<1>16. CASE CloseLibrary
  BY <1>16 DEF CloseLibrary
<1>17. CASE CloseListener
  BY <1>17 DEF CloseListener
<1>18. CASE CloseRealm
  BY <1>18 DEF CloseRealm
<1>19. CASE CloseSources
  BY <1>19 DEF CloseSources
<1>20. CASE StartServing
  <2>1. /\ serving' \in BOOLEAN /\ loop' \in {loop, "waiting"}
        /\ serveAt' \in {"returned", "spawn"}
    BY <1>20, Zenon DEF StartServing
  <2>2. UNCHANGED <<main, asked, boot, sock, mu, closed, cancelled, library, worker>>
    BY <1>20 DEF StartServing
  <2> QED
    BY <2>1, <2>2
<1>21. CASE Spawn
  BY <1>21 DEF Spawn
<1>22. CASE Stopped
  BY <1>22 DEF Stopped
<1>23. CASE ClearServing
  <2>1. serving' \in BOOLEAN /\ serveAt' = "returned"
    BY <1>23 DEF ClearServing
  <2>2. UNCHANGED <<main, asked, boot, sock, mu, closed, cancelled, library, refresh>>
    BY <1>23 DEF ClearServing
  <2> QED
    BY <2>1, <2>2
<1>24. CASE Track
  BY <1>24 DEF Track
<1>25. CASE AcceptEnds
  BY <1>25 DEF AcceptEnds
<1>26. CASE Signal
  BY <1>26 DEF Signal
<1>27. CASE WriterTakes
  BY <1>27 DEF WriterTakes
<1>28. CASE Accept
  BY <1>28 DEF Accept
<1>29. CASE Hangup
  BY <1>29 DEF Hangup
<1>30. CASE AcceptDies
  BY <1>30 DEF AcceptDies
<1>31. CASE WriterGives
  BY <1>31 DEF WriterGives
<1>32. CASE LoopReturns
  BY <1>32 DEF LoopReturns
<1>33. CASE LoopEnds
  BY <1>33 DEF LoopEnds
<1>34. CASE LoopTicks
  BY <1>34 DEF LoopTicks
<1>35. CASE WorkerEnds
  BY <1>35 DEF WorkerEnds
<1>36. ASSUME NEW t \in Transports, TransportStarts(t) \/ TransportEnds(t)
       PROVE  TypeOK'
  BY <1>36 DEF TransportStarts, TransportEnds
<1>37. CASE UNCHANGED vars
  BY <1>37 DEF vars
<1> QED
  BY <1>1, <1>2, <1>3, <1>4, <1>5, <1>6, <1>7, <1>8, <1>9, <1>10, <1>11, <1>12,
     <1>13, <1>14, <1>15, <1>16, <1>17, <1>18, <1>19, <1>20, <1>21, <1>22, <1>23,
     <1>24, <1>25, <1>26, <1>27, <1>28, <1>29, <1>30, <1>31, <1>32, <1>33, <1>34,
     <1>35, <1>36, <1>37
     DEF Next, Work, Main, Serve, Library, World, Loop

------------------------------------------------------------------------------
\* The process starts with nothing open.
LEMMA LifeInit == Init => LifeInv
<1> SUFFICES ASSUME Init PROVE LifeInv
  OBVIOUS
<1>1. TypeOK
  <2>1. closings \in 0..1 /\ conns \in 0..MaxConnections
    BY LifecycleAssumption DEF Init
  <2>2. {stopping, signalled, finished, abandoned} \subseteq BOOLEAN
    BY DEF Init
  <2>3. {serving, closed, cancelled, closing, kdcClosed} \subseteq BOOLEAN
    BY DEF Init
  <2> QED
    BY <2>1, <2>2, <2>3 DEF Init, TypeOK
<1>2. CloseIsMarked /\ WorkIsAwaited /\ SourcesClosed
  BY DEF Init, CloseIsMarked, Closing, WorkIsAwaited, SourcesClosed, SecondClose
<1>3. LoopIsOver /\ ListenerIsOver
  BY DEF Init, LoopIsOver, WaitedForLoop, SecondClose, ListenerIsOver, Sockets
<1> QED
  BY <1>1, <1>2, <1>3 DEF LifeInv

\* Every step of startup, the loops, the listeners and the stop keeps the invariant.
LEMMA LifeStep == LifeInv /\ [Next]_vars => LifeInv'
BY ControlStep, LoopStep, ListenerStep, TypeStep DEF LifeInv

\* It holds of every state a server goes through, from open to its exit.
LEMMA LifeInvariant == Spec => []LifeInv
BY LifeInit, LifeStep, PTL DEF Spec

\* Every variable holds what the code could put there; among them, the sources
\* are never closed twice.
THEOREM LifeTypes == Spec => []TypeOK
<1>1. LifeInv => TypeOK
  BY DEF LifeInv
<1> QED
  BY <1>1, LifeInvariant, PTL

\* A startup that gives up leaves the sources to its work, which may still read
\* them (limits.go, startup).
THEOREM StartupKeepsItsSources == Spec => []StartupOwnsItsSources
<1>1. LifeInv => StartupOwnsItsSources
  BY DEF LifeInv, StartupOwnsItsSources, WorkIsAwaited, SourcesClosed, SecondClose
<1> QED
  BY <1>1, LifeInvariant, PTL

\* Whoever ends the process, the sources are closed once: by startup, by the
\* work it abandoned, or by the first of the two Closes.
THEOREM SourcesClosedOnce == Spec => []ClosedExactlyOnce
<1>1. LifeInv => ClosedExactlyOnce
  BY DEF LifeInv, ClosedExactlyOnce, SourcesClosed
<1> QED
  BY <1>1, LifeInvariant, PTL

\* What Close ends after its wait no refresh reads: the loop is over, and a
\* server that starts to serve late finds itself closed.
THEOREM NoRefreshAfterClose == Spec => []NoRefreshAfterTheWait
<1>1. LifeInv => NoRefreshAfterTheWait
  BY DEF LifeInv, NoRefreshAfterTheWait, LoopIsOver, WaitedForLoop
<1> QED
  BY <1>1, LifeInvariant, PTL

\* The directory's port is free once Close has passed its listener, and at
\* every end of the process.
THEOREM PortFreedForGood == Spec => []PortIsFreed
<1>1. LifeInv => PortIsFreed
  BY DEF LifeInv, PortIsFreed, ListenerIsOver
<1> QED
  BY <1>1, LifeInvariant, PTL
=============================================================================
