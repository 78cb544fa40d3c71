------------------------------ MODULE Lifecycle ------------------------------
(***************************************************************************)
(* The life of the process: serve in root.go, from open to the deferred    *)
(* Close, with the goroutines that live beside it: startup's work          *)
(* (limits.go), server.serve, the refresh loop and its worker, and the two *)
(* libraries that hold the sockets once they serve them.                   *)
(*                                                                         *)
(* What the sources answer is in Directory; here they are open or closed,  *)
(* and a read of them ends or hangs.                                       *)
(***************************************************************************)
EXTENDS Integers

CONSTANTS MaxConnections    \* bound on the connections accepted

ASSUME LifecycleAssumption == MaxConnections \in Nat

Sockets == {"ldap", "udp", "tcp"}
Transports == {"udp", "tcp"}           \* the realm's

VARIABLES
  conf,       \* [realm, refresh, bounded]: is there a kerberos block, a
              \* refresh, a startup_timeout
  main,       \* where serve, listen, runUntil or Close is
  stopping,   \* runUntil took the branch of the context
  signalled,  \* SIGINT or SIGTERM came
  work,       \* startup's goroutine: where it is, and whether it failed
  finished, abandoned,                 \* startup's flags, under its mutex
  closings,   \* how often s.dir.Close was called
  sock,       \* the sockets: "unset", "open" or "closed"
  mu,         \* s.mu: "free", or "writer" for a password change in writeProved
  serving, closed, cancelled,          \* s.serving, s.closed, rctx is done
  serveAt,    \* where server.serve is
  accept,     \* where ldap.Serve is
  closing,    \* ldap.Close was called
  conns,      \* the connections established
  kdcClosed, transport,                \* the KDC, and its ServeUDP and ServeTCP
  loop, worker                         \* the refresh loop and its worker

asked == <<conf, stopping, signalled>>
boot == <<work, finished, abandoned, closings>>
server == <<mu, serving, closed, cancelled, serveAt>>
library == <<accept, closing, conns, kdcClosed, transport>>
refresh == <<loop, worker>>
vars == <<main, asked, boot, sock, server, library, refresh>>

Init ==
  /\ conf \in [realm : BOOLEAN, refresh : BOOLEAN, bounded : BOOLEAN]
  /\ main = "startup" /\ stopping = FALSE /\ signalled = FALSE
  /\ work = [at |-> "none", failed |-> FALSE]
  /\ finished = FALSE /\ abandoned = FALSE
  /\ closings = 0
  /\ sock = [s \in Sockets |-> "unset"]
  /\ mu = "free"
  /\ serving = FALSE /\ closed = FALSE /\ cancelled = FALSE
  /\ serveAt = "none"
  /\ accept = "none" /\ closing = FALSE /\ conns = 0
  /\ kdcClosed = FALSE /\ transport = [t \in Transports |-> "none"]
  /\ loop = "none" /\ worker = "none"

------------------------------------------------------------------------------
(***************************************************************************)
(* startup: the work that opens and reads every source, and the timer.     *)
(* Without startup_timeout the work runs in line: no timer, the same end.  *)
(***************************************************************************)
StartWork ==
  /\ main = "startup"
  /\ main' = "wait"
  /\ work' = [work EXCEPT !.at = "reading"]
  /\ UNCHANGED <<asked, finished, abandoned, closings, sock, server, library,
                 refresh>>

\* OpenAll, Identities, newRoster, readGroups and checkConfigGroups: any of
\* them may fail, or hang.
WorkEnds ==
  /\ work.at = "reading"
  /\ \E failed \in BOOLEAN : work' = [at |-> "mark", failed |-> failed]
  /\ UNCHANGED <<main, asked, finished, abandoned, closings, sock, server,
                 library, refresh>>

\* finished is set and abandoned is read in one critical section.
WorkMarks ==
  /\ work.at = "mark"
  /\ finished' = TRUE
  /\ work' = [work EXCEPT !.at = IF abandoned THEN "sweep" ELSE "ended"]
  /\ UNCHANGED <<main, asked, abandoned, closings, sock, server, library,
                 refresh>>

\* Nobody waits any more: the work closes what it opened.
WorkSweeps ==
  /\ work.at = "sweep"
  /\ closings' = closings + 1
  /\ work' = [work EXCEPT !.at = "ended"]
  /\ UNCHANGED <<main, asked, finished, abandoned, sock, server, library,
                 refresh>>

\* The result came in time.
TakeResult ==
  /\ main = "wait" /\ work.at = "ended"
  /\ main' = IF work.failed THEN "exited" ELSE "listen"
  /\ closings' = IF work.failed THEN closings + 1 ELSE closings
  /\ UNCHANGED <<asked, work, finished, abandoned, sock, server, library,
                 refresh>>

\* startup_timeout runs out first: abandoned is set and finished is read in one
\* critical section, and what finished meanwhile is closed here.
TimeOutAndClose ==                                                   \* mutant
  /\ main = "wait" /\ conf.bounded
  /\ abandoned' = TRUE
  /\ main' = "tooLate"
  /\ UNCHANGED <<asked, work, finished, closings, sock, server, library,
                 refresh>>
TimeOutAndLeave ==                                                   \* mutant
  /\ main = "wait" /\ conf.bounded
  /\ abandoned' = TRUE
  /\ main' = "exited"
  /\ UNCHANGED <<asked, work, finished, closings, sock, server, library,
                 refresh>>
TimeOut ==
  /\ main = "wait" /\ conf.bounded
  /\ abandoned' = TRUE
  /\ main' = IF finished THEN "tooLate" ELSE "exited"
  /\ UNCHANGED <<asked, work, finished, closings, sock, server, library,
                 refresh>>

CloseLate ==
  /\ main = "tooLate"
  /\ closings' = closings + 1
  /\ main' = "exited"
  /\ UNCHANGED <<asked, work, finished, abandoned, sock, server, library,
                 refresh>>

------------------------------------------------------------------------------
(***************************************************************************)
(* listen.  From here on Close is deferred.                                *)
(***************************************************************************)
\* net.Listen, and the certificate: a pair that does not load closes it again.
ListenDirectory ==
  /\ main = "listen"
  /\ \/ main' = "mark" /\ UNCHANGED sock
     \/ /\ main' = IF conf.realm THEN "realm" ELSE "run"
        /\ sock' = [sock EXCEPT !["ldap"] = "open"]
  /\ UNCHANGED <<asked, boot, server, library, refresh>>

\* openRealm and realm.listen: both sockets or none, and without them the
\* directory's is closed.
ListenRealm ==
  /\ main = "realm"
  /\ \/ /\ main' = "mark"
        /\ sock' = [sock EXCEPT !["ldap"] = "closed"]
     \/ /\ main' = "run"
        /\ sock' = [s \in Sockets |-> "open"]
  /\ UNCHANGED <<asked, boot, server, library, refresh>>

------------------------------------------------------------------------------
(***************************************************************************)
(* runUntil.                                                               *)
(***************************************************************************)
Run ==
  /\ main = "run"
  /\ main' = "select"
  /\ serveAt' = "start"
  /\ UNCHANGED <<asked, boot, sock, mu, serving, closed, cancelled, library,
                 refresh>>

Signal ==
  /\ main = "select" /\ ~signalled
  /\ signalled' = TRUE
  /\ UNCHANGED <<conf, main, stopping, boot, sock, server, library, refresh>>

\* "stopping" is said, and Close is called; or the server stopped of its own
\* accord, and the deferred Close is next.
Selected ==
  /\ main = "select"
  /\ \/ signalled /\ stopping' = TRUE
     \/ serveAt = "returned" /\ UNCHANGED stopping
  /\ main' = "mark"
  /\ UNCHANGED <<conf, signalled, boot, sock, server, library, refresh>>

\* The result of serve is waited for; the deferred Close is next.
Await ==
  /\ main = "await" /\ serveAt = "returned"
  /\ main' = "mark"
  /\ UNCHANGED <<asked, boot, sock, server, library, refresh>>

------------------------------------------------------------------------------
(***************************************************************************)
(* Close.                                                                  *)
(***************************************************************************)
\* serving and closed are read and closed is set under s.mu; a second Close
\* does nothing.  What serving said decides who closes the listener.
MarkAgain ==                                                         \* mutant
  /\ main = "mark" /\ mu = "free"
  /\ closed' = TRUE
  /\ main' = IF serving THEN "cancelServing" ELSE "cancel"
  /\ UNCHANGED <<asked, boot, sock, mu, serving, cancelled, serveAt, library,
                 refresh>>
Mark ==
  /\ main = "mark" /\ mu = "free"
  /\ closed' = TRUE
  /\ main' = IF closed THEN "exited"
             ELSE IF serving THEN "cancelServing" ELSE "cancel"
  /\ UNCHANGED <<asked, boot, sock, mu, serving, cancelled, serveAt, library,
                 refresh>>

\* rcancel.
Cancel ==
  /\ main \in {"cancel", "cancelServing"}
  /\ cancelled' = TRUE
  /\ main' = IF main = "cancel" THEN "wind" ELSE "windServing"
  /\ UNCHANGED <<asked, boot, sock, mu, serving, closed, serveAt, library,
                 refresh>>

\* rdone.Wait.
WaitForLoop ==
  /\ main \in {"wind", "windServing"}
  /\ loop \in {"none", "ended"}
  /\ main' = IF main = "wind" THEN "listener" ELSE "library"
  /\ UNCHANGED <<asked, boot, sock, server, library, refresh>>

\* ldap.Close: the listener, when Serve tracks it, and every connection.
CloseLibrary ==
  /\ main = "library"
  /\ closing' = TRUE /\ conns' = 0
  /\ sock' = IF accept = "accepting" THEN [sock EXCEPT !["ldap"] = "closed"] ELSE sock
  /\ main' = "listener"
  /\ UNCHANGED <<asked, boot, server, accept, kdcClosed, transport, refresh>>

\* s.ln.Close, whatever the library did with it.
LeaveListener ==                                                     \* mutant
  /\ main = "listener"
  /\ sock' = IF accept = "none" THEN [sock EXCEPT !["ldap"] = "closed"] ELSE sock
  /\ main' = "kdc"
  /\ UNCHANGED <<asked, boot, server, library, refresh>>
CloseListener ==
  /\ main = "listener"
  /\ sock' = [sock EXCEPT !["ldap"] = IF @ = "unset" THEN @ ELSE "closed"]
  /\ main' = "kdc"
  /\ UNCHANGED <<asked, boot, server, library, refresh>>

\* realm.close: the KDC closes the sockets it was given to serve.
CloseRealm ==
  /\ main = "kdc"
  /\ kdcClosed' = TRUE
  /\ sock' = [s \in Sockets |->
                IF s \in Transports /\ transport[s] = "serving" THEN "closed" ELSE sock[s]]
  /\ main' = "sources"
  /\ UNCHANGED <<asked, boot, server, accept, closing, conns, transport,
                 refresh>>

CloseSources ==
  /\ main = "sources"
  /\ closings' = closings + 1
  /\ main' = IF stopping THEN "await" ELSE "exited"
  /\ UNCHANGED <<asked, work, finished, abandoned, sock, server, library,
                 refresh>>

------------------------------------------------------------------------------
(***************************************************************************)
(* server.serve, and who it waits for.                                     *)
(***************************************************************************)
\* Under s.mu: nothing is served by a server that was closed, and the refresh
\* loop is added before Close can wait for it.
StartServingClosed ==                                                \* mutant
  /\ serveAt = "start" /\ mu = "free"
  /\ serving' = TRUE /\ loop' = IF conf.refresh THEN "waiting" ELSE loop
  /\ serveAt' = "spawn"
  /\ UNCHANGED <<main, asked, boot, sock, mu, closed, cancelled, library,
                 worker>>
StartServing ==
  /\ serveAt = "start" /\ mu = "free"
  /\ IF closed
     THEN serveAt' = "returned" /\ UNCHANGED <<serving, loop>>
     ELSE /\ serving' = TRUE
          /\ loop' = IF conf.refresh THEN "waiting" ELSE loop
          /\ serveAt' = "spawn"
  /\ UNCHANGED <<main, asked, boot, sock, mu, closed, cancelled, library,
                 worker>>

\* ldap.Serve in its goroutine, and realm.serve's two.
Spawn ==
  /\ serveAt = "spawn"
  /\ accept' = "track"
  /\ transport' = IF conf.realm THEN [t \in Transports |-> "starting"] ELSE transport
  /\ serveAt' = "select"
  /\ UNCHANGED <<main, asked, boot, sock, mu, serving, closed, cancelled,
                 closing, conns, kdcClosed, refresh>>

\* Whichever stops first ends this.
Stopped ==
  /\ serveAt = "select"
  /\ accept = "ended" \/ \E t \in Transports : transport[t] = "ended"
  /\ serveAt' = "clear"
  /\ UNCHANGED <<main, asked, boot, sock, mu, serving, closed, cancelled,
                 library, refresh>>

ClearServing ==
  /\ serveAt = "clear" /\ mu = "free"
  /\ serving' = FALSE
  /\ serveAt' = "returned"
  /\ UNCHANGED <<main, asked, boot, sock, mu, closed, cancelled, library,
                 refresh>>

\* A password change holds s.mu from its check to its write.
WriterTakes ==
  /\ serveAt = "select" /\ conns > 0 /\ mu = "free"
  /\ mu' = "writer"
  /\ UNCHANGED <<main, asked, boot, sock, serving, closed, cancelled,
                 serveAt, library, refresh>>

WriterGives ==
  /\ mu = "writer"
  /\ mu' = "free"
  /\ UNCHANGED <<main, asked, boot, sock, serving, closed, cancelled,
                 serveAt, library, refresh>>

------------------------------------------------------------------------------
(***************************************************************************)
(* The libraries, from how they are used.  ldap.Serve tracks its listener  *)
(* unless Close was called; it returns when the listener is closed, or     *)
(* dies.                                                                   *)
(***************************************************************************)
Track ==
  /\ accept = "track"
  /\ accept' = IF closing THEN "ended" ELSE "accepting"
  /\ UNCHANGED <<main, asked, boot, sock, server, closing, conns, kdcClosed,
                 transport, refresh>>

Accept ==
  /\ accept = "accepting" /\ sock["ldap"] = "open" /\ conns < MaxConnections
  /\ conns' = conns + 1
  /\ UNCHANGED <<main, asked, boot, sock, server, accept, closing, kdcClosed,
                 transport, refresh>>

Hangup ==
  /\ conns > 0
  /\ conns' = conns - 1
  /\ UNCHANGED <<main, asked, boot, sock, server, accept, closing, kdcClosed,
                 transport, refresh>>

AcceptEnds ==
  /\ accept = "accepting" /\ sock["ldap"] = "closed"
  /\ accept' = "ended"
  /\ UNCHANGED <<main, asked, boot, sock, server, closing, conns, kdcClosed,
                 transport, refresh>>

AcceptDies ==
  /\ accept = "accepting" /\ sock["ldap"] = "open"
  /\ accept' = "ended"
  /\ UNCHANGED <<main, asked, boot, sock, server, closing, conns, kdcClosed,
                 transport, refresh>>

\* ServeUDP and ServeTCP: one that starts on a closed KDC gives its socket back.
TransportStarts(t) ==
  /\ transport[t] = "starting"
  /\ transport' = [transport EXCEPT ![t] = IF kdcClosed THEN "ended" ELSE "serving"]
  /\ sock' = IF kdcClosed THEN [sock EXCEPT ![t] = "closed"] ELSE sock
  /\ UNCHANGED <<main, asked, boot, server, accept, closing, conns,
                 kdcClosed, refresh>>

\* The KDC was closed, or the transport dies with its socket.
TransportEnds(t) ==
  /\ transport[t] = "serving"
  /\ transport' = [transport EXCEPT ![t] = "ended"]
  /\ sock' = [sock EXCEPT ![t] = "closed"]
  /\ UNCHANGED <<main, asked, boot, server, accept, closing, conns,
                 kdcClosed, refresh>>

------------------------------------------------------------------------------
(***************************************************************************)
(* The refresh loop and its worker (Directory has what they do).           *)
(***************************************************************************)
\* A tick: refreshOnce, unless the previous worker still reads.
LoopTicks ==
  /\ loop = "waiting" /\ worker # "reading"
  /\ loop' = "refreshing" /\ worker' = "reading"
  /\ UNCHANGED <<main, asked, boot, sock, server, library>>

\* The worker is done, or the period is over, or the server stops.
LoopWaits ==                                                         \* mutant
  /\ loop = "refreshing" /\ worker = "done"
  /\ loop' = "waiting"
  /\ UNCHANGED <<main, asked, boot, sock, server, library, worker>>
LoopReturns ==
  /\ loop = "refreshing"
  /\ loop' = "waiting"
  /\ UNCHANGED <<main, asked, boot, sock, server, library, worker>>

LoopEnds ==
  /\ loop = "waiting" /\ cancelled
  /\ loop' = "ended"
  /\ UNCHANGED <<main, asked, boot, sock, server, library, worker>>

\* A source that hangs keeps the worker for good.
WorkerEnds ==
  /\ worker = "reading"
  /\ worker' = "done"
  /\ UNCHANGED <<main, asked, boot, sock, server, library, loop>>

------------------------------------------------------------------------------
Work == WorkEnds \/ WorkMarks \/ WorkSweeps
Main == \/ StartWork \/ TakeResult \/ TimeOut \/ CloseLate
        \/ ListenDirectory \/ ListenRealm
        \/ Run \/ Selected \/ Await
        \/ Mark \/ Cancel \/ WaitForLoop \/ CloseLibrary \/ CloseListener
        \/ CloseRealm \/ CloseSources
Serve == StartServing \/ Spawn \/ Stopped \/ ClearServing
Library == Track \/ AcceptEnds
World == \/ Signal \/ WriterTakes \/ Accept \/ Hangup \/ AcceptDies
         \/ \E t \in Transports : TransportStarts(t) \/ TransportEnds(t)
Loop == LoopReturns \/ LoopEnds

Next == \/ Work \/ Main \/ Serve \/ Library \/ World \/ WriterGives
        \/ Loop \/ LoopTicks \/ WorkerEnds

Spec == Init /\ [][Next]_vars

\* Go runs every goroutine that can run; a select with the context done and a
\* tick ready takes the context in the end, and a mutex does not starve (SF).
\* Nothing says a source answers: no fairness for the work nor the worker.  A
\* password change gives s.mu back when its recheck is answered.
Fairness ==
  /\ SF_vars(Main) /\ SF_vars(Serve) /\ WF_vars(Library)
  /\ WF_vars(WriterGives) /\ WF_vars(LoopReturns) /\ SF_vars(LoopEnds)
FairSpec == Spec /\ Fairness

------------------------------------------------------------------------------
\* Every variable holds what the code could put there.
TypeOK ==
  /\ conf \in [realm : BOOLEAN, refresh : BOOLEAN, bounded : BOOLEAN]
  /\ main \in {"startup", "wait", "tooLate", "listen", "realm", "run", "select",
               "mark", "cancel", "cancelServing", "wind", "windServing", "library",
               "listener", "kdc", "sources", "await", "exited"}
  /\ {stopping, signalled, finished, abandoned} \subseteq BOOLEAN
  /\ work \in [at : {"none", "reading", "mark", "sweep", "ended"}, failed : BOOLEAN]
  /\ closings \in 0..1
  /\ sock \in [Sockets -> {"unset", "open", "closed"}]
  /\ mu \in {"free", "writer"}
  /\ {serving, closed, cancelled, closing, kdcClosed} \subseteq BOOLEAN
  /\ serveAt \in {"none", "start", "spawn", "select", "clear", "returned"}
  /\ accept \in {"none", "track", "accepting", "ended"}
  /\ conns \in 0..MaxConnections
  /\ transport \in [Transports -> {"none", "starting", "serving", "ended"}]
  /\ loop \in {"none", "waiting", "refreshing", "ended"}
  /\ worker \in {"none", "reading", "done"}

\* Nobody closes the sources startup is still opening and reading: a startup
\* that gives up leaves them to the work (limits.go, startup).
StartupOwnsItsSources == work.at \in {"reading", "mark"} => closings = 0

\* Once the process is through and no work of its startup is left, the sources
\* were closed, once: by startup, by its abandoned work or by Close.
ClosedExactlyOnce == main = "exited" /\ work.at = "ended" => closings = 1

\* No refresh runs, or starts to, once Close has waited for the loop: what it
\* closes next is not read by a new one.
NoRefreshAfterTheWait ==
  main \in {"library", "listener", "kdc", "sources", "await"} \/ (main = "exited" /\ cancelled)
    => loop \in {"none", "ended"}

\* The directory's port is free when the process says it has stopped, even when
\* Close fell between serving = true and the library's track.
PortIsFreed == main \in {"kdc", "sources", "await", "exited"} => sock["ldap"] # "open"

\* A signal ends the process, whatever a source is doing to the refresh: the
\* restart that waits for it takes.
StopEnds == signalled ~> main = "exited"

\* What Close says of itself: nothing established is answered any more, and no
\* port is held.
NothingIsLeftBehind ==
  main = "exited" => conns = 0 /\ \A s \in Sockets : sock[s] # "open"
=============================================================================
