------------------------------- MODULE Server -------------------------------
(***************************************************************************)
(* The network server and the process around it (server.go, main.go): main *)
(* runs Start, which binds and stores the TCP socket, does the same with   *)
(* the UDP socket and starts listenUDP if a UDP address is configured, and *)
(* accepts connections; a signal makes another goroutine run Stop, close   *)
(* the engine and exit.  Stop holds s.mu from its first step to its last,  *)
(* wg.Wait included; listenUDP reads s.udpConn without s.mu.               *)
(*                                                                         *)
(* Other callers of Stop are programs that embed the server, as the tests  *)
(* do.  What a connection carries is the subject of Session, what Close    *)
(* does that of Rotation and WAL.                                          *)
(***************************************************************************)
EXTENDS Naturals, FiniteSets

CONSTANTS
  Signal,        \* main's signal goroutine, a caller of Stop
  Embedders,     \* other callers of Stop
  Conns,         \* connections that clients may open
  MaxDatagrams,  \* bound: datagrams that arrive
  None

Stoppers == {Signal} \cup Embedders

ASSUME ServerAssumption ==
  /\ Signal \notin Embedders
  /\ None \notin Stoppers
  /\ MaxDatagrams \in Nat

VARIABLES
  proc,                \* "running", "exited", "fatal" (log.Fatalf) or "panicked"
  mpc,                 \* main and Start
  listener, udpConn,   \* are s.listener and s.udpConn set?
  tcpSock, udpSock,    \* the sockets: "none", "open" or "closed"
  mu,                  \* the holder of s.mu
  stopCh,              \* is stopCh closed?
  wg,                  \* the counter of s.wg
  upc,                 \* listenUDP; "off": the server has no UDP address
  dgrams,              \* datagrams that have arrived, read or not
  queued,              \* datagrams in the socket
  spc,                 \* spc[s]: each caller of Stop
  conns,               \* connections with a running handleConnection
  engineClosed,        \* dbEngine.Close has returned
  serving              \* history: was Start accepting when stopCh was closed?

sockVars == <<listener, udpConn, tcpSock, udpSock>>
udpVars  == <<wg, upc, dgrams, queued>>
srvVars  == <<proc, mpc, sockVars, mu, stopCh, udpVars, spc, conns, engineClosed,
              serving>>

SrvInit ==
  /\ proc = "running" /\ mpc = "bindTCP"
  /\ listener = FALSE /\ udpConn = FALSE
  /\ tcpSock = "none" /\ udpSock = "none"
  /\ mu = None /\ stopCh = FALSE
  /\ wg = 0 /\ upc \in {"none", "off"} /\ dgrams = 0 /\ queued = 0
  /\ spc = [s \in Stoppers |-> "wait"]
  /\ conns = {} /\ engineClosed = FALSE
  /\ serving = FALSE

-----------------------------------------------------------------------------
(* main and Start.                                                         *)

BindTCP ==
  /\ mpc = "bindTCP"
  /\ tcpSock' = "open"
  /\ mpc' = "storeTCP"
  /\ UNCHANGED <<proc, listener, udpConn, udpSock, mu, stopCh, udpVars, spc, conns,
                 engineClosed, serving>>

\* Without a UDP address Start goes straight to its accept loop.
StoreListener ==
  /\ mpc = "storeTCP" /\ mu = None
  /\ listener' = TRUE
  /\ mpc' = IF upc = "off" THEN "accept" ELSE "bindUDP"
  /\ UNCHANGED <<proc, udpConn, tcpSock, udpSock, mu, stopCh, udpVars, spc, conns,
                 engineClosed, serving>>

BindUDP ==
  /\ mpc = "bindUDP"
  /\ udpSock' = "open"
  /\ mpc' = "storeUDP"
  /\ UNCHANGED <<proc, listener, udpConn, tcpSock, mu, stopCh, udpVars, spc, conns,
                 engineClosed, serving>>

\* A bind fails: Start closes the listener it has and main calls log.Fatalf.
BindFails ==
  /\ mpc \in {"bindTCP", "bindUDP"}
  /\ tcpSock' = IF mpc = "bindUDP" THEN "closed" ELSE tcpSock
  /\ mpc' = "fatal"
  /\ UNCHANGED <<proc, listener, udpConn, udpSock, mu, stopCh, udpVars, spc, conns,
                 engineClosed, serving>>

StoreUDPConn ==
  /\ mpc = "storeUDP" /\ mu = None
  /\ udpConn' = TRUE
  /\ mpc' = "spawn"
  /\ UNCHANGED <<proc, listener, tcpSock, udpSock, mu, stopCh, udpVars, spc, conns,
                 engineClosed, serving>>

\* s.wg.Add(1) and go s.listenUDP().
SpawnUDP ==
  /\ mpc = "spawn"
  /\ wg' = 1
  /\ upc' = "check"
  /\ mpc' = "accept"
  /\ UNCHANGED <<proc, sockVars, mu, stopCh, dgrams, queued, spc, conns, engineClosed,
                 serving>>

Accept(c) ==
  /\ mpc = "accept" /\ tcpSock = "open" /\ c \notin conns
  /\ conns' = conns \cup {c}
  /\ UNCHANGED <<proc, mpc, sockVars, mu, stopCh, udpVars, spc, engineClosed, serving>>

\* Accept reports the closed listener: Start returns nil.
AcceptClosed ==
  /\ mpc = "accept" /\ tcpSock = "closed"
  /\ mpc' = "return"
  /\ UNCHANGED <<proc, sockVars, mu, stopCh, udpVars, spc, conns, engineClosed, serving>>

\* Accept reports another error: Start returns it.
AcceptFails ==
  /\ mpc = "accept" /\ tcpSock = "open"
  /\ mpc' = "fatal"
  /\ UNCHANGED <<proc, sockVars, mu, stopCh, udpVars, spc, conns, engineClosed, serving>>

\* Start has returned: main calls log.Fatalf or returns, and the process ends.
MainReturns ==
  /\ mpc \in {"fatal", "return"}
  /\ proc' = IF mpc = "fatal" THEN "fatal" ELSE "exited"
  /\ UNCHANGED <<mpc, sockVars, mu, stopCh, udpVars, spc, conns, engineClosed, serving>>

\* handleConnection returns: its client is gone or a request failed.
ConnectionEnds(c) ==
  /\ c \in conns
  /\ conns' = conns \ {c}
  /\ UNCHANGED <<proc, mpc, sockVars, mu, stopCh, udpVars, spc, engineClosed, serving>>

-----------------------------------------------------------------------------
(* listenUDP.                                                              *)

DatagramArrives ==
  /\ udpSock = "open" /\ dgrams < MaxDatagrams
  /\ dgrams' = dgrams + 1 /\ queued' = queued + 1
  /\ UNCHANGED <<proc, mpc, sockVars, mu, stopCh, wg, upc, spc, conns, engineClosed,
                 serving>>

UDPDone == wg' = wg - 1 /\ upc' = "done"

CheckStopCh ==
  /\ upc = "check"
  /\ IF stopCh THEN UDPDone ELSE upc' = "load" /\ UNCHANGED wg
  /\ UNCHANGED <<proc, mpc, sockVars, mu, stopCh, dgrams, queued, spc, conns,
                 engineClosed, serving>>

\* s.udpConn is read without s.mu.  Stop may have set it to nil: the promoted
\* method of the nil pointer reports an error, or panics.
LoadUDPConn ==
  /\ upc = "load"
  /\ \/ udpConn /\ upc' = "read" /\ UNCHANGED proc
     \/ ~ udpConn /\ upc' = "check" /\ UNCHANGED proc
     \/ ~ udpConn /\ proc' = "panicked" /\ UNCHANGED upc
  /\ UNCHANGED <<mpc, sockVars, mu, stopCh, wg, dgrams, queued, spc, conns,
                 engineClosed, serving>>

\* ReadFromUDP: the closed socket ends the loop, a datagram is taken.
ReadFromUDP ==
  /\ upc = "read"
  /\ \/ /\ udpSock = "closed"
        /\ UDPDone
        /\ UNCHANGED queued
     \/ /\ udpSock = "open" /\ queued > 0
        /\ queued' = queued - 1
        /\ upc' = "handle"
        /\ UNCHANGED wg
  /\ UNCHANGED <<proc, mpc, sockVars, mu, stopCh, dgrams, spc, conns, engineClosed,
                 serving>>

\* ReadFromUDP reports another error: the loop goes on.
ReadFails ==
  /\ upc = "read" /\ udpSock = "open"
  /\ upc' = "check"
  /\ UNCHANGED <<proc, mpc, sockVars, mu, stopCh, wg, dgrams, queued, spc, conns,
                 engineClosed, serving>>

\* The datagram is dropped, or telemetryFn is called with it and returns.
HandleDatagram ==
  /\ upc = "handle"
  /\ upc' = "check"
  /\ UNCHANGED <<proc, mpc, sockVars, mu, stopCh, wg, dgrams, queued, spc, conns,
                 engineClosed, serving>>

-----------------------------------------------------------------------------
(* Stop, and the signal goroutine around it.                               *)

\* The signal arrives, or an embedder decides to stop.  The metrics endpoint is
\* shut down first, within two seconds.
StopCalled(s) ==
  /\ spc[s] = "wait"
  /\ spc' = [spc EXCEPT ![s] = "lock"]
  /\ UNCHANGED <<proc, mpc, sockVars, mu, stopCh, udpVars, conns, engineClosed, serving>>

\* s.mu.Lock(), then stopCh is closed unless it is closed already.
StopLock(s) ==
  /\ spc[s] = "lock" /\ mu = None
  /\ IF stopCh
     THEN /\ spc' = [spc EXCEPT ![s] = "stopped"]
          /\ UNCHANGED <<mu, stopCh, serving>>
     ELSE /\ mu' = s /\ stopCh' = TRUE
          /\ serving' = (mpc = "accept")
          /\ spc' = [spc EXCEPT ![s] = "closeTCP"]
  /\ UNCHANGED <<proc, mpc, sockVars, udpVars, conns, engineClosed>>

StopCloseListener(s) ==
  /\ spc[s] = "closeTCP"
  /\ tcpSock' = IF listener THEN "closed" ELSE tcpSock
  /\ listener' = FALSE
  /\ spc' = [spc EXCEPT ![s] = "closeUDP"]
  /\ UNCHANGED <<proc, mpc, udpConn, udpSock, mu, stopCh, udpVars, conns, engineClosed,
                 serving>>

LeftOpen == udpSock
ClosedIfStored == IF udpConn THEN "closed" ELSE udpSock

StopCloseUDP(s) ==
  /\ spc[s] = "closeUDP"
  /\ udpSock' = ClosedIfStored
  /\ spc' = [spc EXCEPT ![s] = "nilUDP"]
  /\ UNCHANGED <<proc, mpc, listener, udpConn, tcpSock, mu, stopCh, udpVars, conns,
                 engineClosed, serving>>

StopNilUDP(s) ==
  /\ spc[s] = "nilUDP"
  /\ udpConn' = FALSE
  /\ spc' = [spc EXCEPT ![s] = "join"]
  /\ UNCHANGED <<proc, mpc, listener, tcpSock, udpSock, mu, stopCh, udpVars, conns,
                 engineClosed, serving>>

NotJoined == wg \in {0, 1}
Joined == wg = 0

\* s.wg.Wait() returns and the deferred unlock runs.
StopReturn(s) ==
  /\ spc[s] = "join" /\ Joined
  /\ mu' = None
  /\ spc' = [spc EXCEPT ![s] = "stopped"]
  /\ UNCHANGED <<proc, mpc, sockVars, stopCh, udpVars, conns, engineClosed, serving>>

\* dbEngine.Close returns.
CloseEngine ==
  /\ spc[Signal] = "stopped" /\ ~ engineClosed
  /\ engineClosed' = TRUE
  /\ UNCHANGED <<proc, mpc, sockVars, mu, stopCh, udpVars, spc, conns, serving>>

\* os.Exit(0)
Exit ==
  /\ spc[Signal] = "stopped" /\ engineClosed
  /\ proc' = "exited"
  /\ UNCHANGED <<mpc, sockVars, mu, stopCh, udpVars, spc, conns, engineClosed, serving>>

-----------------------------------------------------------------------------
StartStep == BindTCP \/ BindUDP \/ SpawnUDP \/ AcceptClosed
UDPStep == CheckStopCh \/ LoadUDPConn \/ ReadFromUDP \/ HandleDatagram
StopStep(s) ==
  StopCloseListener(s) \/ StopCloseUDP(s) \/ StopNilUDP(s) \/ StopReturn(s)

SrvNext ==
  /\ proc = "running"
  /\ \/ StartStep \/ StoreListener \/ StoreUDPConn
     \/ BindFails \/ AcceptFails \/ MainReturns
     \/ UDPStep \/ ReadFails \/ DatagramArrives
     \/ \E c \in Conns : Accept(c) \/ ConnectionEnds(c)
     \/ \E s \in Stoppers : StopCalled(s) \/ StopLock(s) \/ StopStep(s)
     \/ CloseEngine \/ Exit

Alive == proc = "running"

\* Fairness: goroutines that are not blocked run, and sync.Mutex starves nobody.
\* That main returns is left open, so its exit cannot hide a Stop that hangs;
\* nobody has to connect, send a datagram or call Stop.
SrvSpec ==
  /\ SrvInit /\ [][SrvNext]_srvVars
  /\ WF_srvVars(StartStep /\ Alive)
  /\ SF_srvVars((StoreListener \/ StoreUDPConn) /\ Alive)
  /\ WF_srvVars(UDPStep /\ Alive)
  /\ \A s \in Stoppers : /\ SF_srvVars(StopLock(s) /\ Alive)
                         /\ WF_srvVars(StopStep(s) /\ Alive)
  /\ WF_srvVars((CloseEngine \/ Exit) /\ Alive)

-----------------------------------------------------------------------------
(* Properties.                                                             *)

\* Every variable holds a value of its type; the counter of s.wg never becomes
\* negative, which would panic (server.go:120, server.go:153).
SrvTypeOK ==
  /\ proc \in {"running", "exited", "fatal", "panicked"}
  /\ mpc \in {"bindTCP", "storeTCP", "bindUDP", "storeUDP", "spawn", "accept",
              "return", "fatal"}
  /\ listener \in BOOLEAN /\ udpConn \in BOOLEAN /\ stopCh \in BOOLEAN
  /\ tcpSock \in {"none", "open", "closed"} /\ udpSock \in {"none", "open", "closed"}
  /\ mu \in Stoppers \cup {None}
  /\ wg \in {0, 1}
  /\ upc \in {"off", "none", "check", "load", "read", "handle", "done"}
  /\ dgrams \in 0 .. MaxDatagrams /\ queued \in 0 .. dgrams
  /\ spc \in [Stoppers -> {"wait", "lock", "closeTCP", "closeUDP", "nilUDP", "join",
                           "stopped"}]
  /\ conns \subseteq Conns /\ engineClosed \in BOOLEAN
  /\ serving \in BOOLEAN

\* Once any call of Stop has returned, also a second one that found the server
\* stopped, telemetryFn is not running and never runs again, wherever Start was
\* when Stop came (server.go:120, server.go:231).
NoTelemetryAfterStop ==
  (\E s \in Stoppers : spc[s] = "stopped") => upc # "handle"

\* When the server is stopped while Start is accepting, every call of Stop that
\* returns finds its sockets closed and listenUDP, if there is one, ended
\* (server.go:213-232).  A Stop that comes earlier may leave either socket open.
StopReleases ==
  serving /\ (\E s \in Stoppers : spc[s] = "stopped") =>
    /\ tcpSock = "closed"
    /\ IF upc = "off" THEN udpSock = "none" ELSE udpSock = "closed" /\ upc = "done"

\* The types and what Stop releases together.
SrvInv == SrvTypeOK /\ StopReleases

\* Stop does not hang, whatever listenUDP is doing when its socket goes away and
\* whoever else holds or wants s.mu (server.go:203-232).
StopsReturn ==
  \A s \in Stoppers : spc[s] = "lock" ~> (spc[s] = "stopped" \/ proc # "running")
=============================================================================
