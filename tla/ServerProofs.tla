---------------------------- MODULE ServerProofs ----------------------------
(***************************************************************************)
(* Proofs about Start, Stop and listenUDP: for any callers of Stop, any    *)
(* connections and any number of datagrams.                                *)
(***************************************************************************)
EXTENDS Server, TLAPS

-----------------------------------------------------------------------------
(* The inductive invariant.                                                *)

\* listenUDP has passed its check of stopCh and may come to call telemetryFn.
Listening == upc \in {"load", "read", "handle"}

\* s.wg counts listenUDP.
Counted == wg = (IF upc = "check" \/ Listening THEN 1 ELSE 0)

\* s.mu is held from the closing of stopCh to the return of that Stop.
Stage == {"closeTCP", "closeUDP", "nilUDP", "join"}

StopHolds ==
  /\ \A s \in Stoppers : spc[s] \in Stage <=> mu = s
  /\ \A s \in Stoppers : spc[s] \in Stage \cup {"stopped"} => stopCh
  /\ serving => stopCh

\* A listenUDP that was past its check when stopCh was closed is waited for by
\* the Stop that closed it; no Stop returns before.
StopWaits ==
  stopCh /\ Listening => mu # None /\ \A s \in Stoppers : spc[s] # "stopped"

\* A socket that Start has not stored is not there for Stop to close; one that
\* it has stored is, as long as nobody stops the server.
Stored ==
  /\ mpc \in {"bindTCP", "storeTCP"} => ~ listener
  /\ mpc \in {"bindTCP", "storeTCP", "bindUDP", "storeUDP"} => ~ udpConn
  /\ mpc = "storeTCP" => tcpSock = "open"
  /\ ~ stopCh /\ mpc \in {"bindUDP", "storeUDP", "spawn", "accept"} =>
       listener /\ tcpSock = "open"
  /\ mpc = "storeUDP" => udpSock = "open"
  /\ ~ stopCh /\ mpc \in {"spawn", "accept"} /\ upc # "off" =>
       udpConn /\ udpSock = "open"
  /\ mpc = "accept" => upc # "none"

\* Without a UDP address there is no socket to store or to close.
NoUDP ==
  upc = "off" =>
    mpc \notin {"bindUDP", "storeUDP", "spawn"} /\ ~ udpConn /\ udpSock = "none"

\* The Stop that found Start accepting takes the sockets one by one.
Releasing ==
  serving =>
    /\ mpc \in {"accept", "return", "fatal"} /\ upc # "none"
    /\ \A s \in Stoppers :
         /\ spc[s] = "closeTCP" => listener
         /\ spc[s] \in {"closeUDP", "nilUDP", "join"} => tcpSock = "closed"
         /\ spc[s] \in {"closeTCP", "closeUDP"} /\ upc # "off" => udpConn
         /\ spc[s] \in {"nilUDP", "join"} /\ upc # "off" => udpSock = "closed"
    /\ mu = None =>
         /\ tcpSock = "closed"
         /\ upc # "off" => udpSock = "closed" /\ upc = "done"

SrvIInv ==
  /\ SrvTypeOK /\ Counted /\ StopHolds /\ StopWaits
  /\ Stored /\ NoUDP /\ Releasing /\ StopReleases

-----------------------------------------------------------------------------
(* Each step keeps it.                                                     *)

LEMMA InitServer == SrvInit => SrvIInv
PROOF
  <1> SUFFICES ASSUME SrvInit PROVE SrvIInv
    OBVIOUS
  <1>1. SrvTypeOK
    <2>1. /\ listener \in BOOLEAN /\ udpConn \in BOOLEAN /\ stopCh \in BOOLEAN
          /\ engineClosed \in BOOLEAN /\ serving \in BOOLEAN
      BY DEF SrvInit
    <2>2. dgrams \in 0 .. MaxDatagrams /\ queued \in 0 .. dgrams
      BY ServerAssumption DEF SrvInit
    <2> QED
      BY <2>1, <2>2 DEF SrvInit, SrvTypeOK
  <1>2. StopHolds
    BY ServerAssumption DEF SrvInit, StopHolds, Stage
  <1>3. Counted /\ StopWaits /\ Stored /\ NoUDP /\ Releasing /\ StopReleases
    BY DEF SrvInit, Counted, Listening, StopWaits, Stored, NoUDP, Releasing, StopReleases
  <1> QED
    BY <1>1, <1>2, <1>3 DEF SrvIInv

\* Start up to its loop, and main after it.
LEMMA StartKeeps ==
  ASSUME SrvIInv,
         \/ StartStep \/ StoreListener \/ StoreUDPConn
         \/ BindFails \/ AcceptFails \/ MainReturns
  PROVE  SrvIInv'
PROOF
  <1> USE DEF SrvIInv, sockVars, udpVars
  <1>1. SrvTypeOK'
    <2>1. listener' \in BOOLEAN /\ udpConn' \in BOOLEAN
      BY DEF SrvTypeOK, StartStep, BindTCP, BindUDP, SpawnUDP, AcceptClosed,
         StoreListener, StoreUDPConn, BindFails, AcceptFails, MainReturns
    <2>2. UNCHANGED <<mu, stopCh, dgrams, queued, spc, conns, engineClosed, serving>>
      BY DEF StartStep, BindTCP, BindUDP, SpawnUDP, AcceptClosed, StoreListener,
         StoreUDPConn, BindFails, AcceptFails, MainReturns
    <2>3. /\ proc' \in {proc, "exited", "fatal"}
          /\ mpc' \in {mpc, "storeTCP", "bindUDP", "storeUDP", "spawn", "accept",
                       "return", "fatal"}
          /\ tcpSock' \in {tcpSock, "open", "closed"}
          /\ udpSock' \in {udpSock, "open", "closed"}
          /\ wg' \in {wg, 1} /\ upc' \in {upc, "check"}
      BY DEF StartStep, BindTCP, BindUDP, SpawnUDP, AcceptClosed, StoreListener,
         StoreUDPConn, BindFails, AcceptFails, MainReturns
    <2> QED
      BY <2>1, <2>2, <2>3 DEF SrvTypeOK
  <1>2. mu' = mu /\ stopCh' = stopCh /\ spc' = spc /\ serving' = serving
    BY DEF StartStep, BindTCP, BindUDP, SpawnUDP, AcceptClosed,
       StoreListener, StoreUDPConn, BindFails, AcceptFails, MainReturns
  <1>3. CASE BindTCP \/ BindUDP \/ AcceptClosed \/ BindFails \/ AcceptFails
             \/ MainReturns
    <2>1. /\ upc' = upc /\ wg' = wg /\ listener' = listener /\ udpConn' = udpConn
      BY <1>3 DEF BindTCP, BindUDP, AcceptClosed, BindFails, AcceptFails, MainReturns
    <2>2. Stored' /\ NoUDP' /\ Releasing' /\ StopReleases'
      BY <1>2, <1>3, <2>1
      DEF BindTCP, BindUDP, AcceptClosed, BindFails, AcceptFails, MainReturns,
          Stored, NoUDP, Releasing, StopReleases
    <2> QED
      BY <1>1, <1>2, <2>1, <2>2 DEF Counted, Listening, StopHolds, StopWaits
  <1>4. CASE StoreListener \/ StoreUDPConn
    <2>1. upc' = upc /\ wg' = wg /\ tcpSock' = tcpSock /\ udpSock' = udpSock
      BY <1>4 DEF StoreListener, StoreUDPConn
    <2>2. ~ serving /\ ~ serving'
      BY <1>2, <1>4 DEF StoreListener, StoreUDPConn, Releasing
    <2>3. Stored' /\ NoUDP'
      BY <1>2, <1>4, <2>1 DEF StoreListener, StoreUDPConn, Stored, NoUDP
    <2> QED
      BY <1>1, <1>2, <2>1, <2>2, <2>3
      DEF Counted, Listening, StopHolds, StopWaits, Releasing, StopReleases
  <1>5. CASE SpawnUDP
    BY <1>1, <1>2, <1>5
    DEF SpawnUDP, Counted, Listening, StopHolds, StopWaits, Stored, NoUDP, Releasing,
        StopReleases
  <1> QED
    BY <1>3, <1>4, <1>5 DEF StartStep

\* listenUDP: it leaves its check of stopCh only while nobody has stopped.
LEMMA UDPKeeps ==
  ASSUME SrvIInv, UDPStep \/ ReadFails \/ DatagramArrives
  PROVE  SrvIInv'
PROOF
  <1> USE DEF SrvIInv, sockVars, udpVars
  <1>1. /\ UNCHANGED <<mpc, sockVars, mu, stopCh, spc, serving, conns, engineClosed>>
        /\ \/ upc' = upc /\ wg' = wg
           \/ upc = "check" /\ ~ stopCh /\ upc' = "load" /\ wg' = wg
           \/ upc \in {"check", "read"} /\ upc' = "done" /\ wg' = wg - 1
           \/ Listening /\ upc' \in {"check", "read", "handle"} /\ wg' = wg
    BY DEF UDPStep, CheckStopCh, UDPDone, LoadUDPConn, ReadFromUDP, HandleDatagram,
       ReadFails, DatagramArrives, Listening
  <1>2. /\ proc' \in {"running", "exited", "fatal", "panicked"}
        /\ dgrams' \in 0 .. MaxDatagrams /\ queued' \in 0 .. dgrams'
    BY ServerAssumption
    DEF UDPStep, CheckStopCh, UDPDone, LoadUDPConn, ReadFromUDP, HandleDatagram,
        ReadFails, DatagramArrives, SrvTypeOK
  <1>3. Counted' /\ wg' \in {0, 1}
    BY <1>1 DEF Counted, Listening, SrvTypeOK
  <1>4. SrvTypeOK'
    BY <1>1, <1>2, <1>3 DEF SrvTypeOK, Listening
  <1>5. StopHolds' /\ StopWaits'
    BY <1>1 DEF StopHolds, StopWaits, Listening
  <1>6. Stored' /\ NoUDP' /\ Releasing' /\ StopReleases'
    BY <1>1 DEF Stored, NoUDP, Releasing, StopReleases, Listening
  <1> QED
    BY <1>3, <1>4, <1>5, <1>6

\* Connections, the end of the engine and of the process.
LEMMA RestKeeps ==
  ASSUME SrvIInv,
         \/ \E c \in Conns : Accept(c) \/ ConnectionEnds(c)
         \/ CloseEngine \/ Exit
  PROVE  SrvIInv'
PROOF
  <1>1. /\ UNCHANGED <<mpc, sockVars, mu, stopCh, udpVars, spc, serving>>
        /\ proc' \in {proc, "exited"} /\ engineClosed' \in {engineClosed, TRUE}
        /\ conns \subseteq Conns => conns' \subseteq Conns
    BY DEF Accept, ConnectionEnds, CloseEngine, Exit
  <1>2. SrvTypeOK'
    <2>1. engineClosed' \in BOOLEAN
      BY <1>1 DEF SrvIInv, SrvTypeOK
    <2> QED
      BY <1>1, <2>1 DEF sockVars, udpVars, SrvIInv, SrvTypeOK
  <1> QED
    BY <1>1, <1>2
    DEF sockVars, udpVars, SrvIInv, Counted, Listening, StopHolds,
        StopWaits, Stored, NoUDP, Releasing, StopReleases

LEMMA StopKeeps ==
  ASSUME SrvIInv, NEW s \in Stoppers, StopCalled(s) \/ StopLock(s) \/ StopStep(s)
  PROVE  SrvIInv'
PROOF
  <1> USE DEF SrvIInv, sockVars, udpVars
  <1>1. /\ UNCHANGED <<proc, mpc, udpVars, conns, engineClosed>>
        /\ \A r \in Stoppers : r # s => spc'[r] = spc[r]
    BY DEF StopCalled, StopLock, StopStep, StopCloseListener, StopCloseUDP,
       StopNilUDP, StopReturn, SrvTypeOK
  <1>2. SrvTypeOK'
    <2>1. /\ listener' \in BOOLEAN /\ udpConn' \in BOOLEAN /\ stopCh' \in BOOLEAN
          /\ serving' \in BOOLEAN
      BY DEF SrvTypeOK, StopCalled, StopLock, StopStep, StopCloseListener,
         StopCloseUDP, StopNilUDP, StopReturn
    <2>2. /\ tcpSock' \in {tcpSock, "closed"} /\ udpSock' \in {udpSock, "closed"}
          /\ mu' \in {mu, s, None}
      BY DEF StopCalled, StopLock, StopStep, StopCloseListener, StopCloseUDP,
         ClosedIfStored, StopNilUDP, StopReturn
    <2>3. \E x \in {"lock", "stopped", "closeTCP", "closeUDP", "nilUDP", "join"} :
            spc' = [spc EXCEPT ![s] = x]
      BY DEF StopCalled, StopLock, StopStep, StopCloseListener, StopCloseUDP,
         StopNilUDP, StopReturn
    <2> QED
      BY <1>1, <2>1, <2>2, <2>3 DEF SrvTypeOK
  <1>3. s # None
    BY ServerAssumption
  <1>4. CASE StopCalled(s)
    <2>1. /\ UNCHANGED <<sockVars, mu, stopCh, serving>>
          /\ spc[s] = "wait" /\ spc'[s] = "lock"
      BY <1>4 DEF StopCalled, SrvTypeOK
    <2> QED
      BY <1>1, <1>2, <2>1 DEF Counted, Listening, StopHolds, Stage, StopWaits, Stored,
         NoUDP, Releasing, StopReleases
  <1>5. CASE StopLock(s) /\ stopCh
    <2>1. /\ UNCHANGED <<sockVars, mu, stopCh, serving>> /\ mu = None
          /\ spc[s] = "lock" /\ spc'[s] = "stopped"
      BY <1>5 DEF StopLock, SrvTypeOK
    <2> QED
      BY <1>1, <1>2, <1>3, <1>5, <2>1
      DEF Counted, Listening, StopHolds, Stage, StopWaits, Stored, NoUDP, Releasing,
          StopReleases
  <1>6. CASE StopLock(s) /\ ~ stopCh
    <2>1. /\ UNCHANGED sockVars /\ mu = None /\ mu' = s /\ stopCh' = TRUE
          /\ spc[s] = "lock" /\ spc'[s] = "closeTCP" /\ serving' = (mpc = "accept")
      BY <1>6 DEF StopLock, SrvTypeOK
    <2>2. \A r \in Stoppers : spc[r] \notin Stage \cup {"stopped"}
      BY <1>6 DEF StopHolds
    <2>3. \A r \in Stoppers : spc'[r] \in Stage \cup {"stopped"} => r = s
      BY <1>1, <2>2
    <2>4. StopHolds' /\ StopWaits' /\ StopReleases'
      BY <1>1, <1>3, <2>1, <2>2, <2>3
      DEF StopHolds, Stage, StopWaits, Listening, StopReleases
    <2>5. Stored' /\ NoUDP' /\ Releasing'
      BY <1>1, <1>3, <1>6, <2>1, <2>3 DEF Stored, NoUDP, Releasing, Stage
    <2> QED
      BY <1>1, <1>2, <2>4, <2>5 DEF Counted, Listening
  <1>7. CASE StopStep(s)
    <2>1. /\ mu = s /\ stopCh /\ stopCh' = stopCh /\ serving' = serving
          /\ \A r \in Stoppers : r # s => spc[r] \notin Stage /\ spc'[r] = spc[r]
      BY <1>1, <1>7
      DEF StopStep, StopCloseListener, StopCloseUDP, StopNilUDP, StopReturn,
          StopHolds, Stage
    <2>2. CASE StopCloseListener(s)
      BY <1>1, <1>2, <1>3, <2>1, <2>2
      DEF StopCloseListener, SrvTypeOK, Counted, Listening, StopHolds, Stage,
          StopWaits, Stored, NoUDP, Releasing, StopReleases
    <2>3. CASE StopCloseUDP(s)
      <3>1. /\ mu' = mu /\ listener' = listener /\ udpConn' = udpConn
            /\ tcpSock' = tcpSock /\ spc[s] = "closeUDP" /\ spc'[s] = "nilUDP"
            /\ udpConn => udpSock' = "closed"
            /\ ~ udpConn => udpSock' = udpSock
        BY <2>3 DEF StopCloseUDP, ClosedIfStored, SrvTypeOK
      <3>2. mpc = "storeUDP" => ~ udpConn
        BY <3>1 DEF Stored
      <3> QED
        BY <1>1, <1>2, <1>3, <2>1, <3>1, <3>2
        DEF Counted, Listening, StopHolds, Stage, StopWaits, Stored, NoUDP, Releasing,
            StopReleases
    <2>4. CASE StopNilUDP(s)
      BY <1>1, <1>2, <1>3, <2>1, <2>4
      DEF StopNilUDP, SrvTypeOK, Counted, Listening, StopHolds, Stage, StopWaits,
          Stored, NoUDP, Releasing, StopReleases
    <2>5. CASE StopReturn(s)
      <3>1. /\ UNCHANGED sockVars /\ mu' = None
            /\ wg = 0 /\ spc[s] = "join" /\ spc'[s] = "stopped"
        BY <2>5 DEF StopReturn, Joined, SrvTypeOK
      <3>2. upc \in {"off", "none", "done"}
        BY <3>1 DEF Counted, Listening, SrvTypeOK
      <3>3. serving => /\ tcpSock = "closed"
                       /\ upc # "off" => udpSock = "closed" /\ upc = "done"
        BY <3>1, <3>2 DEF Releasing
      <3>4. StopHolds' /\ StopWaits'
        BY <1>1, ServerAssumption, <2>1, <3>1, <3>2
        DEF StopHolds, Stage, StopWaits, Listening
      <3>5. StopReleases'
        BY <1>1, <2>1, <3>1, <3>3 DEF StopReleases, NoUDP
      <3>6. Stored' /\ NoUDP' /\ Releasing'
        BY <1>1, <2>1, <3>1, <3>3 DEF Stored, NoUDP, Releasing, Stage
      <3> QED
        BY <1>1, <1>2, <3>4, <3>5, <3>6 DEF Counted, Listening
    <2> QED
      BY <1>7, <2>2, <2>3, <2>4, <2>5 DEF StopStep
  <1> QED
    BY <1>4, <1>5, <1>6, <1>7

LEMMA ServerInductive == SrvSpec => []SrvIInv
PROOF
  <1>1. ASSUME SrvIInv, [SrvNext]_srvVars PROVE SrvIInv'
    <2>1. CASE UNCHANGED srvVars
      BY <1>1, <2>1
      DEF srvVars, sockVars, udpVars, SrvIInv, SrvTypeOK, Counted, Listening,
          StopHolds, StopWaits, Stored, NoUDP, Releasing, StopReleases
    <2>2. CASE SrvNext
      BY <1>1, <2>2, StartKeeps, UDPKeeps, RestKeeps, StopKeeps DEF SrvNext
    <2> QED
      BY <1>1, <2>1, <2>2
  <1> QED
    BY InitServer, <1>1, PTL DEF SrvSpec

-----------------------------------------------------------------------------
(* Results.                                                                *)

\* The counter of s.wg is never negative, and a Stop that comes while Start is
\* accepting returns, as does every later one, only with its sockets closed and
\* listenUDP, if there is one, ended (server.go:213-232).
THEOREM ServerInvariant == SrvSpec => []SrvInv
PROOF
  <1>1. SrvIInv => SrvInv
    BY DEF SrvIInv, SrvInv
  <1> QED
    BY ServerInductive, <1>1, PTL

\* Wherever Start is when Stop comes, telemetryFn is not running once any call
\* of Stop has returned, and never runs again (server.go:120, server.go:231).
THEOREM TelemetryEndsWithStop == SrvSpec => []NoTelemetryAfterStop
PROOF
  <1>1. SrvIInv => NoTelemetryAfterStop
    BY DEF SrvIInv, StopHolds, StopWaits, Listening, NoTelemetryAfterStop
  <1> QED
    BY ServerInductive, <1>1, PTL
=============================================================================
