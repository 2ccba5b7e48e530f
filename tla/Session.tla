------------------------------ MODULE Session ------------------------------
(***************************************************************************)
(* Clients and the server's connection handlers (client.go, handler.go,    *)
(* protocol.go).  A client has one TCP connection and one call at a time   *)
(* (c.mu); the handler of the connection reads a request, calls the engine *)
(* and writes the answer piece by piece.  Nothing in an answer names its   *)
(* request, and a call that times out leaves the connection in use.        *)
(*                                                                         *)
(* The engine is the map that Rotation and DB implement: Put, Delete and   *)
(* Get act at one moment, a Scan reads its keys one after the other.  A    *)
(* request is on its way whole; an answer is a header and units of         *)
(* payload.  No payload begins with the magic byte.                        *)
(***************************************************************************)
EXTENDS Entries, Sequences

CONSTANTS
  Clients,
  Oversize,      \* values that do not fit into the handler's buffer
  NotFoundLen,   \* the key length that says "not found": 0xFFFF
  CountMod,      \* the number of items of a Scan is sent modulo this: 2^16
  Timeouts,      \* may a call time out?
  EngineFaults,  \* may the engine return an error?
  MaxCalls       \* bound: calls of all clients

ASSUME SessionAssumption ==
  /\ Keys \subseteq Nat /\ None \notin Values /\ None # Absent
  /\ Oversize \subseteq Values
  /\ NotFoundLen \in Nat \ {0, 1} /\ CountMod \in Nat \ {0}
  /\ Timeouts \in BOOLEAN /\ EngineFaults \in BOOLEAN /\ MaxCalls \in Nat

Request ==
  [op : {"put"}, key : Keys, val : Values] \cup
  [op : {"delete", "get"}, key : Keys, val : {None}] \cup
  [op : {"scan", "echo"}, key : {None}, val : {None}]

VARIABLES
  kv,        \* the engine
  cpc,       \* cpc[c]: "idle", "header" or "payload"
  creq, cid, \* the request of c's call, its number
  need,      \* units of payload it has still to read
  cres,      \* what it has read
  cclosed,   \* Client.Close was called
  up,        \* up[c]: requests on their way to the handler
  down,      \* down[c]: pieces of answers on their way to the client
  hpc,       \* hpc[c]: the handler, "read", "scan", "write" or "closed"
  hout,      \* hout[c]: what it has still to write
  hleft,     \* hleft[c]: the keys its Scan has still to read
  hseen,     \* hseen[c]: the items its Scan has found
  calls,
  clean,     \* history: clean[c], no call of c has failed
  window,    \* history: window[c][k], values of k since c's call began
  applied    \* history: numbers and clients of the mutations applied

clientVars  == <<cpc, creq, cid, need, cres, cclosed>>
handlerVars == <<hpc, hout, hleft, hseen>>
sesVars == <<kv, clientVars, up, down, handlerVars, calls, clean, window, applied>>

NoRequest == [op |-> None, key |-> None, val |-> None]
EmptyWindow == [k \in Keys |-> {}]

\* Clients have connected to a server whose engine may hold data.
SesInit ==
  /\ kv \in [Keys -> (Values \ Oversize) \cup {Absent}]
  /\ cpc = [c \in Clients |-> "idle"]
  /\ creq = [c \in Clients |-> NoRequest]
  /\ cid = [c \in Clients |-> 0]
  /\ need = [c \in Clients |-> 0]
  /\ cres = [c \in Clients |-> << >>]
  /\ cclosed = [c \in Clients |-> FALSE]
  /\ up = [c \in Clients |-> << >>]
  /\ down = [c \in Clients |-> << >>]
  /\ hpc = [c \in Clients |-> "read"]
  /\ hout = [c \in Clients |-> << >>]
  /\ hleft = [c \in Clients |-> {}]
  /\ hseen = [c \in Clients |-> << >>]
  /\ calls = 0
  /\ clean = [c \in Clients |-> TRUE]
  /\ window = [c \in Clients |-> EmptyWindow]
  /\ applied = << >>

-----------------------------------------------------------------------------
(* Answers.                                                                *)

Header(op, a, b) == [kind |-> "header", op |-> op, a |-> a, b |-> b]
Payload(k, v) == [kind |-> "payload", key |-> k, val |-> v]

\* sendAck and sendNotFound leave the operation 0.
Ack == <<Header("none", 0, 0)>>
NotFound == <<Header("none", NotFoundLen, 0)>>

CountShort(n) == (n - 1) % CountMod
CountSent(n) == n % CountMod

Answer(q, items) ==
  CASE q.op \in {"put", "delete"} -> Ack
    [] q.op = "get" /\ kv[q.key] = Absent -> NotFound
    [] q.op = "get" /\ kv[q.key] # Absent ->
         <<Header("get", 1, 1), Payload(q.key, None), Payload(q.key, kv[q.key])>>
    [] q.op = "scan" -> <<Header("scan", CountSent(Len(items)), Len(items))>> \o items
    [] q.op = "echo" -> <<Header("echo", 0, 1), Payload(None, None)>>

-----------------------------------------------------------------------------
(* The client.                                                             *)

\* Put, Get, Delete, Scan, Echo: the deadline is set and the request written.
Call(c, q) ==
  /\ cpc[c] = "idle" /\ ~ cclosed[c] /\ calls < MaxCalls
  /\ calls' = calls + 1
  /\ cid' = [cid EXCEPT ![c] = calls + 1]
  /\ creq' = [creq EXCEPT ![c] = q]
  /\ up' = [up EXCEPT ![c] = IF hpc[c] = "closed" THEN @
                             ELSE Append(@, [req |-> q, id |-> calls + 1])]
  /\ cpc' = [cpc EXCEPT ![c] = "header"]
  /\ window' = [window EXCEPT ![c] =
                  [k \in Keys |-> IF q.op = "scan" \/ (q.op = "get" /\ q.key = k)
                                  THEN {kv[k]} ELSE {}]]
  /\ UNCHANGED <<kv, need, cres, cclosed, down, handlerVars, clean, applied>>

CallOver(c) ==
  /\ cpc' = [cpc EXCEPT ![c] = "idle"]
  /\ creq' = [creq EXCEPT ![c] = NoRequest]
  /\ cid' = [cid EXCEPT ![c] = 0]
  /\ need' = [need EXCEPT ![c] = 0]
  /\ cres' = [cres EXCEPT ![c] = << >>]
  /\ window' = [window EXCEPT ![c] = EmptyWindow]

CallFails(c) ==
  /\ CallOver(c)
  /\ clean' = [clean EXCEPT ![c] = FALSE]

\* The checks of each call on the header it reads: the magic byte, for Scan the
\* operation too, for Echo nothing.
Accepts(op, t) ==
  \/ op = "echo"
  \/ t.kind = "header" /\ (op = "scan" => t.op = "scan")

PayloadIgnoringNotFound(t) == t.a + t.b
PayloadWithoutKey(t) == IF t.a = NotFoundLen THEN 0 ELSE t.b
\* The units of key and value that Get reads after header t.
GetPayload(t) == IF t.a = NotFoundLen THEN 0 ELSE t.a + t.b

\* What each call reads; Echo may take any bytes for a header.
Needed(op, t) ==
  CASE op \in {"put", "delete"} -> {0}
    [] op = "get" -> {GetPayload(t)}
    [] op = "scan" -> {t.a}
    [] op = "echo" -> IF t.kind = "header" THEN {t.b} ELSE {0, 1}

ReadHeader(c) ==
  /\ cpc[c] = "header" /\ down[c] # << >>
  /\ down' = [down EXCEPT ![c] = Tail(@)]
  /\ LET t == Head(down[c])
     IN  IF Accepts(creq[c].op, t)
         THEN /\ \E n \in Needed(creq[c].op, t) : need' = [need EXCEPT ![c] = n]
              /\ cpc' = [cpc EXCEPT ![c] = "payload"]
              /\ UNCHANGED <<creq, cid, cres, clean, window>>
         ELSE CallFails(c)
  /\ UNCHANGED <<kv, cclosed, up, handlerVars, calls, applied>>

ReadPayload(c) ==
  /\ cpc[c] = "payload" /\ need[c] > 0 /\ down[c] # << >>
  /\ down' = [down EXCEPT ![c] = Tail(@)]
  /\ cres' = [cres EXCEPT ![c] = Append(@, Head(down[c]))]
  /\ need' = [need EXCEPT ![c] = @ - 1]
  /\ UNCHANGED <<kv, cpc, creq, cid, cclosed, up, handlerVars, calls, clean, window,
                 applied>>

Succeeds(c) == cpc[c] = "payload" /\ need[c] = 0

ReturnFromCall(c) ==
  /\ Succeeds(c)
  /\ CallOver(c)
  /\ UNCHANGED <<kv, cclosed, up, down, handlerVars, calls, clean, applied>>

Waits(c) == cpc[c] = "header" \/ (cpc[c] = "payload" /\ need[c] > 0)

\* The handler has closed the connection and all it wrote has been read.
ReadsEOF(c) ==
  /\ Waits(c) /\ down[c] = << >> /\ hpc[c] = "closed"
  /\ CallFails(c)
  /\ UNCHANGED <<kv, cclosed, up, down, handlerVars, calls, applied>>

\* The deadline passes; the connection stays as it is.
TimesOut(c) ==
  /\ Timeouts /\ Waits(c)
  /\ CallFails(c)
  /\ UNCHANGED <<kv, cclosed, up, down, handlerVars, calls, applied>>

\* Client.Close takes c.mu, so no call is running.
ClientClose(c) ==
  /\ cpc[c] = "idle" /\ ~ cclosed[c]
  /\ cclosed' = [cclosed EXCEPT ![c] = TRUE]
  /\ UNCHANGED <<kv, cpc, creq, cid, need, cres, up, down, handlerVars, calls, clean,
                 window, applied>>

-----------------------------------------------------------------------------
(* The handler of a connection.                                            *)

\* handleConnection returns and closes the connection.
HandlerCloses(c) ==
  /\ hpc' = [hpc EXCEPT ![c] = "closed"]
  /\ hout' = [hout EXCEPT ![c] = << >>]
  /\ hleft' = [hleft EXCEPT ![c] = {}]
  /\ hseen' = [hseen EXCEPT ![c] = << >>]

NotConsumed(s) == s
Consumed(s) == Tail(s)

NextRequest(c) == Head(up[c]).req

Received(c) ==
  /\ hpc[c] = "read" /\ up[c] # << >>
  /\ up' = [up EXCEPT ![c] = Consumed(@)]

Seen(k, v) ==
  [c \in Clients |-> [window[c] EXCEPT ![k] = IF @ = {} THEN @ ELSE @ \cup {v}]]

\* Put and Delete: the engine applies the mutation, then the answer is due.
HandleMutation(c) ==
  /\ Received(c)
  /\ LET q == NextRequest(c)
         v == IF q.op = "delete" THEN Absent ELSE q.val
     IN  /\ q.op \in {"put", "delete"} /\ q.val \notin Oversize
         /\ kv' = [kv EXCEPT ![q.key] = v]
         /\ window' = Seen(q.key, v)
         /\ hout' = [hout EXCEPT ![c] = Answer(q, << >>)]
         /\ applied' = Append(applied, [id |-> Head(up[c]).id, client |-> c])
  /\ hpc' = [hpc EXCEPT ![c] = "write"]
  /\ UNCHANGED <<clientVars, down, hleft, hseen, calls, clean>>

HandleRead(c) ==
  /\ Received(c)
  /\ LET q == NextRequest(c)
     IN  /\ q.op \in {"get", "echo"}
         /\ hout' = [hout EXCEPT ![c] = Answer(q, << >>)]
  /\ hpc' = [hpc EXCEPT ![c] = "write"]
  /\ UNCHANGED <<kv, clientVars, down, hleft, hseen, calls, clean, window, applied>>

HandleScan(c) ==
  /\ Received(c)
  /\ NextRequest(c).op = "scan"
  /\ hpc' = [hpc EXCEPT ![c] = "scan"]
  /\ hleft' = [hleft EXCEPT ![c] = Keys]
  /\ UNCHANGED <<kv, clientVars, down, hout, hseen, calls, clean, window, applied>>

\* The engine's Scan reads the keys in order, not all at one moment, and keeps
\* those that have a value ...
ScanKey(c) ==
  /\ hpc[c] = "scan"
  /\ \E k \in hleft[c] :
       /\ \A j \in hleft[c] : k <= j
       /\ hleft' = [hleft EXCEPT ![c] = @ \ {k}]
       /\ hseen' = [hseen EXCEPT ![c] = IF kv[k] = Absent THEN @
                                       ELSE Append(@, Payload(k, kv[k]))]
  /\ UNCHANGED <<kv, clientVars, up, down, hpc, hout, calls, clean, window, applied>>

\* ... and returns them.
ScanReturns(c) ==
  /\ hpc[c] = "scan" /\ hleft[c] = {}
  /\ hout' = [hout EXCEPT ![c] =
                 Answer([NoRequest EXCEPT !.op = "scan"], hseen[c])]
  /\ hseen' = [hseen EXCEPT ![c] = << >>]
  /\ hpc' = [hpc EXCEPT ![c] = "write"]
  /\ UNCHANGED <<kv, clientVars, up, down, hleft, calls, clean, window, applied>>

\* A payload beyond the buffer, or an error of the engine: HandleRequest returns
\* the error and the connection is closed.
HandleError(c) ==
  /\ Received(c)
  /\ NextRequest(c).val \in Oversize \/ (EngineFaults /\ NextRequest(c).op # "echo")
  /\ HandlerCloses(c)
  /\ UNCHANGED <<kv, clientVars, down, calls, clean, window, applied>>

\* One conn.Write of the answer.
WriteAnswer(c) ==
  /\ hpc[c] = "write"
  /\ \/ /\ down' = [down EXCEPT ![c] = Append(@, Head(hout[c]))]
        /\ hout' = [hout EXCEPT ![c] = Tail(@)]
        /\ hpc' = [hpc EXCEPT ![c] = IF Len(hout[c]) = 1 THEN "read" ELSE "write"]
        /\ UNCHANGED <<hleft, hseen>>
     \/ /\ cclosed[c]
        /\ HandlerCloses(c)
        /\ UNCHANGED down
  /\ UNCHANGED <<kv, clientVars, up, calls, clean, window, applied>>

\* ParseHeader meets the end of the stream.
HandlerReadsEOF(c) ==
  /\ hpc[c] = "read" /\ up[c] = << >> /\ cclosed[c]
  /\ HandlerCloses(c)
  /\ UNCHANGED <<kv, clientVars, up, down, calls, clean, window, applied>>

\* The network or the server goes away: what is on its way is lost.
ConnectionDrops(c) ==
  /\ hpc[c] # "closed"
  /\ HandlerCloses(c)
  /\ up' = [up EXCEPT ![c] = << >>]
  /\ down' = [down EXCEPT ![c] = << >>]
  /\ UNCHANGED <<kv, clientVars, calls, clean, window, applied>>

-----------------------------------------------------------------------------
ClientStep(c) ==
  ReadHeader(c) \/ ReadPayload(c) \/ ReturnFromCall(c) \/ ReadsEOF(c)

HandlerStep(c) ==
  \/ HandleMutation(c) \/ HandleRead(c) \/ HandleScan(c) \/ ScanKey(c)
  \/ ScanReturns(c) \/ HandleError(c) \/ WriteAnswer(c) \/ HandlerReadsEOF(c)

SesNext ==
  \E c \in Clients :
    \/ \E q \in Request : Call(c, q)
    \/ ClientStep(c)
    \/ TimesOut(c)
    \/ ClientClose(c)
    \/ HandlerStep(c)
    \/ ConnectionDrops(c)

\* Fairness: the goroutines of a call and of a connection are scheduled.  No
\* deadline need ever pass.
SesSpec ==
  /\ SesInit /\ [][SesNext]_sesVars
  /\ \A c \in Clients : WF_sesVars(ClientStep(c)) /\ WF_sesVars(HandlerStep(c))

-----------------------------------------------------------------------------
(* Properties.                                                             *)

Piece == [kind : {"header"}, op : {"none", "get", "scan", "echo"}, a : Nat, b : Nat]
         \cup [kind : {"payload"}, key : Keys \cup {None},
               val : Values \cup {Absent, None}]

\* Every variable holds a value of its type, and a handler has something to
\* write exactly while it writes (handler.go:40-160).
SesTypeOK ==
  /\ kv \in [Keys -> Values \cup {Absent}]
  /\ cpc \in [Clients -> {"idle", "header", "payload"}]
  /\ creq \in [Clients -> Request \cup {NoRequest}]
  /\ cid \in [Clients -> 0 .. MaxCalls] /\ need \in [Clients -> Nat]
  /\ cres \in [Clients -> Seq(Piece)]
  /\ cclosed \in [Clients -> BOOLEAN] /\ clean \in [Clients -> BOOLEAN]
  /\ up \in [Clients -> Seq([req : Request, id : 1 .. MaxCalls])]
  /\ down \in [Clients -> Seq(Piece)]
  /\ hpc \in [Clients -> {"read", "scan", "write", "closed"}]
  /\ hout \in [Clients -> Seq(Piece)]
  /\ \A c \in Clients : hout[c] # << >> <=> hpc[c] = "write"
  /\ hleft \in [Clients -> SUBSET Keys] /\ hseen \in [Clients -> Seq(Piece)]
  /\ calls \in 0 .. MaxCalls
  /\ window \in [Clients -> [Keys -> SUBSET (Values \cup {Absent})]]

\* The value a call returns for key k, Absent if it returns none.
Returned(c, k) ==
  LET at == {i \in 1 .. Len(cres[c]) :
               cres[c][i].key = k /\ cres[c][i].val # None}
  IN  IF at = {} THEN Absent ELSE cres[c][CHOOSE i \in at : TRUE].val

\* A Get or Scan of a client whose calls have all succeeded returns values the
\* keys had during the call, whatever other clients do: each call reads its own
\* answer, to the last item (client.go:164-221, client.go:266-338).
ResultsInWindow ==
  \A c \in Clients : Succeeds(c) /\ clean[c] =>
    \A k \in Keys : window[c][k] # {} => Returned(c, k) \in window[c][k]

AppliedBy(c) == {applied[i].id : i \in {j \in 1 .. Len(applied) : applied[j].client = c}}

\* A Put or Delete that returns nil to such a client has been applied; and the
\* mutations of any client, also those whose calls have timed out, take effect
\* at most once and in the order of its calls (handler.go:30-69,
\* client.go:150-159).
MutationsInOrder ==
  /\ \A c \in Clients :
       Succeeds(c) /\ clean[c] /\ creq[c].op \in {"put", "delete"} =>
         cid[c] \in AppliedBy(c)
  /\ \A i, j \in 1 .. Len(applied) :
       i < j /\ applied[i].client = applied[j].client => applied[i].id < applied[j].id

\* The first half for every client, also after a call of it has failed: the
\* mutation is in the engine before its Put or Delete reads an acknowledgement
\* (client.go:116-160).
AckFollowsMutation ==
  \A c \in Clients :
    Succeeds(c) /\ creq[c].op \in {"put", "delete"} => cid[c] \in AppliedBy(c)

\* Between the calls of such a client nothing is left on its connection for the
\* next call to misread (client.go:118-380).
StreamsDrained ==
  \A c \in Clients : clean[c] /\ cpc[c] = "idle" =>
    up[c] = << >> /\ down[c] = << >> /\ hpc[c] \in {"read", "closed"}

\* The types and the empty connections together.
SesInv == SesTypeOK /\ StreamsDrained

\* A call of such a client returns without the help of its deadline: neither
\* side waits for bytes the other does not send (client.go:150, handler.go:31).
CleanCallsReturn ==
  \A c \in Clients : cpc[c] # "idle" ~> (cpc[c] = "idle" \/ ~ clean[c])
=============================================================================
