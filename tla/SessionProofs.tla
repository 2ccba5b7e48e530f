--------------------------- MODULE SessionProofs ---------------------------
(***************************************************************************)
(* Proofs about Session: the types, the order in which the mutations of a  *)
(* client take effect, and, for a client none of whose calls has failed,   *)
(* that each call reads its own answer and nothing else.  The number of    *)
(* keys must stay below CountMod, for the header of a Scan counts modulo   *)
(* 2^16 (handler.go:127).                                                  *)
(***************************************************************************)
EXTENDS Session, SequenceTheorems, FiniteSetTheorems, TLAPS

-----------------------------------------------------------------------------
(* The inductive invariants.                                               *)

Item == [kind : {"payload"}, key : Keys, val : Values]

\* A Scan collects items; calls have requests, and only calls have results.
TypeInv ==
  /\ SesTypeOK
  /\ \A c \in Clients : hseen[c] \in Seq(Item)
  /\ \A c \in Clients : cpc[c] # "idle" => creq[c] \in Request /\ ~ cclosed[c]
  /\ \A c \in Clients : cpc[c] # "payload" => cres[c] = << >>

\* Requests are on their way in the order of their numbers, behind those of the
\* same client that have been applied.
OrderInv ==
  /\ applied \in Seq([id : 1 .. MaxCalls, client : Clients])
  /\ \A i \in 1 .. Len(applied) : applied[i].id <= calls
  /\ \A i, j \in 1 .. Len(applied) :
       i < j /\ applied[i].client = applied[j].client => applied[i].id < applied[j].id
  /\ \A c \in Clients : \A i \in 1 .. Len(up[c]) :
       /\ up[c][i].id <= calls
       /\ \A j \in 1 .. Len(up[c]) : i < j => up[c][i].id < up[c][j].id
       /\ \A j \in 1 .. Len(applied) : applied[j].client = c => applied[j].id < up[c][i].id

\* A call collects the values of the keys it asks for, the present one included.
WindowInv ==
  \A c \in Clients, k \in Keys :
    /\ window[c][k] # {} <=>
         /\ cpc[c] # "idle"
         /\ creq[c].op = "scan" \/ (creq[c].op = "get" /\ creq[c].key = k)
    /\ window[c][k] # {} => kv[k] \in window[c][k]

\* A Scan finds at most one item per key.
ScanInv ==
  \A c \in Clients :
    /\ Len(hseen[c]) + Cardinality(hleft[c]) <= Cardinality(Keys)
    /\ hpc[c] # "scan" => hseen[c] = << >> /\ hleft[c] = {}

\* The payload s answers a call that has collected the values w.
Result(w, s) ==
  \A k \in Keys : w[k] # {} =>
    /\ \A i \in 1 .. Len(s) : s[i].key = k /\ s[i].val # None => s[i].val \in w[k]
    /\ \/ Absent \in w[k]
       \/ \E i \in 1 .. Len(s) : s[i].key = k /\ s[i].val # None

Effective(c) == creq[c].op \in {"put", "delete"} => cid[c] \in AppliedBy(c)

\* What is on its way to c and what the handler has still to write.
Stream(c) == down[c] \o hout[c]

\* The units of payload behind header t.
Following(op, t) ==
  IF op \in {"put", "delete"} THEN 0
  ELSE IF op = "get" THEN GetPayload(t) ELSE IF op = "scan" THEN t.a ELSE t.b

Asked(c) ==
  /\ hpc[c] = "read" /\ down[c] = << >>
  /\ up[c] = <<[req |-> creq[c], id |-> cid[c]]>>

Scanning(c) ==
  /\ hpc[c] = "scan" /\ up[c] = << >> /\ down[c] = << >> /\ creq[c].op = "scan"
  /\ \A i \in 1 .. Len(hseen[c]) : hseen[c][i].val \in window[c][hseen[c][i].key]
  /\ \A k \in Keys \ hleft[c] :
       \/ Absent \in window[c][k]
       \/ \E i \in 1 .. Len(hseen[c]) : hseen[c][i].key = k

Answered(c) ==
  /\ hpc[c] \in {"read", "write"} /\ up[c] = << >>
  /\ Stream(c) # << >>
  /\ Head(Stream(c)).kind = "header"
  /\ creq[c].op = "scan" => Head(Stream(c)).op = "scan"
  /\ Len(Stream(c)) = 1 + Following(creq[c].op, Head(Stream(c)))
  /\ Result(window[c], Tail(Stream(c))) /\ Effective(c)

Dropped(c) == hpc[c] = "closed" /\ up[c] = << >> /\ down[c] = << >>

Reading(c) ==
  /\ hpc[c] \in {"read", "write", "closed"} /\ up[c] = << >> /\ Effective(c)
  /\ hpc[c] = "closed" => down[c] = << >>
  /\ hpc[c] = "closed" /\ need[c] = 0 => Result(window[c], cres[c])
  /\ hpc[c] # "closed" => Len(Stream(c)) = need[c] /\ Result(window[c], cres[c] \o Stream(c))

\* The call of a client none of whose calls has failed.
CallInv(c) ==
  /\ cpc[c] = "idle" =>
       up[c] = << >> /\ down[c] = << >> /\ hpc[c] \in {"read", "closed"}
  /\ cpc[c] = "header" => Asked(c) \/ Scanning(c) \/ Answered(c) \/ Dropped(c)
  /\ cpc[c] = "payload" => Reading(c)

CleanInv == \A c \in Clients : clean[c] => CallInv(c)

StreamInv == WindowInv /\ ScanInv /\ CleanInv

-----------------------------------------------------------------------------
(* Pieces and sequences of them.                                           *)

Associates(x, y, z) == (x \o y) \o z = x \o (y \o z)

\* Concatenation of sequences is associative.
LEMMA Associative ==
  \A S : \A x, y, z \in Seq(S) : Associates(x, y, z)
PROOF
  BY ConcatAssociative, Zenon DEF Associates

\* Consuming the head of t at the end of s.
LEMMA MoveHead ==
  ASSUME NEW S, NEW s \in Seq(S), NEW t \in Seq(S), t # << >>
  PROVE  Append(s, Head(t)) \o Tail(t) = s \o t
PROOF
  <1>1. Append(s, Head(t)) = s \o <<Head(t)>> /\ Head(t) \in S /\ Tail(t) \in Seq(S)
    BY AppendIsConcat, HeadTailProperties
  <1>2. <<Head(t)>> \in Seq(S) /\ <<Head(t)>> \o Tail(t) = t
    BY <1>1
  <1>3. (s \o <<Head(t)>>) \o Tail(t) = s \o (<<Head(t)>> \o Tail(t))
    <2>1. Associates(s, <<Head(t)>>, Tail(t))
      BY <1>1, <1>2, Associative, Zenon
    <2> QED
      BY <2>1, Zenon DEF Associates
  <1> QED
    BY <1>1, <1>2, <1>3, Zenon

\* The same with a rest r behind.
LEMMA MoveHeadOf ==
  ASSUME NEW S, NEW s \in Seq(S), NEW t \in Seq(S), NEW r \in Seq(S), t # << >>
  PROVE  /\ Append(s, Head(t)) \o (Tail(t) \o r) = s \o (t \o r)
         /\ Len(Tail(t) \o r) = Len(t \o r) - 1
PROOF
  <1>1. Append(s, Head(t)) \in Seq(S) /\ Tail(t) \in Seq(S)
    BY HeadTailProperties, AppendProperties
  <1>2. Associates(Append(s, Head(t)), Tail(t), r)
    BY <1>1, Associative, Zenon
  <1>3. Associates(s, t, r)
    BY Associative, Zenon
  <1>4. Len(Tail(t) \o r) = Len(t \o r) - 1
    BY <1>1, HeadTailProperties, ConcatProperties, LenProperties
  <1>5. Append(s, Head(t)) \o Tail(t) = s \o t
    BY MoveHead
  <1> QED
    BY <1>2, <1>3, <1>4, <1>5, Zenon DEF Associates

\* Consuming the head of s \o t.
LEMMA DropHead ==
  ASSUME NEW S, NEW s \in Seq(S), NEW t \in Seq(S), s # << >>
  PROVE  /\ s \o t # << >> /\ Head(s \o t) = Head(s)
         /\ Tail(s) \o t = Tail(s \o t)
         /\ Tail(s) \in Seq(S) /\ Head(s) \in S
PROOF
  OBVIOUS

LEMMA Tuples ==
  ASSUME NEW x \in Piece, NEW y \in Piece, NEW z \in Piece
  PROVE  <<x>> \o <<y>> = <<x, y>> /\ <<x>> \o <<y, z>> = <<x, y, z>>
PROOF
  <1>1. /\ <<x>> \in Seq(Piece) /\ <<y>> \in Seq(Piece) /\ <<y, z>> \in Seq(Piece)
        /\ <<x, y>> \in Seq(Piece) /\ <<x, y, z>> \in Seq(Piece)
    OBVIOUS
  <1>2. <<x>> \o <<y>> = <<x, y>>
    <2>1. \A i \in 1 .. 2 : (<<x>> \o <<y>>)[i] = <<x, y>>[i]
      BY <1>1
    <2>2. Len(<<x>> \o <<y>>) = 2 /\ <<x>> \o <<y>> \in Seq(Piece)
      BY <1>1
    <2> QED
      BY <1>1, <2>1, <2>2, SeqEqual
  <1>3. <<x>> \o <<y, z>> = <<x, y, z>>
    <2>1. \A i \in 1 .. 3 : (<<x>> \o <<y, z>>)[i] = <<x, y, z>>[i]
      BY <1>1
    <2>2. Len(<<x>> \o <<y, z>>) = 3 /\ <<x>> \o <<y, z>> \in Seq(Piece)
      BY <1>1
    <2> QED
      BY <1>1, <2>1, <2>2, SeqEqual
  <1> QED
    BY <1>2, <1>3

LEMMA SmallModulo ==
  ASSUME NEW n \in Nat, NEW m \in Nat, n < m
  PROVE  n % m = n
PROOF
  OBVIOUS

LEMMA PieceFacts ==
  /\ \A o \in {"none", "get", "scan", "echo"}, a \in Nat, b \in Nat :
       Header(o, a, b) \in Piece
  /\ \A k \in Keys \cup {None}, v \in Values \cup {Absent, None} : Payload(k, v) \in Piece
  /\ \A k \in Keys, v \in Values : Payload(k, v) \in Item
  /\ Item \subseteq Piece
PROOF
  BY DEF Header, Payload, Piece, Item

\* An answer is a header with payload.
LEMMA AnswerTyped ==
  ASSUME SesTypeOK, NEW q \in Request, NEW items \in Seq(Piece)
  PROVE  Answer(q, items) \in Seq(Piece) /\ Answer(q, items) # << >>
PROOF
  <1>1. kv \in [Keys -> Values \cup {Absent}]
    BY DEF SesTypeOK
  <1>2. CASE q.op \in {"put", "delete"}
    <2>1. Answer(q, items) = <<Header("none", 0, 0)>>
      BY <1>2 DEF Answer, Ack
    <2> QED
      BY <2>1, PieceFacts
  <1>3. CASE q.op = "get" /\ kv[q.key] = Absent
    <2>1. Answer(q, items) = <<Header("none", NotFoundLen, 0)>>
      BY <1>3 DEF Answer, NotFound
    <2> QED
      BY <2>1, PieceFacts, SessionAssumption
  <1>4. CASE q.op = "get" /\ kv[q.key] # Absent
    <2>1. Answer(q, items) = <<Header("get", 1, 1), Payload(q.key, None),
                               Payload(q.key, kv[q.key])>>
      BY <1>4 DEF Answer
    <2>2. q.key \in Keys
      BY <1>4 DEF Request
    <2>3. Header("get", 1, 1) \in Piece /\ Payload(q.key, None) \in Piece
          /\ Payload(q.key, kv[q.key]) \in Piece
      BY <1>1, <2>2, PieceFacts
    <2> QED
      BY <2>1, <2>3
  <1>5. CASE q.op = "scan"
    <2>1. Answer(q, items) = <<Header("scan", CountSent(Len(items)), Len(items))>> \o items
      BY <1>5 DEF Answer
    <2>2. CountSent(Len(items)) \in Nat
      BY SessionAssumption DEF CountSent
    <2>3. Header("scan", CountSent(Len(items)), Len(items)) \in Piece
      BY <2>2, PieceFacts
    <2> QED
      BY <2>1, <2>3
  <1>6. CASE q.op = "echo"
    <2>1. Answer(q, items) = <<Header("echo", 0, 1), Payload(None, None)>>
      BY <1>6 DEF Answer
    <2>2. Header("echo", 0, 1) \in Piece /\ Payload(None, None) \in Piece
      BY PieceFacts
    <2> QED
      BY <2>1, <2>2
  <1> QED
    BY <1>2, <1>3, <1>4, <1>5, <1>6 DEF Request

-----------------------------------------------------------------------------
(* Types.                                                                  *)

LEMMA InitType == SesInit => TypeInv
PROOF
  <1> SUFFICES ASSUME SesInit PROVE TypeInv
    OBVIOUS
  <1>1. << >> \in Seq(Piece) /\ << >> \in Seq(Item)
        /\ << >> \in Seq([req : Request, id : 1 .. MaxCalls])
    OBVIOUS
  <1>2. SesTypeOK
    BY <1>1, SessionAssumption DEF SesInit, SesTypeOK, EmptyWindow
  <1> QED
    BY <1>1, <1>2 DEF TypeInv, SesInit

\* The clauses of the type invariant about the client and about the handler.
ClientTypes ==
  /\ cpc \in [Clients -> {"idle", "header", "payload"}]
  /\ creq \in [Clients -> Request \cup {NoRequest}]
  /\ cid \in [Clients -> 0 .. MaxCalls] /\ need \in [Clients -> Nat]
  /\ cres \in [Clients -> Seq(Piece)]
  /\ cclosed \in [Clients -> BOOLEAN] /\ clean \in [Clients -> BOOLEAN]
  /\ calls \in 0 .. MaxCalls
  /\ window \in [Clients -> [Keys -> SUBSET (Values \cup {Absent})]]
  /\ \A c \in Clients : cpc[c] # "idle" => creq[c] \in Request /\ ~ cclosed[c]
  /\ \A c \in Clients : cpc[c] # "payload" => cres[c] = << >>

ServerTypes ==
  /\ kv \in [Keys -> Values \cup {Absent}]
  /\ up \in [Clients -> Seq([req : Request, id : 1 .. MaxCalls])]
  /\ down \in [Clients -> Seq(Piece)]
  /\ hpc \in [Clients -> {"read", "scan", "write", "closed"}]
  /\ hout \in [Clients -> Seq(Piece)]
  /\ \A c \in Clients : hout[c] # << >> <=> hpc[c] = "write"
  /\ hleft \in [Clients -> SUBSET Keys] /\ hseen \in [Clients -> Seq(Piece)]
  /\ \A c \in Clients : hseen[c] \in Seq(Item)

LEMMA TypesSplit ==
  /\ TypeInv <=> ClientTypes /\ ServerTypes
  /\ TypeInv' <=> ClientTypes' /\ ServerTypes'
PROOF
  BY DEF TypeInv, SesTypeOK, ClientTypes, ServerTypes

LEMMA OverTyped ==
  ASSUME ClientTypes, NEW c \in Clients, CallOver(c),
         UNCHANGED <<cclosed, calls>>,
         clean' = clean \/ clean' = [clean EXCEPT ![c] = FALSE]
  PROVE  ClientTypes'
PROOF
  <1>1. EmptyWindow \in [Keys -> SUBSET (Values \cup {Absent})]
    BY DEF EmptyWindow
  <1>2. clean' \in [Clients -> BOOLEAN]
    BY DEF ClientTypes
  <1>3. 0 \in 0 .. MaxCalls /\ << >> \in Seq(Piece)
    BY SessionAssumption
  <1>4. /\ cpc' \in [Clients -> {"idle", "header", "payload"}]
        /\ creq' \in [Clients -> Request \cup {NoRequest}]
        /\ cid' \in [Clients -> 0 .. MaxCalls]
    BY <1>3 DEF ClientTypes, CallOver
  <1>5. /\ need' \in [Clients -> Nat] /\ cres' \in [Clients -> Seq(Piece)]
        /\ window' \in [Clients -> [Keys -> SUBSET (Values \cup {Absent})]]
    BY <1>1, <1>3 DEF ClientTypes, CallOver
  <1>6. \A d \in Clients :
          /\ cpc'[d] # "idle" => creq'[d] \in Request /\ ~ cclosed[d]
          /\ cpc'[d] # "payload" => cres'[d] = << >>
    BY DEF ClientTypes, CallOver
  <1> QED
    BY <1>2, <1>4, <1>5, <1>6 DEF ClientTypes

\* Steps of the client.
LEMMA ClientType ==
  ASSUME TypeInv, NEW c \in Clients,
         \/ \E q \in Request : Call(c, q)
         \/ ClientStep(c) \/ TimesOut(c) \/ ClientClose(c)
  PROVE  TypeInv'
PROOF
  <1>0. ClientTypes /\ ServerTypes
    BY TypesSplit
  <1> SUFFICES ClientTypes' /\ ServerTypes'
    BY TypesSplit
  <1>1. ASSUME NEW q \in Request, Call(c, q) PROVE ClientTypes' /\ ServerTypes'
    <2>1. /\ calls \in Nat /\ calls + 1 \in 1 .. MaxCalls
      BY <1>0, <1>1, SessionAssumption DEF Call, ClientTypes
    <2>2. [k \in Keys |-> IF q.op = "scan" \/ (q.op = "get" /\ q.key = k)
                          THEN {kv[k]} ELSE {}]
            \in [Keys -> SUBSET (Values \cup {Absent})]
      BY <1>0 DEF ServerTypes
    <2>3. ClientTypes'
      BY <1>0, <1>1, <2>1, <2>2 DEF Call, ClientTypes
    <2>4. Append(up[c], [req |-> q, id |-> calls + 1])
            \in Seq([req : Request, id : 1 .. MaxCalls])
      <3>1. [req |-> q, id |-> calls + 1] \in [req : Request, id : 1 .. MaxCalls]
        BY <2>1
      <3> QED
        BY <1>0, <3>1, AppendProperties DEF ServerTypes
    <2>5. up' \in [Clients -> Seq([req : Request, id : 1 .. MaxCalls])]
      BY <1>0, <1>1, <2>4 DEF Call, ServerTypes
    <2> QED
      BY <1>0, <1>1, <2>3, <2>5 DEF Call, ServerTypes, handlerVars
  <1>2. ASSUME UNCHANGED <<kv, up, handlerVars>>, down' \in [Clients -> Seq(Piece)]
        PROVE  ServerTypes'
    BY <1>0, <1>2 DEF ServerTypes, handlerVars
  <1>3. ASSUME down[c] # << >>
        PROVE  /\ [down EXCEPT ![c] = Tail(@)] \in [Clients -> Seq(Piece)]
               /\ Head(down[c]) \in Piece
    BY <1>0, <1>3 DEF ServerTypes
  <1>4. CASE ReadHeader(c)
    <2>1. ServerTypes'
      BY <1>2, <1>3, <1>4 DEF ReadHeader
    <2> DEFINE t == Head(down[c])
    <2>2. t \in Piece
      BY <1>3, <1>4 DEF ReadHeader
    <2>3. CASE Accepts(creq[c].op, t)
      <3>1. creq[c] \in Request
        BY <1>0, <1>4 DEF ReadHeader, ClientTypes
      <3>2. ASSUME NEW n \in Needed(creq[c].op, t) PROVE n \in Nat
        <4>1. CASE t.kind = "header"
          <5>1. t.a \in Nat /\ t.b \in Nat
            BY <2>2, <4>1 DEF Piece
          <5> QED
            BY <3>1, <4>1, <5>1 DEF Needed, GetPayload, Request
        <4>2. CASE t.kind # "header"
          <5>1. creq[c].op = "echo"
            BY <2>3, <4>2 DEF Accepts
          <5> QED
            BY <4>2, <5>1 DEF Needed
        <4> QED
          BY <4>1, <4>2
      <3>3. PICK n \in Nat : need' = [need EXCEPT ![c] = n]
        BY <1>4, <2>3, <3>2 DEF ReadHeader
      <3>4. /\ cpc' = [cpc EXCEPT ![c] = "payload"] /\ cpc[c] = "header"
            /\ UNCHANGED <<creq, cid, cres, clean, window, cclosed, calls>>
        BY <1>4, <2>3 DEF ReadHeader
      <3> QED
        BY <1>0, <2>1, <3>3, <3>4 DEF ClientTypes
    <2>4. CASE ~ Accepts(creq[c].op, t)
      BY <1>0, <1>4, <2>1, <2>4, OverTyped DEF ReadHeader, CallFails
    <2> QED
      BY <2>3, <2>4
  <1>5. CASE ReadPayload(c)
    <2>1. ServerTypes'
      BY <1>2, <1>3, <1>5 DEF ReadPayload
    <2>2. Append(cres[c], Head(down[c])) \in Seq(Piece)
      BY <1>0, <1>3, <1>5 DEF ReadPayload, ClientTypes
    <2>3. need[c] - 1 \in Nat
      BY <1>0, <1>5 DEF ReadPayload, ClientTypes
    <2> QED
      BY <1>0, <1>5, <2>1, <2>2, <2>3 DEF ReadPayload, ClientTypes
  <1>6. CASE ReturnFromCall(c) \/ ReadsEOF(c) \/ TimesOut(c)
    <2>1. /\ CallOver(c) /\ UNCHANGED <<kv, cclosed, up, down, handlerVars, calls>>
          /\ clean' = clean \/ clean' = [clean EXCEPT ![c] = FALSE]
      BY <1>6 DEF ReturnFromCall, ReadsEOF, TimesOut, CallFails
    <2>2. ClientTypes'
      BY <1>0, <2>1, OverTyped
    <2> QED
      BY <1>0, <1>2, <2>1, <2>2 DEF ServerTypes
  <1>7. CASE ClientClose(c)
    <2>1. cclosed' \in [Clients -> BOOLEAN]
      BY <1>0, <1>7 DEF ClientClose, ClientTypes
    <2> QED
      BY <1>0, <1>2, <1>7, <2>1 DEF ClientClose, ClientTypes, ServerTypes
  <1> QED
    BY <1>1, <1>4, <1>5, <1>6, <1>7 DEF ClientStep

\* Steps of the handler, and of the network.
LEMMA HandlerType ==
  ASSUME TypeInv, NEW c \in Clients, HandlerStep(c) \/ ConnectionDrops(c)
  PROVE  TypeInv'
PROOF
  <1>0. ClientTypes /\ ServerTypes /\ SesTypeOK
    BY TypesSplit DEF TypeInv
  <1> SUFFICES ClientTypes' /\ ServerTypes'
    BY TypesSplit
  <1> DEFINE Letter == [req : Request, id : 1 .. MaxCalls]
  <1>1. ASSUME UNCHANGED <<clientVars, calls, clean>>,
               window' \in [Clients -> [Keys -> SUBSET (Values \cup {Absent})]]
        PROVE  ClientTypes'
    BY <1>0, <1>1 DEF ClientTypes, clientVars
  <1>2. UNCHANGED window => window' \in [Clients -> [Keys -> SUBSET (Values \cup {Absent})]]
    BY <1>0 DEF ClientTypes
  <1>3. ASSUME Received(c)
        PROVE  /\ up' \in [Clients -> Seq(Letter)] /\ NextRequest(c) \in Request
               /\ hpc[c] = "read" /\ hout[c] = << >> /\ Head(up[c]) \in Letter
    <2>1. up[c] \in Seq(Letter) /\ up[c] # << >> /\ hpc[c] = "read"
      BY <1>0, <1>3 DEF ServerTypes, Received
    <2>2. Head(up[c]) \in Letter /\ Tail(up[c]) \in Seq(Letter)
      BY <2>1, HeadTailProperties
    <2>3. up' = [up EXCEPT ![c] = Tail(up[c])]
      BY <1>3 DEF Received, Consumed
    <2> QED
      BY <1>0, <2>1, <2>2, <2>3 DEF ServerTypes, NextRequest
  <1>4. ASSUME HandlerCloses(c), UNCHANGED kv,
               up' \in [Clients -> Seq(Letter)], down' \in [Clients -> Seq(Piece)]
        PROVE  ServerTypes'
    <2>1. << >> \in Seq(Piece) /\ << >> \in Seq(Item)
      OBVIOUS
    <2> QED
      BY <1>0, <1>4, <2>1 DEF ServerTypes, HandlerCloses
  <1>5. ASSUME NEW a \in Seq(Piece), a # << >>, hout' = [hout EXCEPT ![c] = a],
               hpc' = [hpc EXCEPT ![c] = "write"], UNCHANGED <<down, hleft>>,
               hseen' = hseen \/ hseen' = [hseen EXCEPT ![c] = << >>],
               up' \in [Clients -> Seq(Letter)], kv' \in [Keys -> Values \cup {Absent}]
        PROVE  ServerTypes'
    <2>1. /\ hout' \in [Clients -> Seq(Piece)]
          /\ hpc' \in [Clients -> {"read", "scan", "write", "closed"}]
          /\ \A d \in Clients : hout'[d] # << >> <=> hpc'[d] = "write"
      BY <1>0, <1>5 DEF ServerTypes
    <2>2. << >> \in Seq(Piece) /\ << >> \in Seq(Item)
      OBVIOUS
    <2>3. hseen' \in [Clients -> Seq(Piece)] /\ \A d \in Clients : hseen'[d] \in Seq(Item)
      BY <1>0, <1>5, <2>2 DEF ServerTypes
    <2> QED
      BY <1>0, <1>5, <2>1, <2>3 DEF ServerTypes
  <1>6. CASE HandleMutation(c)
    <2> DEFINE q == NextRequest(c)
               v == IF q.op = "delete" THEN Absent ELSE q.val
    <2>1. /\ q \in Request /\ q.op \in {"put", "delete"}
          /\ kv' = [kv EXCEPT ![q.key] = v] /\ window' = Seen(q.key, v)
          /\ hout' = [hout EXCEPT ![c] = Answer(q, << >>)]
          /\ hpc' = [hpc EXCEPT ![c] = "write"]
          /\ up' \in [Clients -> Seq(Letter)]
      BY <1>3, <1>6 DEF HandleMutation
    <2>2. q.key \in Keys /\ v \in Values \cup {Absent}
      BY <2>1 DEF Request
    <2>3. kv' \in [Keys -> Values \cup {Absent}]
      BY <1>0, <2>1, <2>2 DEF ServerTypes
    <2>4. window' \in [Clients -> [Keys -> SUBSET (Values \cup {Absent})]]
      BY <1>0, <2>1, <2>2 DEF ClientTypes, Seen
    <2>5. << >> \in Seq(Piece)
      OBVIOUS
    <2>6. Answer(q, << >>) \in Seq(Piece) /\ Answer(q, << >>) # << >>
      BY <1>0, <2>1, <2>5, AnswerTyped
    <2>7. UNCHANGED <<clientVars, down, hleft, hseen, calls, clean>>
      BY <1>6 DEF HandleMutation
    <2>8. ServerTypes'
      BY <1>5, <2>1, <2>3, <2>6, <2>7
    <2> QED
      BY <1>1, <2>4, <2>7, <2>8
  <1>7. CASE HandleRead(c)
    <2> DEFINE q == NextRequest(c)
    <2>1. /\ q \in Request
          /\ hout' = [hout EXCEPT ![c] = Answer(q, << >>)]
          /\ hpc' = [hpc EXCEPT ![c] = "write"]
          /\ up' \in [Clients -> Seq(Letter)]
          /\ UNCHANGED <<kv, clientVars, down, hleft, hseen, calls, clean, window>>
      BY <1>3, <1>7 DEF HandleRead
    <2>2. << >> \in Seq(Piece)
      OBVIOUS
    <2>3. Answer(q, << >>) \in Seq(Piece) /\ Answer(q, << >>) # << >>
      BY <1>0, <2>1, <2>2, AnswerTyped
    <2>4. kv' \in [Keys -> Values \cup {Absent}]
      BY <1>0, <2>1 DEF ServerTypes
    <2>5. ServerTypes'
      BY <1>5, <2>1, <2>3, <2>4
    <2> QED
      BY <1>1, <1>2, <2>1, <2>5
  <1>8. CASE HandleScan(c)
    <2>1. /\ up' \in [Clients -> Seq(Letter)] /\ hout[c] = << >>
          /\ hpc' = [hpc EXCEPT ![c] = "scan"] /\ hleft' = [hleft EXCEPT ![c] = Keys]
          /\ UNCHANGED <<kv, clientVars, down, hout, hseen, calls, clean, window>>
      BY <1>3, <1>8 DEF HandleScan
    <2>2. ServerTypes'
      BY <1>0, <2>1 DEF ServerTypes
    <2> QED
      BY <1>1, <1>2, <2>1, <2>2
  <1>9. CASE ScanKey(c)
    <2>1. PICK k \in hleft[c] :
            /\ hleft' = [hleft EXCEPT ![c] = @ \ {k}]
            /\ hseen' = [hseen EXCEPT ![c] = IF kv[k] = Absent THEN @
                                             ELSE Append(@, Payload(k, kv[k]))]
      BY <1>9 DEF ScanKey
    <2>2. UNCHANGED <<kv, clientVars, up, down, hpc, hout, calls, clean, window>>
      BY <1>9 DEF ScanKey
    <2>3. k \in Keys /\ kv[k] \in Values \cup {Absent} /\ hseen[c] \in Seq(Item)
      BY <1>0 DEF ServerTypes
    <2>4. kv[k] # Absent => Append(hseen[c], Payload(k, kv[k])) \in Seq(Item)
      BY <2>3, PieceFacts, AppendProperties
    <2>5. Seq(Item) \subseteq Seq(Piece)
      BY PieceFacts, SeqMonotonic
    <2>6. hseen' \in [Clients -> Seq(Piece)] /\ \A d \in Clients : hseen'[d] \in Seq(Item)
      BY <1>0, <2>1, <2>3, <2>4, <2>5 DEF ServerTypes
    <2>7. ServerTypes'
      BY <1>0, <2>1, <2>2, <2>6 DEF ServerTypes
    <2> QED
      BY <1>1, <1>2, <2>2, <2>7
  <1>10. CASE ScanReturns(c)
    <2> DEFINE q == [NoRequest EXCEPT !.op = "scan"]
    <2>1. q \in Request
      BY DEF NoRequest, Request
    <2>2. hseen[c] \in Seq(Piece) /\ kv \in [Keys -> Values \cup {Absent}]
          /\ up \in [Clients -> Seq(Letter)]
      BY <1>0 DEF ServerTypes
    <2>3. Answer(q, hseen[c]) \in Seq(Piece) /\ Answer(q, hseen[c]) # << >>
      BY <1>0, <2>1, <2>2, AnswerTyped
    <2>4. /\ hout' = [hout EXCEPT ![c] = Answer(q, hseen[c])]
          /\ hseen' = [hseen EXCEPT ![c] = << >>]
          /\ hpc' = [hpc EXCEPT ![c] = "write"]
          /\ UNCHANGED <<kv, clientVars, up, down, hleft, calls, clean, window>>
      BY <1>10 DEF ScanReturns
    <2>5. ServerTypes'
      BY <1>5, <2>2, <2>3, <2>4
    <2> QED
      BY <1>1, <1>2, <2>4, <2>5
  <1>11. CASE HandleError(c) \/ HandlerReadsEOF(c) \/ ConnectionDrops(c)
    <2>1. /\ HandlerCloses(c)
          /\ UNCHANGED <<kv, clientVars, calls, clean, window>>
      BY <1>11 DEF HandleError, HandlerReadsEOF, ConnectionDrops
    <2>2. << >> \in Seq(Piece) /\ << >> \in Seq(Letter)
      OBVIOUS
    <2>3. up' \in [Clients -> Seq(Letter)] /\ down' \in [Clients -> Seq(Piece)]
      BY <1>0, <1>3, <1>11, <2>2
      DEF HandleError, HandlerReadsEOF, ConnectionDrops, ServerTypes
    <2> QED
      BY <1>1, <1>2, <1>4, <2>1, <2>3
  <1>12. CASE WriteAnswer(c)
    <2>1. hpc[c] = "write" /\ UNCHANGED <<kv, clientVars, up, calls, clean, window>>
      BY <1>12 DEF WriteAnswer
    <2>2. /\ hout[c] \in Seq(Piece) /\ hout[c] # << >> /\ down[c] \in Seq(Piece)
          /\ up \in [Clients -> Seq(Letter)] /\ down \in [Clients -> Seq(Piece)]
      BY <1>0, <2>1 DEF ServerTypes
    <2>3. CASE /\ down' = [down EXCEPT ![c] = Append(@, Head(hout[c]))]
               /\ hout' = [hout EXCEPT ![c] = Tail(@)]
               /\ hpc' = [hpc EXCEPT ![c] = IF Len(hout[c]) = 1 THEN "read" ELSE "write"]
               /\ UNCHANGED <<hleft, hseen>>
      <3>1. /\ Append(down[c], Head(hout[c])) \in Seq(Piece)
            /\ Tail(hout[c]) \in Seq(Piece)
            /\ Tail(hout[c]) # << >> <=> Len(hout[c]) # 1
        <4>1. /\ Tail(hout[c]) \in Seq(Piece) /\ Head(hout[c]) \in Piece
              /\ Len(Tail(hout[c])) = Len(hout[c]) - 1 /\ Len(hout[c]) \in Nat
          BY <2>2, HeadTailProperties, LenProperties
        <4>2. Tail(hout[c]) = << >> <=> Len(Tail(hout[c])) = 0
          BY <4>1, EmptySeq
        <4> QED
          BY <2>2, <4>1, <4>2, AppendProperties
      <3>2. ServerTypes'
        BY <1>0, <2>1, <2>3, <3>1 DEF ServerTypes
      <3> QED
        BY <1>1, <1>2, <2>1, <3>2
    <2>4. CASE HandlerCloses(c) /\ UNCHANGED down
      BY <1>1, <1>2, <1>4, <2>1, <2>2, <2>4
    <2> QED
      BY <1>12, <2>3, <2>4 DEF WriteAnswer
  <1> QED
    BY <1>6, <1>7, <1>8, <1>9, <1>10, <1>11, <1>12 DEF HandlerStep

LEMMA NextType == TypeInv /\ [SesNext]_sesVars => TypeInv'
PROOF
  <1> SUFFICES ASSUME TypeInv, [SesNext]_sesVars PROVE TypeInv'
    OBVIOUS
  <1>1. CASE SesNext
    BY <1>1, ClientType, HandlerType DEF SesNext
  <1>2. CASE UNCHANGED sesVars
    BY <1>2 DEF sesVars, clientVars, handlerVars, TypeInv, SesTypeOK
  <1> QED
    BY <1>1, <1>2

-----------------------------------------------------------------------------
(* The order of mutations.                                                 *)

LEMMA InitOrder == SesInit => OrderInv
PROOF
  BY DEF SesInit, OrderInv

LEMMA NextOrder == TypeInv /\ OrderInv /\ [SesNext]_sesVars => OrderInv'
PROOF
  <1> SUFFICES ASSUME TypeInv, OrderInv, [SesNext]_sesVars PROVE OrderInv'
    OBVIOUS
  <1> DEFINE Letter == [req : Request, id : 1 .. MaxCalls]
  <1>1. /\ up \in [Clients -> Seq(Letter)] /\ calls \in 0 .. MaxCalls /\ MaxCalls \in Nat
        /\ applied \in Seq([id : 1 .. MaxCalls, client : Clients])
    BY SessionAssumption DEF TypeInv, SesTypeOK, OrderInv
  <1>2. /\ \A d \in Clients : \A i \in 1 .. Len(up[d]) : up[d][i].id \in 1 .. MaxCalls
        /\ \A i \in 1 .. Len(applied) : applied[i].id \in 1 .. MaxCalls
        /\ \A d \in Clients : Len(up[d]) \in Nat
        /\ Len(applied) \in Nat /\ calls \in Nat
    <2>1. ASSUME NEW d \in Clients
          PROVE  /\ Len(up[d]) \in Nat
                 /\ \A i \in 1 .. Len(up[d]) : up[d][i] \in Letter
      BY <1>1, ElementOfSeq, LenProperties
    <2>2. \A i \in 1 .. Len(applied) : applied[i] \in [id : 1 .. MaxCalls, client : Clients]
      BY <1>1, ElementOfSeq
    <2>3. \A x \in Letter : x.id \in 1 .. MaxCalls
      OBVIOUS
    <2>4. \A x \in [id : 1 .. MaxCalls, client : Clients] : x.id \in 1 .. MaxCalls
      OBVIOUS
    <2>5. \A d \in Clients : \A i \in 1 .. Len(up[d]) : up[d][i].id \in 1 .. MaxCalls
      <3> HIDE DEF Letter
      <3> QED
        BY <2>1, <2>3
    <2>6. \A i \in 1 .. Len(applied) : applied[i].id \in 1 .. MaxCalls
      BY <2>2, <2>4, Zenon
    <2>7. Len(applied) \in Nat
      BY <1>1, LenProperties
    <2>8. calls \in Nat
      BY <1>1
    <2> QED
      BY <2>1, <2>5, <2>6, <2>7, <2>8
  <1>3. ASSUME NEW c \in Clients, NEW q \in Request, Call(c, q) PROVE OrderInv'
    <2>1. applied' = applied /\ calls' = calls + 1
      BY <1>3 DEF Call
    <2>2. CASE up' = up
      <3>1. /\ \A i \in 1 .. Len(applied) : applied[i].id <= calls + 1
            /\ \A d \in Clients : \A i \in 1 .. Len(up[d]) : up[d][i].id <= calls + 1
        BY <1>2 DEF OrderInv
      <3> QED
        BY <2>1, <2>2, <3>1 DEF OrderInv
    <2>3. CASE up' = [up EXCEPT ![c] = Append(@, [req |-> q, id |-> calls + 1])]
      <3>1. \A d \in Clients : d # c => up'[d] = up[d]
        BY <1>1, <2>3
      <3>2. /\ Len(up'[c]) = Len(up[c]) + 1
            /\ \A i \in 1 .. Len(up[c]) : up'[c][i] = up[c][i]
            /\ up'[c][Len(up[c]) + 1].id = calls + 1
        BY <1>1, <2>3
      <3>3. \A i \in 1 .. Len(up'[c]) :
              /\ up'[c][i].id <= calls + 1
              /\ \A j \in 1 .. Len(up'[c]) : i < j => up'[c][i].id < up'[c][j].id
              /\ \A j \in 1 .. Len(applied) :
                   applied[j].client = c => applied[j].id < up'[c][i].id
        <4> SUFFICES ASSUME NEW i \in 1 .. Len(up'[c])
                     PROVE  /\ up'[c][i].id <= calls + 1
                            /\ \A j \in 1 .. Len(up'[c]) :
                                 i < j => up'[c][i].id < up'[c][j].id
                            /\ \A j \in 1 .. Len(applied) :
                                 applied[j].client = c => applied[j].id < up'[c][i].id
          OBVIOUS
        <4>1. CASE i = Len(up[c]) + 1
          <5>1. \A j \in 1 .. Len(applied) : applied[j].id < calls + 1
            BY <1>2 DEF OrderInv
          <5> QED
            BY <1>2, <3>2, <4>1, <5>1
        <4>2. CASE i \in 1 .. Len(up[c])
          <5>1. up'[c][i] = up[c][i] /\ up[c][i].id <= calls
            BY <3>2, <4>2 DEF OrderInv
          <5>2. ASSUME NEW j \in 1 .. Len(up'[c]), i < j
                PROVE  up'[c][i].id < up'[c][j].id
            <6>1. CASE j = Len(up[c]) + 1
              BY <1>2, <3>2, <4>2, <5>1, <6>1
            <6>2. CASE j \in 1 .. Len(up[c])
              BY <3>2, <4>2, <5>1, <5>2, <6>2 DEF OrderInv
            <6> QED
              BY <1>2, <3>2, <6>1, <6>2
          <5> QED
            BY <1>2, <4>2, <5>1, <5>2 DEF OrderInv
        <4> QED
          BY <1>2, <3>2, <4>1, <4>2
      <3>4. ASSUME NEW d \in Clients, NEW i \in 1 .. Len(up'[d])
            PROVE  /\ up'[d][i].id <= calls + 1
                   /\ \A j \in 1 .. Len(up'[d]) : i < j => up'[d][i].id < up'[d][j].id
                   /\ \A j \in 1 .. Len(applied) :
                        applied[j].client = d => applied[j].id < up'[d][i].id
        <4>1. CASE d = c
          BY <3>3, <3>4, <4>1
        <4>2. CASE d # c
          <5>1. up'[d] = up[d] /\ i \in 1 .. Len(up[d])
            BY <3>1, <3>4, <4>2
          <5>2. up[d][i].id <= calls + 1
            BY <1>2, <5>1 DEF OrderInv
          <5> QED
            BY <5>1, <5>2 DEF OrderInv
        <4> QED
          BY <4>1, <4>2
      <3>5. \A i \in 1 .. Len(applied) : applied[i].id <= calls + 1
        BY <1>2 DEF OrderInv
      <3> QED
        BY <1>1, <2>1, <3>4, <3>5 DEF OrderInv
    <2> QED
      BY <1>1, <1>3, <2>2, <2>3 DEF Call
  <1>4. ASSUME UNCHANGED <<up, calls, applied>> PROVE OrderInv'
    BY <1>4 DEF OrderInv
  \* A request leaves the connection, or all requests do.
  <1>5. ASSUME NEW c \in Clients, UNCHANGED <<calls, applied>>,
               \/ up[c] # << >> /\ up' = [up EXCEPT ![c] = Tail(@)]
               \/ up' = [up EXCEPT ![c] = << >>]
        PROVE  OrderInv'
    <2>1. PICK n \in Nat :
            /\ n <= Len(up[c]) /\ Len(up'[c]) = Len(up[c]) - n
            /\ \A i \in 1 .. Len(up'[c]) : up'[c][i] = up[c][i + n]
      <3>0. up[c] \in Seq(Letter) /\ Len(up[c]) \in Nat /\ c \in DOMAIN up
        BY <1>1, <1>2
      <3>1. CASE up[c] # << >> /\ up' = [up EXCEPT ![c] = Tail(@)]
        <4>1. /\ 1 <= Len(up[c]) /\ Len(up'[c]) = Len(up[c]) - 1
              /\ \A i \in 1 .. Len(up'[c]) : up'[c][i] = up[c][i + 1]
          BY <3>0, <3>1
        <4> QED
          BY <4>1
      <3>2. CASE up' = [up EXCEPT ![c] = << >>]
        <4>1. up'[c] = << >> /\ Len(up'[c]) = 0
          BY <3>0, <3>2
        <4> QED
          BY <3>0, <4>1
      <3> QED
        BY <1>5, <3>1, <3>2
    <2>2. \A d \in Clients : d # c => up'[d] = up[d]
      BY <1>1, <1>5
    <2>3. \A i \in 1 .. Len(up'[c]) :
            /\ up'[c][i].id <= calls
            /\ \A j \in 1 .. Len(up'[c]) : i < j => up'[c][i].id < up'[c][j].id
            /\ \A j \in 1 .. Len(applied) :
                 applied[j].client = c => applied[j].id < up'[c][i].id
      <3>1. \A i \in 1 .. Len(up'[c]) : i + n \in 1 .. Len(up[c])
        BY <1>2, <2>1
      <3>2. \A i, j \in 1 .. Len(up'[c]) : i < j => i + n < j + n
        BY <1>2, <2>1
      <3> QED
        BY <2>1, <3>1, <3>2 DEF OrderInv
    <2> QED
      BY <1>1, <1>5, <2>2, <2>3 DEF OrderInv
  <1>6. ASSUME NEW c \in Clients, HandleMutation(c) PROVE OrderInv'
    <2> DEFINE x == [id |-> up[c][1].id, client |-> c]
    <2>1. /\ up[c] # << >> /\ up' = [up EXCEPT ![c] = Tail(@)] /\ calls' = calls
          /\ applied' = Append(applied, x)
      BY <1>1, <1>6 DEF HandleMutation, Received, Consumed
    <2>2. /\ Len(up[c]) \in Nat \ {0} /\ Len(up'[c]) = Len(up[c]) - 1
          /\ \A i \in 1 .. Len(up'[c]) : up'[c][i] = up[c][i + 1]
          /\ \A d \in Clients : d # c => up'[d] = up[d]
      BY <1>1, <2>1
    <2>3. x.id \in 1 .. MaxCalls /\ x.id <= calls
      BY <1>2, <2>2 DEF OrderInv
    <2>4. x \in [id : 1 .. MaxCalls, client : Clients]
      BY <2>3
    <2>5. /\ applied' \in Seq([id : 1 .. MaxCalls, client : Clients])
          /\ Len(applied') = Len(applied) + 1
          /\ \A i \in 1 .. Len(applied) : applied'[i] = applied[i]
          /\ applied'[Len(applied) + 1] = x
      BY <1>1, <2>1, <2>4, AppendProperties
    <2>6. \A i \in 1 .. Len(applied') : applied'[i].id <= calls
      <3> SUFFICES ASSUME NEW i \in 1 .. Len(applied') PROVE applied'[i].id <= calls
        OBVIOUS
      <3>1. i \in 1 .. Len(applied) \/ i = Len(applied) + 1
        BY <1>2, <2>5
      <3> QED
        BY <2>3, <2>5, <3>1 DEF OrderInv
    <2>7. \A i, j \in 1 .. Len(applied') :
            i < j /\ applied'[i].client = applied'[j].client =>
              applied'[i].id < applied'[j].id
      <3> SUFFICES ASSUME NEW i \in 1 .. Len(applied'), NEW j \in 1 .. Len(applied'),
                          i < j, applied'[i].client = applied'[j].client
                   PROVE  applied'[i].id < applied'[j].id
        OBVIOUS
      <3>1. i \in 1 .. Len(applied) /\ applied'[i] = applied[i]
        BY <1>2, <2>5
      <3>2. CASE j = Len(applied) + 1
        <4>1. applied'[j].id = up[c][1].id /\ applied[i].client = c /\ 1 \in 1 .. Len(up[c])
          BY <2>2, <2>5, <3>1, <3>2
        <4> QED
          BY <3>1, <4>1 DEF OrderInv
      <3>3. CASE j \in 1 .. Len(applied)
        BY <2>5, <3>1, <3>3 DEF OrderInv
      <3> QED
        BY <1>2, <2>5, <3>2, <3>3
    <2>8. ASSUME NEW d \in Clients, NEW i \in 1 .. Len(up'[d])
          PROVE  /\ up'[d][i].id <= calls
                 /\ \A j \in 1 .. Len(up'[d]) : i < j => up'[d][i].id < up'[d][j].id
                 /\ \A j \in 1 .. Len(applied') :
                      applied'[j].client = d => applied'[j].id < up'[d][i].id
      <3>1. CASE d = c
        <4>1. i + 1 \in 1 .. Len(up[c]) /\ up'[c][i] = up[c][i + 1] /\ 1 \in 1 .. Len(up[c])
          BY <2>2, <2>8, <3>1
        <4>2. x.id < up[c][i + 1].id
          BY <4>1 DEF OrderInv
        <4>3. \A j \in 1 .. Len(applied') :
                applied'[j].client = c => applied'[j].id < up[c][i + 1].id
          <5> SUFFICES ASSUME NEW j \in 1 .. Len(applied'), applied'[j].client = c
                       PROVE  applied'[j].id < up[c][i + 1].id
            OBVIOUS
          <5>1. j \in 1 .. Len(applied) \/ j = Len(applied) + 1
            BY <1>2, <2>5
          <5> QED
            BY <2>5, <4>1, <4>2, <5>1 DEF OrderInv
        <4>4. \A j \in 1 .. Len(up'[c]) : i < j => up'[c][i].id < up'[c][j].id
          <5> SUFFICES ASSUME NEW j \in 1 .. Len(up'[c]), i < j
                       PROVE  up'[c][i].id < up'[c][j].id
            OBVIOUS
          <5>1. j + 1 \in 1 .. Len(up[c]) /\ i + 1 < j + 1 /\ up'[c][j] = up[c][j + 1]
            BY <2>2, <2>8, <3>1
          <5> QED
            BY <4>1, <5>1 DEF OrderInv
        <4> QED
          BY <3>1, <4>1, <4>3, <4>4 DEF OrderInv
      <3>2. CASE d # c
        <4>1. up'[d] = up[d] /\ x.client # d
          BY <2>2, <3>2
        <4>2. \A j \in 1 .. Len(applied') :
                applied'[j].client = d => applied'[j].id < up[d][i].id
          <5> SUFFICES ASSUME NEW j \in 1 .. Len(applied'), applied'[j].client = d
                       PROVE  applied'[j].id < up[d][i].id
            OBVIOUS
          <5>1. j \in 1 .. Len(applied) \/ j = Len(applied) + 1
            BY <1>2, <2>5
          <5> QED
            BY <2>5, <2>8, <4>1, <5>1 DEF OrderInv
        <4> QED
          BY <2>8, <4>1, <4>2 DEF OrderInv
      <3> QED
        BY <3>1, <3>2
    <2>9. \A d \in Clients : \A i \in 1 .. Len(up'[d]) :
            /\ up'[d][i].id <= calls'
            /\ \A j \in 1 .. Len(up'[d]) : i < j => up'[d][i].id < up'[d][j].id
            /\ \A j \in 1 .. Len(applied') : applied'[j].client = d => applied'[j].id < up'[d][i].id
      BY <2>1, <2>8
    <2>10. applied' \in Seq([id : 1 .. MaxCalls, client : Clients])
      BY <2>5
    <2>11. \A i \in 1 .. Len(applied') : applied'[i].id <= calls'
      BY <2>1, <2>6
    <2> QED
      BY <2>7, <2>9, <2>10, <2>11, Zenon DEF OrderInv
  <1>7. ASSUME NEW c \in Clients, HandleRead(c) \/ HandleScan(c) \/ HandleError(c)
        PROVE  OrderInv'
    BY <1>5, <1>7 DEF HandleRead, HandleScan, HandleError, Received, Consumed
  <1>8. ASSUME NEW c \in Clients, ConnectionDrops(c) PROVE OrderInv'
    BY <1>5, <1>8 DEF ConnectionDrops
  <1>9. ASSUME NEW c \in Clients,
               \/ ClientStep(c) \/ TimesOut(c) \/ ClientClose(c) \/ ScanKey(c)
               \/ ScanReturns(c) \/ WriteAnswer(c) \/ HandlerReadsEOF(c)
        PROVE  OrderInv'
    BY <1>4, <1>9 DEF ClientStep, ReadHeader, ReadPayload, ReturnFromCall, ReadsEOF,
       TimesOut, ClientClose, ScanKey, ScanReturns, WriteAnswer, HandlerReadsEOF
  <1>10. CASE UNCHANGED sesVars
    BY <1>4, <1>10 DEF sesVars
  <1> QED
    BY <1>3, <1>6, <1>7, <1>8, <1>9, <1>10 DEF SesNext, HandlerStep

-----------------------------------------------------------------------------
(* Windows and Scans.                                                      *)

\* A call that is over.
LEMMA OverFacts ==
  ASSUME TypeInv, NEW c \in Clients, CallOver(c)
  PROVE  /\ cpc'[c] = "idle" /\ window'[c] = EmptyWindow
         /\ \A d \in Clients : d # c =>
              /\ cpc'[d] = cpc[d] /\ creq'[d] = creq[d] /\ cid'[d] = cid[d]
              /\ need'[d] = need[d] /\ cres'[d] = cres[d] /\ window'[d] = window[d]
PROOF
  BY DEF CallOver, TypeInv, SesTypeOK

\* A value that a key takes is added to the windows that are open on the key.
LEMMA SeenFacts ==
  ASSUME TypeInv, NEW k \in Keys, NEW v, window' = Seen(k, v), NEW d \in Clients
  PROVE  /\ \A j \in Keys : /\ window[d][j] \subseteq window'[d][j]
                            /\ window'[d][j] # {} => window[d][j] # {}
                            /\ j # k => window'[d][j] = window[d][j]
         /\ window'[d][k] # {} => v \in window'[d][k]
PROOF
  BY DEF Seen, TypeInv, SesTypeOK

LEMMA InitWindow == SesInit => WindowInv
PROOF
  BY DEF SesInit, WindowInv, EmptyWindow

LEMMA NextWindow == TypeInv /\ WindowInv /\ [SesNext]_sesVars => WindowInv'
PROOF
  <1> SUFFICES ASSUME TypeInv, WindowInv, [SesNext]_sesVars PROVE WindowInv'
    OBVIOUS
  <1>1. /\ cpc \in [Clients -> {"idle", "header", "payload"}]
        /\ creq \in [Clients -> Request \cup {NoRequest}]
        /\ window \in [Clients -> [Keys -> SUBSET (Values \cup {Absent})]]
        /\ kv \in [Keys -> Values \cup {Absent}]
    BY DEF TypeInv, SesTypeOK
  <1>2. ASSUME NEW c \in Clients, NEW q \in Request, Call(c, q) PROVE WindowInv'
    BY <1>1, <1>2 DEF Call, WindowInv
  <1>3. ASSUME NEW c \in Clients, CallOver(c), UNCHANGED kv PROVE WindowInv'
    BY <1>3, OverFacts DEF WindowInv, EmptyWindow
  <1>4. ASSUME NEW c \in Clients, HandleMutation(c) PROVE WindowInv'
    <2> DEFINE q == NextRequest(c)
               v == IF q.op = "delete" THEN Absent ELSE q.val
    <2>1. /\ q.op \in {"put", "delete"} /\ kv' = [kv EXCEPT ![q.key] = v]
          /\ window' = Seen(q.key, v) /\ UNCHANGED <<cpc, creq>>
          /\ up[c] # << >>
      BY <1>4 DEF HandleMutation, Received, clientVars
    <2>2. q.key \in Keys
      <3>1. Head(up[c]) \in [req : Request, id : 1 .. MaxCalls]
        BY <2>1, HeadTailProperties DEF TypeInv, SesTypeOK
      <3> QED
        BY <2>1, <3>1 DEF NextRequest, Request
    <2>3. \A j \in Keys : kv'[j] = IF j = q.key THEN v ELSE kv[j]
      BY <1>1, <2>1, <2>2
    <2>4. ASSUME NEW d \in Clients, NEW j \in Keys
          PROVE  /\ window'[d][j] # {} <=> window[d][j] # {}
                 /\ window'[d][j] # {} => kv'[j] \in window'[d][j]
      BY <2>1, <2>2, <2>3, SeenFacts DEF WindowInv
    <2> QED
      BY <2>1, <2>4 DEF WindowInv
  <1>5. ASSUME UNCHANGED <<kv, cpc, creq, window>> PROVE WindowInv'
    BY <1>5 DEF WindowInv
  <1>6. ASSUME NEW c \in Clients, ReadHeader(c) PROVE WindowInv'
    <2>1. CASE CallFails(c)
      BY <1>3, <1>6, <2>1 DEF CallFails, ReadHeader
    <2>2. CASE /\ cpc' = [cpc EXCEPT ![c] = "payload"]
               /\ UNCHANGED <<creq, cid, cres, clean, window>>
      BY <1>1, <1>6, <2>2 DEF ReadHeader, WindowInv
    <2> QED
      BY <1>6, <2>1, <2>2 DEF ReadHeader
  <1>7. ASSUME NEW c \in Clients, ReturnFromCall(c) \/ ReadsEOF(c) \/ TimesOut(c)
        PROVE  WindowInv'
    BY <1>3, <1>7 DEF ReturnFromCall, ReadsEOF, TimesOut, CallFails
  <1>8. ASSUME NEW c \in Clients,
               \/ ReadPayload(c) \/ ClientClose(c) \/ HandleRead(c) \/ HandleScan(c)
               \/ ScanKey(c) \/ ScanReturns(c) \/ HandleError(c) \/ WriteAnswer(c)
               \/ HandlerReadsEOF(c) \/ ConnectionDrops(c)
        PROVE  WindowInv'
    BY <1>5, <1>8 DEF ReadPayload, ClientClose, HandleRead, HandleScan, ScanKey,
       ScanReturns, HandleError, WriteAnswer, HandlerReadsEOF, ConnectionDrops,
       clientVars
  <1>9. CASE UNCHANGED sesVars
    BY <1>5, <1>9 DEF sesVars, clientVars
  <1> QED
    BY <1>2, <1>4, <1>6, <1>7, <1>8, <1>9 DEF SesNext, ClientStep, HandlerStep

LEMMA InitScan == SesInit /\ IsFiniteSet(Keys) => ScanInv
PROOF
  <1> SUFFICES ASSUME SesInit, IsFiniteSet(Keys) PROVE ScanInv
    OBVIOUS
  <1>1. Cardinality(Keys) \in Nat /\ Cardinality({}) = 0
    BY FS_CardinalityType, FS_EmptySet
  <1> QED
    BY <1>1 DEF SesInit, ScanInv

LEMMA NextScan ==
  TypeInv /\ ScanInv /\ IsFiniteSet(Keys) /\ [SesNext]_sesVars => ScanInv'
PROOF
  <1> SUFFICES ASSUME TypeInv, ScanInv, IsFiniteSet(Keys), [SesNext]_sesVars
               PROVE  ScanInv'
    OBVIOUS
  <1>1. Cardinality(Keys) \in Nat /\ Cardinality({}) = 0
    BY FS_CardinalityType, FS_EmptySet
  <1>2. /\ hpc \in [Clients -> {"read", "scan", "write", "closed"}]
        /\ hleft \in [Clients -> SUBSET Keys] /\ hseen \in [Clients -> Seq(Piece)]
    BY DEF TypeInv, SesTypeOK
  <1>3. ASSUME UNCHANGED <<hpc, hleft, hseen>> PROVE ScanInv'
    BY <1>3 DEF ScanInv
  <1>4. ASSUME NEW c \in Clients, NEW p, p # "scan",
               hpc' = [hpc EXCEPT ![c] = p],
               \/ hpc[c] # "scan" /\ UNCHANGED <<hleft, hseen>>
               \/ /\ hleft[c] = {} /\ hleft' = hleft
                  /\ hseen' = [hseen EXCEPT ![c] = << >>]
               \/ /\ hleft' = [hleft EXCEPT ![c] = {}]
                  /\ hseen' = [hseen EXCEPT ![c] = << >>]
        PROVE  ScanInv'
    <2>1. hseen'[c] = << >> /\ hleft'[c] = {} /\ Len(<< >>) = 0
      BY <1>2, <1>4 DEF ScanInv
    <2>2. \A d \in Clients : d # c =>
            hpc'[d] = hpc[d] /\ hleft'[d] = hleft[d] /\ hseen'[d] = hseen[d]
      BY <1>2, <1>4
    <2>3. Len(hseen'[c]) + Cardinality(hleft'[c]) <= Cardinality(Keys)
      BY <1>1, <2>1
    <2>4. ASSUME NEW d \in Clients
          PROVE  /\ Len(hseen'[d]) + Cardinality(hleft'[d]) <= Cardinality(Keys)
                 /\ hpc'[d] # "scan" => hseen'[d] = << >> /\ hleft'[d] = {}
      BY <2>1, <2>2, <2>3 DEF ScanInv
    <2> QED
      BY <2>4 DEF ScanInv
  <1>5. ASSUME NEW c \in Clients, HandleMutation(c) \/ HandleRead(c) PROVE ScanInv'
    BY <1>4, <1>5 DEF HandleMutation, HandleRead, Received
  <1>6. ASSUME NEW c \in Clients, HandleScan(c) PROVE ScanInv'
    <2>1. hseen[c] = << >> /\ Len(<< >>) = 0
      BY <1>6 DEF HandleScan, Received, ScanInv
    <2> QED
      BY <1>1, <1>2, <1>6, <2>1 DEF HandleScan, ScanInv
  <1>7. ASSUME NEW c \in Clients, ScanKey(c) PROVE ScanInv'
    <2>1. PICK k \in hleft[c] :
            /\ hleft' = [hleft EXCEPT ![c] = @ \ {k}]
            /\ hseen' = [hseen EXCEPT ![c] = IF kv[k] = Absent THEN @
                                             ELSE Append(@, Payload(k, kv[k]))]
            /\ hpc' = hpc /\ hpc[c] = "scan"
      BY <1>7 DEF ScanKey
    <2>2. IsFiniteSet(hleft[c]) /\ k \in Keys
      BY <1>2, FS_Subset
    <2>3. /\ Cardinality(hleft[c] \ {k}) = Cardinality(hleft[c]) - 1
          /\ Cardinality(hleft[c]) \in Nat
      BY <2>2, FS_RemoveElement, FS_CardinalityType
    <2>4. Len(hseen[c]) \in Nat /\ Len(hseen'[c]) <= Len(hseen[c]) + 1
          /\ Len(hseen'[c]) \in Nat
      <3>1. hseen[c] \in Seq(Piece) /\ kv[k] \in Values \cup {Absent}
        BY <1>2, <2>2 DEF TypeInv, SesTypeOK
      <3>2. Payload(k, kv[k]) \in Piece
        BY <2>2, <3>1, PieceFacts
      <3>3. hseen'[c] = hseen[c] \/ hseen'[c] = Append(hseen[c], Payload(k, kv[k]))
        BY <1>2, <2>1
      <3>4. Len(Append(hseen[c], Payload(k, kv[k]))) = Len(hseen[c]) + 1
            /\ Len(hseen[c]) \in Nat
        BY <3>1, <3>2, AppendProperties, LenProperties
      <3> QED
        BY <3>3, <3>4
    <2>5. Len(hseen'[c]) + Cardinality(hleft'[c]) <= Cardinality(Keys)
      BY <1>1, <1>2, <2>1, <2>3, <2>4 DEF ScanInv
    <2>6. \A d \in Clients : d # c => hleft'[d] = hleft[d] /\ hseen'[d] = hseen[d]
      BY <1>2, <2>1
    <2> QED
      BY <2>1, <2>5, <2>6 DEF ScanInv
  <1>8. ASSUME NEW c \in Clients, ScanReturns(c) PROVE ScanInv'
    BY <1>4, <1>8 DEF ScanReturns
  <1>9. ASSUME NEW c \in Clients, HandlerCloses(c) PROVE ScanInv'
    BY <1>4, <1>9 DEF HandlerCloses
  <1>10. ASSUME NEW c \in Clients,
                HandleError(c) \/ HandlerReadsEOF(c) \/ ConnectionDrops(c)
         PROVE  ScanInv'
    BY <1>9, <1>10 DEF HandleError, HandlerReadsEOF, ConnectionDrops
  <1>11. ASSUME NEW c \in Clients, WriteAnswer(c) PROVE ScanInv'
    <2>1. CASE HandlerCloses(c)
      BY <1>9, <2>1
    <2>2. CASE /\ hpc' = [hpc EXCEPT ![c] = IF Len(hout[c]) = 1 THEN "read" ELSE "write"]
               /\ UNCHANGED <<hleft, hseen>>
      <3>1. hpc[c] # "scan"
        BY <1>11 DEF WriteAnswer
      <3>2. CASE Len(hout[c]) = 1
        BY <1>4, <2>2, <3>1, <3>2
      <3>3. CASE Len(hout[c]) # 1
        BY <1>4, <2>2, <3>1, <3>3
      <3> QED
        BY <3>2, <3>3
    <2> QED
      BY <1>11, <2>1, <2>2 DEF WriteAnswer
  <1>12. ASSUME NEW c \in Clients,
                \/ \E q \in Request : Call(c, q)
                \/ ClientStep(c) \/ TimesOut(c) \/ ClientClose(c)
         PROVE  ScanInv'
    BY <1>3, <1>12 DEF Call, ClientStep, ReadHeader, ReadPayload, ReturnFromCall,
       ReadsEOF, TimesOut, ClientClose, handlerVars
  <1>13. CASE UNCHANGED sesVars
    BY <1>3, <1>13 DEF sesVars, handlerVars
  <1> QED
    BY <1>5, <1>6, <1>7, <1>8, <1>10, <1>11, <1>12, <1>13 DEF SesNext, HandlerStep

-----------------------------------------------------------------------------
(* The calls of a client none of whose calls has failed.                   *)

LEMMA ResultGrows ==
  ASSUME NEW v, NEW w, NEW s, Result(v, s),
         \A k \in Keys : v[k] \subseteq w[k] /\ (w[k] # {} => v[k] # {})
  PROVE  Result(w, s)
PROOF
  BY DEF Result

\* What another client, its handler or its network does to the call of d.
LEMMA CallKept ==
  ASSUME NEW d \in Clients, CallInv(d), TypeInv, WindowInv,
         cpc'[d] = cpc[d], creq'[d] = creq[d], cid'[d] = cid[d], need'[d] = need[d],
         cres'[d] = cres[d], up'[d] = up[d], down'[d] = down[d], hpc'[d] = hpc[d],
         hout'[d] = hout[d], hleft'[d] = hleft[d], hseen'[d] = hseen[d],
         AppliedBy(d) \subseteq AppliedBy(d)',
         \A k \in Keys : /\ window[d][k] \subseteq window'[d][k]
                         /\ window'[d][k] # {} => window[d][k] # {}
  PROVE  CallInv(d)'
PROOF
  <1>1. Stream(d)' = Stream(d)
    BY DEF Stream
  <1>2. Effective(d) => Effective(d)'
    BY DEF Effective
  <1>3. Asked(d) => Asked(d)'
    BY DEF Asked
  <1>4. Dropped(d) => Dropped(d)'
    BY DEF Dropped
  <1>5. Scanning(d) => Scanning(d)'
    <2> SUFFICES ASSUME Scanning(d) PROVE Scanning(d)'
      OBVIOUS
    <2>1. \A i \in 1 .. Len(hseen[d]) : hseen[d][i] \in Item
      BY ElementOfSeq DEF TypeInv
    <2>2. \A i \in 1 .. Len(hseen[d]) : hseen[d][i].key \in Keys
      BY <2>1 DEF Item
    <2> QED
      BY <2>2 DEF Scanning
  <1>6. Result(window[d], Tail(Stream(d))) => Result(window'[d], Tail(Stream(d)))
    BY ResultGrows
  <1>7. Answered(d) => Answered(d)'
    BY <1>1, <1>2, <1>6 DEF Answered
  <1>8. Result(window[d], cres[d]) => Result(window'[d], cres[d])
    BY ResultGrows
  <1>9. Result(window[d], cres[d] \o Stream(d)) => Result(window'[d], cres[d] \o Stream(d))
    BY ResultGrows
  <1>10. Reading(d) => Reading(d)'
    BY <1>1, <1>2, <1>8, <1>9 DEF Reading
  <1> QED
    BY <1>3, <1>4, <1>5, <1>7, <1>10 DEF CallInv

\* The handler's answer to the call of c.
LEMMA AnswerGiven ==
  ASSUME NEW c \in Clients, NEW h \in Piece, NEW s \in Seq(Piece),
         hpc'[c] = "write", up'[c] = << >>, down'[c] = << >>, hout'[c] = <<h>> \o s,
         h.kind = "header", creq'[c].op = "scan" => h.op = "scan",
         Len(s) = Following(creq'[c].op, h), Result(window'[c], s), Effective(c)'
  PROVE  Answered(c)'
PROOF
  <1>1. Stream(c)' = <<h>> \o s
    <2>1. << >> \o (<<h>> \o s) = <<h>> \o s
      OBVIOUS
    <2> QED
      BY <2>1 DEF Stream
  <1>2. /\ <<h>> \o s # << >> /\ Head(<<h>> \o s) = h /\ Tail(<<h>> \o s) = s
        /\ Len(<<h>> \o s) = 1 + Len(s)
    OBVIOUS
  <1> QED
    BY <1>1, <1>2 DEF Answered

\* The handler receives a request of such a client: it is that of its call.
LEMMA OwnRequest ==
  ASSUME TypeInv, NEW c \in Clients, CallInv(c), Received(c)
  PROVE  /\ cpc[c] = "header" /\ creq[c] \in Request /\ NextRequest(c) = creq[c]
         /\ Head(up[c]).id = cid[c] /\ up'[c] = << >> /\ down[c] = << >>
PROOF
  <1>1. up[c] # << >> /\ c \in DOMAIN up /\ cpc[c] \in {"idle", "header", "payload"}
    BY DEF Received, TypeInv, SesTypeOK
  <1>2. cpc[c] = "header" /\ Asked(c)
    BY <1>1 DEF CallInv, Scanning, Answered, Dropped, Reading
  <1>3. up[c] = <<[req |-> creq[c], id |-> cid[c]]>>
    BY <1>2 DEF Asked
  <1>4. up'[c] = Tail(up[c])
    BY <1>1 DEF Received, Consumed
  <1> QED
    BY <1>2, <1>3, <1>4 DEF NextRequest, Asked, TypeInv

\* A mutation is applied, and acknowledged.
LEMMA MutationClean ==
  ASSUME TypeInv, OrderInv, WindowInv, CleanInv, NEW c \in Clients, HandleMutation(c)
  PROVE  CleanInv'
PROOF
  <1> DEFINE q == NextRequest(c)
             v == IF q.op = "delete" THEN Absent ELSE q.val
             x == [id |-> Head(up[c]).id, client |-> c]
  <1>1. /\ Received(c) /\ q.op \in {"put", "delete"}
        /\ window' = Seen(q.key, v)
        /\ hout' = [hout EXCEPT ![c] = Answer(q, << >>)]
        /\ applied' = Append(applied, x)
        /\ hpc' = [hpc EXCEPT ![c] = "write"]
        /\ UNCHANGED <<clientVars, down, hleft, hseen, clean>>
    BY DEF HandleMutation
  <1>2. UNCHANGED <<cpc, creq, cid, need, cres>>
    BY <1>1 DEF clientVars
  <1>3. /\ hout \in [Clients -> Seq(Piece)] /\ up \in [Clients ->
             Seq([req : Request, id : 1 .. MaxCalls])]
        /\ hpc \in [Clients -> {"read", "scan", "write", "closed"}]
        /\ applied \in Seq([id : 1 .. MaxCalls, client : Clients])
    BY DEF TypeInv, SesTypeOK, OrderInv
  <1>4. Head(up[c]) \in [req : Request, id : 1 .. MaxCalls]
    BY <1>1, <1>3, HeadTailProperties DEF Received
  <1>5. q \in Request /\ q.key \in Keys
    BY <1>1, <1>4 DEF NextRequest, Request
  <1>6. /\ Len(applied) \in Nat /\ Len(applied') = Len(applied) + 1
        /\ \A i \in 1 .. Len(applied) : applied'[i] = applied[i]
        /\ applied'[Len(applied) + 1] = x
    <2>1. x \in [id : 1 .. MaxCalls, client : Clients]
      BY <1>4
    <2> QED
      BY <1>1, <1>3, <2>1, AppendProperties, LenProperties
  <1>7. \A d \in Clients : AppliedBy(d) \subseteq AppliedBy(d)'
    BY <1>6 DEF AppliedBy
  <1>8. x.id \in AppliedBy(c)'
    <2>1. Len(applied) + 1 \in 1 .. Len(applied')
      BY <1>6
    <2>2. applied'[Len(applied) + 1].client = c /\ applied'[Len(applied) + 1].id = x.id
      BY <1>6
    <2> QED
      BY <2>1, <2>2 DEF AppliedBy
  <1>9. ASSUME NEW d \in Clients, d # c, clean[d] PROVE CallInv(d)'
    <2>1. CallInv(d)
      BY <1>9 DEF CleanInv
    <2>2. up'[d] = up[d] /\ hout'[d] = hout[d] /\ hpc'[d] = hpc[d]
      BY <1>1, <1>3, <1>9 DEF Received
    <2>3. \A k \in Keys : /\ window[d][k] \subseteq window'[d][k]
                          /\ window'[d][k] # {} => window[d][k] # {}
      BY <1>1, <1>5, SeenFacts
    <2> QED
      BY <1>1, <1>2, <1>7, <2>1, <2>2, <2>3, CallKept
  <1>10. ASSUME clean[c] PROVE CallInv(c)'
    <2>1. /\ cpc[c] = "header" /\ creq[c] = q
          /\ Head(up[c]).id = cid[c] /\ up'[c] = << >> /\ down[c] = << >>
      BY <1>1, <1>10, OwnRequest DEF CleanInv
    <2> DEFINE h == Header("none", 0, 0)
    <2>2. h \in Piece /\ h.kind = "header"
      BY PieceFacts DEF Header
    <2>3. hout'[c] = <<h>> \o << >> /\ hpc'[c] = "write"
      <3>1. Answer(q, << >>) = <<h>>
        BY <1>1 DEF Answer, Ack
      <3>2. <<h>> \o << >> = <<h>>
        OBVIOUS
      <3> QED
        BY <1>1, <1>3, <3>1, <3>2
    <2>4. Result(window'[c], << >>)
      <3>1. \A k \in Keys : window[c][k] = {}
        BY <1>1, <2>1 DEF WindowInv
      <3>2. \A k \in Keys : window'[c][k] = {}
        BY <1>1, <1>5, <3>1, SeenFacts
      <3> QED
        BY <3>2 DEF Result
    <2>5. Effective(c)'
      BY <1>2, <1>8, <2>1 DEF Effective
    <2>6. creq'[c].op # "scan" /\ Following(creq'[c].op, h) = 0
      BY <1>1, <1>2, <2>1 DEF Following
    <2>7. << >> \in Seq(Piece) /\ Len(<< >>) = 0
      OBVIOUS
    <2>8. Answered(c)'
      BY <1>1, <2>1, <2>2, <2>3, <2>4, <2>5, <2>6, <2>7, AnswerGiven
    <2> QED
      BY <1>2, <2>1, <2>8 DEF CallInv
  <1> QED
    BY <1>1, <1>9, <1>10 DEF CleanInv

\* A Get or an Echo is answered.
LEMMA ReadClean ==
  ASSUME TypeInv, WindowInv, CleanInv, NEW c \in Clients, HandleRead(c)
  PROVE  CleanInv'
PROOF
  <1> DEFINE q == NextRequest(c)
  <1>1. /\ Received(c) /\ q.op \in {"get", "echo"}
        /\ hout' = [hout EXCEPT ![c] = Answer(q, << >>)]
        /\ hpc' = [hpc EXCEPT ![c] = "write"]
        /\ UNCHANGED <<clientVars, down, hleft, hseen, clean, window, applied>>
    BY DEF HandleRead
  <1>2. UNCHANGED <<cpc, creq, cid, need, cres>>
    BY <1>1 DEF clientVars
  <1>3. /\ hout \in [Clients -> Seq(Piece)]
        /\ up \in [Clients -> Seq([req : Request, id : 1 .. MaxCalls])]
        /\ hpc \in [Clients -> {"read", "scan", "write", "closed"}]
        /\ kv \in [Keys -> Values \cup {Absent}]
    BY DEF TypeInv, SesTypeOK
  <1>4. \A d \in Clients : AppliedBy(d) = AppliedBy(d)'
    BY <1>1 DEF AppliedBy
  <1>5. ASSUME NEW d \in Clients, d # c, clean[d] PROVE CallInv(d)'
    <2>1. CallInv(d)
      BY <1>5 DEF CleanInv
    <2>2. up'[d] = up[d] /\ hout'[d] = hout[d] /\ hpc'[d] = hpc[d]
      BY <1>1, <1>3, <1>5 DEF Received
    <2> QED
      BY <1>1, <1>2, <1>4, <2>1, <2>2, CallKept
  <1>6. ASSUME clean[c] PROVE CallInv(c)'
    <2>1. /\ cpc[c] = "header" /\ creq[c] = q /\ q \in Request
          /\ up'[c] = << >> /\ down[c] = << >>
      BY <1>1, <1>6, OwnRequest DEF CleanInv
    <2>2. Effective(c)'
      BY <1>1, <1>2, <2>1 DEF Effective
    <2>3. hout'[c] = Answer(q, << >>) /\ hpc'[c] = "write" /\ down'[c] = << >>
          /\ window'[c] = window[c]
      BY <1>1, <1>3, <2>1
    <2>4. CASE q.op = "echo"
      <3> DEFINE h == Header("echo", 0, 1)
                 s == <<Payload(None, None)>>
      <3>1. h \in Piece /\ s \in Seq(Piece) /\ Len(s) = 1
        BY PieceFacts
      <3>2. h.kind = "header" /\ h.b = 1
        BY DEF Header
      <3>3. hout'[c] = <<h>> \o s
        <4>1. Answer(q, << >>) = <<h, Payload(None, None)>>
          BY <2>4 DEF Answer
        <4>2. <<h>> \o s = <<h, Payload(None, None)>>
          BY <3>1, PieceFacts, Tuples
        <4> QED
          BY <2>3, <4>1, <4>2
      <3>4. Result(window'[c], s)
        <4>1. \A k \in Keys : window[c][k] = {}
          BY <2>1, <2>4 DEF WindowInv
        <4> QED
          BY <2>3, <4>1 DEF Result
      <3>5. creq'[c].op # "scan" /\ Following(creq'[c].op, h) = 1
        BY <1>2, <2>1, <2>4, <3>2 DEF Following
      <3>6. Answered(c)'
        BY <2>1, <2>2, <2>3, <3>1, <3>2, <3>3, <3>4, <3>5, AnswerGiven
      <3> QED
        BY <1>2, <2>1, <3>6 DEF CallInv
    <2>5. CASE q.op = "get" /\ kv[q.key] = Absent
      <3> DEFINE h == Header("none", NotFoundLen, 0)
      <3>1. h \in Piece /\ << >> \in Seq(Piece) /\ Len(<< >>) = 0
        BY PieceFacts, SessionAssumption
      <3>2. h.kind = "header" /\ h.a = NotFoundLen
        BY DEF Header
      <3>3. hout'[c] = <<h>> \o << >>
        <4>1. Answer(q, << >>) = <<h>>
          BY <2>5 DEF Answer, NotFound
        <4>2. <<h>> \o << >> = <<h>>
          BY <3>1
        <4> QED
          BY <2>3, <4>1, <4>2
      <3>4. Result(window'[c], << >>)
        <4>1. \A k \in Keys : window[c][k] # {} => Absent \in window[c][k]
          BY <2>1, <2>5 DEF WindowInv
        <4> QED
          BY <2>3, <3>1, <4>1 DEF Result
      <3>5. creq'[c].op # "scan" /\ Following(creq'[c].op, h) = 0
        BY <1>2, <2>1, <2>5, <3>2 DEF Following, GetPayload
      <3>6. Answered(c)'
        BY <2>1, <2>2, <2>3, <3>1, <3>2, <3>3, <3>4, <3>5, AnswerGiven
      <3> QED
        BY <1>2, <2>1, <3>6 DEF CallInv
    <2>6. CASE q.op = "get" /\ kv[q.key] # Absent
      <3> DEFINE h == Header("get", 1, 1)
                 a == Payload(q.key, None)
                 b == Payload(q.key, kv[q.key])
                 s == <<a, b>>
      <3>0. q.key \in Keys
        BY <2>1, <2>6 DEF Request
      <3>1. h \in Piece /\ a \in Piece /\ b \in Piece
        BY <1>3, <3>0, PieceFacts
      <3>2. s \in Seq(Piece) /\ Len(s) = 2 /\ s[1] = a /\ s[2] = b
        BY <3>1
      <3>3. h.kind = "header" /\ h.a = 1 /\ h.b = 1
        BY DEF Header
      <3>4. hout'[c] = <<h>> \o s
        <4>1. Answer(q, << >>) = <<h, a, b>>
          BY <2>6 DEF Answer
        <4>2. <<h>> \o s = <<h, a, b>>
          BY <3>1, Tuples
        <4> QED
          BY <2>3, <4>1, <4>2
      <3>5. Result(window'[c], s)
        <4> SUFFICES ASSUME NEW k \in Keys, window[c][k] # {}
                     PROVE  /\ \A i \in 1 .. Len(s) :
                                 s[i].key = k /\ s[i].val # None => s[i].val \in window[c][k]
                            /\ \E i \in 1 .. Len(s) : s[i].key = k /\ s[i].val # None
          BY <2>3 DEF Result
        <4>1. k = q.key /\ kv[k] \in window[c][k]
          BY <2>1, <2>6 DEF WindowInv
        <4>2. kv[k] # None
          BY <1>3, <3>0, <4>1, SessionAssumption
        <4>3. a.val = None /\ b.key = k /\ b.val = kv[k]
          BY <4>1 DEF Payload
        <4>4. \A i \in 1 .. Len(s) : i = 1 \/ i = 2
          BY <3>2
        <4>5. 2 \in 1 .. Len(s)
          BY <3>2
        <4>6. \A i \in 1 .. Len(s) :
                s[i].key = k /\ s[i].val # None => s[i].val \in window[c][k]
          BY <3>2, <4>1, <4>3, <4>4
        <4>7. s[2].key = k /\ s[2].val # None
          BY <3>2, <4>2, <4>3
        <4> QED
          BY <4>5, <4>6, <4>7
      <3>6. creq'[c].op # "scan" /\ Following(creq'[c].op, h) = 2
        BY <1>2, <2>1, <2>6, <3>3, SessionAssumption DEF Following, GetPayload
      <3>7. Answered(c)'
        BY <2>1, <2>2, <2>3, <3>1, <3>2, <3>3, <3>4, <3>5, <3>6, AnswerGiven
      <3> QED
        BY <1>2, <2>1, <3>7 DEF CallInv
    <2> QED
      BY <1>1, <1>2, <2>1, <2>4, <2>5, <2>6 DEF CallInv
  <1> QED
    BY <1>1, <1>5, <1>6 DEF CleanInv

\* A Scan is begun, reads a key, and is answered.
LEMMA ScanClean ==
  ASSUME Cardinality(Keys) < CountMod, IsFiniteSet(Keys),
         TypeInv, WindowInv, ScanInv, CleanInv, NEW c \in Clients,
         HandleScan(c) \/ ScanKey(c) \/ ScanReturns(c)
  PROVE  CleanInv'
PROOF
  <1>1. UNCHANGED <<kv, clientVars, down, clean, window, applied>>
    BY DEF HandleScan, ScanKey, ScanReturns
  <1>2. UNCHANGED <<cpc, creq, cid, need, cres>>
    BY <1>1 DEF clientVars
  <1>3. /\ hout \in [Clients -> Seq(Piece)]
        /\ up \in [Clients -> Seq([req : Request, id : 1 .. MaxCalls])]
        /\ hpc \in [Clients -> {"read", "scan", "write", "closed"}]
        /\ kv \in [Keys -> Values \cup {Absent}]
        /\ hleft \in [Clients -> SUBSET Keys] /\ hseen \in [Clients -> Seq(Piece)]
        /\ hseen[c] \in Seq(Item)
        /\ cpc[c] \in {"idle", "header", "payload"}
    BY DEF TypeInv, SesTypeOK
  <1>4. \A d \in Clients : AppliedBy(d) = AppliedBy(d)'
    BY <1>1 DEF AppliedBy
  <1>5. ASSUME NEW d \in Clients, d # c, clean[d] PROVE CallInv(d)'
    <2>1. CallInv(d)
      BY <1>5 DEF CleanInv
    <2>2. /\ up'[d] = up[d] /\ hout'[d] = hout[d] /\ hpc'[d] = hpc[d]
          /\ hleft'[d] = hleft[d] /\ hseen'[d] = hseen[d]
      BY <1>3, <1>5 DEF HandleScan, ScanKey, ScanReturns, Received
    <2> QED
      BY <1>1, <1>2, <1>4, <2>1, <2>2, CallKept
  <1>6. ASSUME clean[c] PROVE CallInv(c)'
    <2>0. CallInv(c)
      BY <1>6 DEF CleanInv
    <2>1. CASE HandleScan(c)
      <3>1. /\ cpc[c] = "header" /\ creq[c] = NextRequest(c)
            /\ up'[c] = << >> /\ down[c] = << >>
        BY <2>0, <2>1, OwnRequest DEF HandleScan
      <3>2. hpc'[c] = "scan" /\ hleft'[c] = Keys /\ hseen'[c] = << >> /\ creq[c].op = "scan"
        BY <1>3, <2>1, <3>1 DEF HandleScan, Received, ScanInv
      <3>3. Len(<< >>) = 0
        OBVIOUS
      <3>4. Scanning(c)'
        BY <1>1, <1>2, <3>1, <3>2, <3>3 DEF Scanning
      <3> QED
        BY <1>2, <3>1, <3>4 DEF CallInv
    <2>2. ASSUME hpc[c] = "scan" PROVE cpc[c] = "header" /\ Scanning(c)
      BY <1>3, <2>0, <2>2 DEF CallInv, Asked, Answered, Dropped, Reading
    <2>3. CASE ScanKey(c)
      <3>1. PICK k \in hleft[c] :
              /\ hleft' = [hleft EXCEPT ![c] = @ \ {k}]
              /\ hseen' = [hseen EXCEPT ![c] = IF kv[k] = Absent THEN @
                                               ELSE Append(@, Payload(k, kv[k]))]
              /\ UNCHANGED <<up, hpc, hout>> /\ hpc[c] = "scan"
        BY <2>3 DEF ScanKey
      <3>2. cpc[c] = "header" /\ Scanning(c)
        BY <2>2, <3>1
      <3>3. k \in Keys /\ kv[k] \in window[c][k]
        <4>1. k \in Keys /\ creq[c].op = "scan" /\ cpc[c] # "idle"
          BY <1>3, <3>2 DEF Scanning
        <4> QED
          BY <4>1 DEF WindowInv
      <3>4. hleft'[c] = hleft[c] \ {k}
        BY <1>3, <3>1
      <3>5. CASE kv[k] = Absent
        <4>1. hseen'[c] = hseen[c]
          BY <1>3, <3>1, <3>5
        <4>2. Scanning(c)'
          BY <1>1, <1>2, <3>1, <3>2, <3>3, <3>4, <3>5, <4>1 DEF Scanning
        <4> QED
          BY <1>2, <3>2, <4>2 DEF CallInv
      <3>6. CASE kv[k] # Absent
        <4> DEFINE p == Payload(k, kv[k])
        <4>1. p \in Item /\ p.key = k /\ p.val = kv[k]
          BY <1>3, <3>3, <3>6, PieceFacts DEF Payload
        <4>2. hseen'[c] = Append(hseen[c], p)
          BY <1>3, <3>1, <3>6
        <4>3. /\ Len(hseen[c]) \in Nat /\ Len(hseen'[c]) = Len(hseen[c]) + 1
              /\ \A i \in 1 .. Len(hseen[c]) : hseen'[c][i] = hseen[c][i]
              /\ hseen'[c][Len(hseen[c]) + 1] = p
          BY <1>3, <4>1, <4>2, AppendProperties, LenProperties
        <4>4. \A i \in 1 .. Len(hseen'[c]) :
                i \in 1 .. Len(hseen[c]) \/ i = Len(hseen[c]) + 1
          BY <4>3
        <4>5. /\ Len(hseen[c]) + 1 \in 1 .. Len(hseen'[c])
              /\ \A i \in 1 .. Len(hseen[c]) : i \in 1 .. Len(hseen'[c])
          BY <4>3
        <4>6. \A i \in 1 .. Len(hseen'[c]) :
                hseen'[c][i].val \in window[c][hseen'[c][i].key]
          BY <3>2, <3>3, <4>1, <4>3, <4>4 DEF Scanning
        <4>7. \A j \in Keys \ hleft'[c] :
                \/ Absent \in window[c][j]
                \/ \E i \in 1 .. Len(hseen'[c]) : hseen'[c][i].key = j
          <5> SUFFICES ASSUME NEW j \in Keys \ hleft'[c], Absent \notin window[c][j]
                       PROVE  \E i \in 1 .. Len(hseen'[c]) : hseen'[c][i].key = j
            OBVIOUS
          <5>1. CASE j = k
            BY <4>1, <4>3, <4>5, <5>1
          <5>2. CASE j # k
            <6>1. \E i \in 1 .. Len(hseen[c]) : hseen[c][i].key = j
              BY <3>2, <3>4, <5>2 DEF Scanning
            <6> QED
              BY <4>3, <4>5, <6>1
          <5> QED
            BY <5>1, <5>2
        <4>8. Scanning(c)'
          BY <1>1, <1>2, <3>1, <3>2, <4>6, <4>7 DEF Scanning
        <4> QED
          BY <1>2, <3>2, <4>8 DEF CallInv
      <3> QED
        BY <3>5, <3>6
    <2>4. CASE ScanReturns(c)
      <3> DEFINE s == hseen[c]
                 h == Header("scan", CountSent(Len(s)), Len(s))
      <3>1. hpc[c] = "scan" /\ hleft[c] = {} /\ up' = up /\ hpc'[c] = "write"
            /\ hout'[c] = Answer([NoRequest EXCEPT !.op = "scan"], s)
        BY <1>3, <2>4 DEF ScanReturns
      <3>2. cpc[c] = "header" /\ Scanning(c)
        BY <2>2, <3>1
      <3>3. s \in Seq(Piece) /\ Len(s) \in Nat /\ \A i \in 1 .. Len(s) : s[i] \in Item
        BY <1>3, ElementOfSeq, LenProperties
      <3>4. hout'[c] = <<h>> \o s
        <4>1. [NoRequest EXCEPT !.op = "scan"].op = "scan"
          BY DEF NoRequest
        <4> QED
          BY <3>1, <4>1 DEF Answer
      <3>5. CountSent(Len(s)) = Len(s)
        <4>1. Cardinality({}) = 0 /\ Cardinality(Keys) \in Nat
          BY FS_EmptySet, FS_CardinalityType
        <4>2. Len(s) <= Cardinality(Keys)
          <5>1. Len(s) + Cardinality(hleft[c]) <= Cardinality(Keys)
            BY DEF ScanInv
          <5>2. Cardinality(hleft[c]) = 0
            BY <3>1, <4>1
          <5> QED
            BY <3>3, <4>1, <5>1, <5>2
        <4>3. Len(s) < CountMod
          BY <3>3, <4>1, <4>2, SessionAssumption
        <4> QED
          BY <3>3, <4>3, SmallModulo, SessionAssumption DEF CountSent
      <3>6. h \in Piece /\ h.kind = "header" /\ h.op = "scan" /\ h.a = Len(s)
        BY <3>3, <3>5, PieceFacts DEF Header
      <3>7. Result(window'[c], s)
        <4>1. \A i \in 1 .. Len(s) : s[i].val \in Values /\ s[i].val # None
          BY <3>3, SessionAssumption DEF Item
        <4> QED
          BY <1>1, <3>1, <3>2, <4>1 DEF Result, Scanning
      <3>8. creq'[c].op = "scan" /\ Following(creq'[c].op, h) = Len(s) /\ Effective(c)'
        BY <1>2, <3>2, <3>6 DEF Following, Effective, Scanning
      <3>9. up'[c] = << >> /\ down'[c] = << >>
        BY <1>1, <3>1, <3>2 DEF Scanning
      <3>10. Answered(c)'
        BY <3>1, <3>3, <3>4, <3>6, <3>7, <3>8, <3>9, AnswerGiven
      <3> QED
        BY <1>2, <3>2, <3>10 DEF CallInv
    <2> QED
      BY <2>1, <2>3, <2>4
  <1> QED
    BY <1>1, <1>5, <1>6 DEF CleanInv

\* The handler closes, or the connection drops: the call has all its answer, or
\* it will fail.
LEMMA CloseClean ==
  ASSUME TypeInv, WindowInv, CleanInv, NEW c \in Clients,
         \/ HandleError(c) \/ HandlerReadsEOF(c) \/ ConnectionDrops(c)
         \/ WriteAnswer(c) /\ HandlerCloses(c) /\ cclosed[c] /\ UNCHANGED down
  PROVE  CleanInv'
PROOF
  <1>1. UNCHANGED <<clientVars, clean, window, applied>> /\ HandlerCloses(c)
    BY DEF HandleError, HandlerReadsEOF, ConnectionDrops, WriteAnswer
  <1>2. UNCHANGED <<cpc, creq, cid, need, cres>>
    BY <1>1 DEF clientVars
  <1>3. /\ hout \in [Clients -> Seq(Piece)] /\ down \in [Clients -> Seq(Piece)]
        /\ up \in [Clients -> Seq([req : Request, id : 1 .. MaxCalls])]
        /\ hpc \in [Clients -> {"read", "scan", "write", "closed"}]
        /\ hleft \in [Clients -> SUBSET Keys] /\ hseen \in [Clients -> Seq(Piece)]
        /\ cpc[c] \in {"idle", "header", "payload"} /\ cres[c] \in Seq(Piece)
        /\ cpc[c] # "idle" => ~ cclosed[c]
    BY DEF TypeInv, SesTypeOK
  <1>4. \A d \in Clients : AppliedBy(d) = AppliedBy(d)'
    BY <1>1 DEF AppliedBy
  <1>5. ASSUME NEW d \in Clients, d # c, clean[d] PROVE CallInv(d)'
    <2>1. CallInv(d)
      BY <1>5 DEF CleanInv
    <2>2. /\ hout'[d] = hout[d] /\ hpc'[d] = hpc[d]
          /\ hleft'[d] = hleft[d] /\ hseen'[d] = hseen[d]
      BY <1>1, <1>3, <1>5 DEF HandlerCloses
    <2>3. up'[d] = up[d] /\ down'[d] = down[d]
      BY <1>3, <1>5
      DEF HandleError, HandlerReadsEOF, ConnectionDrops, WriteAnswer, Received
    <2> QED
      BY <1>1, <1>2, <1>4, <2>1, <2>2, <2>3, CallKept
  <1>6. ASSUME clean[c] PROVE CallInv(c)'
    <2>1. CallInv(c) /\ hpc'[c] = "closed"
      BY <1>1, <1>3, <1>6 DEF CleanInv, HandlerCloses
    <2>2. up'[c] = << >> /\ down'[c] = << >>
      <3>1. CASE HandleError(c)
        BY <2>1, <3>1, OwnRequest DEF HandleError
      <3>2. CASE ConnectionDrops(c)
        BY <1>3, <3>2 DEF ConnectionDrops
      <3>3. CASE HandlerReadsEOF(c) \/ (WriteAnswer(c) /\ cclosed[c] /\ UNCHANGED down)
        BY <1>3, <2>1, <3>3 DEF HandlerReadsEOF, WriteAnswer, CallInv
      <3> QED
        BY <3>1, <3>2, <3>3
    <2>3. CASE cpc[c] = "payload"
      <3>1. Reading(c)
        BY <2>1, <2>3 DEF CallInv
      <3>2. need[c] = 0 => Result(window[c], cres[c])
        <4>1. CASE hpc[c] = "closed"
          BY <3>1, <4>1 DEF Reading
        <4>2. CASE hpc[c] # "closed" /\ need[c] = 0
          <5>1. Len(Stream(c)) = 0 /\ Result(window[c], cres[c] \o Stream(c))
            BY <3>1, <4>2 DEF Reading
          <5>2. Stream(c) \in Seq(Piece)
            BY <1>3, ConcatProperties DEF Stream
          <5>3. Stream(c) = << >>
            BY <5>1, <5>2, EmptySeq
          <5>4. cres[c] \o Stream(c) = cres[c]
            BY <1>3, <5>3, ConcatEmptySeq
          <5> QED
            BY <5>1, <5>4
        <4> QED
          BY <4>1, <4>2
      <3>3. Effective(c)'
        BY <1>2, <1>4, <3>1 DEF Reading, Effective
      <3>4. Reading(c)'
        BY <1>1, <1>2, <2>1, <2>2, <3>2, <3>3 DEF Reading
      <3> QED
        BY <1>2, <2>3, <3>4 DEF CallInv
    <2>4. CASE cpc[c] # "payload"
      BY <1>2, <2>1, <2>2, <2>4 DEF CallInv, Dropped
    <2> QED
      BY <2>3, <2>4
  <1> QED
    BY <1>1, <1>5, <1>6 DEF CleanInv

\* A piece of an answer moves from the handler to the connection.
LEMMA WriteClean ==
  ASSUME TypeInv, WindowInv, CleanInv, NEW c \in Clients, WriteAnswer(c)
  PROVE  CleanInv'
PROOF
  <1>1. CASE HandlerCloses(c) /\ cclosed[c] /\ UNCHANGED down
    BY <1>1, CloseClean
  <1>2. CASE /\ down' = [down EXCEPT ![c] = Append(@, Head(hout[c]))]
             /\ hout' = [hout EXCEPT ![c] = Tail(@)]
             /\ hpc' = [hpc EXCEPT ![c] = IF Len(hout[c]) = 1 THEN "read" ELSE "write"]
             /\ UNCHANGED <<hleft, hseen>>
    <2>1. UNCHANGED <<clientVars, up, clean, window, applied>> /\ hpc[c] = "write"
      BY DEF WriteAnswer
    <2>2. UNCHANGED <<cpc, creq, cid, need, cres>>
      BY <2>1 DEF clientVars
    <2>3. /\ hout \in [Clients -> Seq(Piece)] /\ down \in [Clients -> Seq(Piece)]
          /\ hpc \in [Clients -> {"read", "scan", "write", "closed"}]
          /\ hout[c] # << >> /\ cpc[c] \in {"idle", "header", "payload"}
      BY <2>1 DEF TypeInv, SesTypeOK
    <2>4. \A d \in Clients : AppliedBy(d) = AppliedBy(d)'
      BY <2>1 DEF AppliedBy
    <2>5. ASSUME NEW d \in Clients, d # c, clean[d] PROVE CallInv(d)'
      <3>1. CallInv(d)
        BY <2>5 DEF CleanInv
      <3>2. hout'[d] = hout[d] /\ hpc'[d] = hpc[d] /\ down'[d] = down[d]
        BY <1>2, <2>3, <2>5
      <3> QED
        BY <1>2, <2>1, <2>2, <2>4, <3>1, <3>2, CallKept
    <2>6. ASSUME clean[c] PROVE CallInv(c)'
      <3>1. CallInv(c)
        BY <2>6 DEF CleanInv
      <3>2. Stream(c)' = Stream(c)
        <4>1. down'[c] = Append(down[c], Head(hout[c])) /\ hout'[c] = Tail(hout[c])
          BY <1>2, <2>3
        <4>2. down[c] \in Seq(Piece) /\ hout[c] \in Seq(Piece)
          BY <2>3
        <4>3. Append(down[c], Head(hout[c])) \o Tail(hout[c]) = down[c] \o hout[c]
          BY <2>3, <4>2, MoveHead
        <4> QED
          BY <4>1, <4>3 DEF Stream
      <3>3. hpc'[c] \in {"read", "write"}
        BY <1>2, <2>3
      <3>4. Effective(c) => Effective(c)'
        BY <2>2, <2>4 DEF Effective
      <3>5. CASE cpc[c] = "header"
        <4>1. Answered(c)
          BY <2>1, <3>1, <3>5 DEF CallInv, Asked, Scanning, Dropped
        <4>2. Answered(c)'
          BY <2>1, <2>2, <3>2, <3>3, <3>4, <4>1 DEF Answered
        <4> QED
          BY <2>2, <3>5, <4>2 DEF CallInv
      <3>6. CASE cpc[c] = "payload"
        <4>1. Reading(c)
          BY <3>1, <3>6 DEF CallInv
        <4>2. Reading(c)'
          BY <2>1, <2>2, <3>2, <3>3, <3>4, <4>1 DEF Reading
        <4> QED
          BY <2>2, <3>6, <4>2 DEF CallInv
      <3>7. cpc[c] # "idle"
        BY <2>1, <3>1 DEF CallInv
      <3> QED
        BY <2>3, <3>5, <3>6, <3>7
    <2> QED
      BY <2>1, <2>5, <2>6 DEF CleanInv
  <1> QED
    BY <1>1, <1>2 DEF WriteAnswer

\* A call begins.
LEMMA CallClean ==
  ASSUME TypeInv, WindowInv, CleanInv, NEW c \in Clients, NEW q \in Request, Call(c, q)
  PROVE  CleanInv'
PROOF
  <1>1. /\ cpc[c] = "idle" /\ cid' = [cid EXCEPT ![c] = calls + 1]
        /\ creq' = [creq EXCEPT ![c] = q] /\ cpc' = [cpc EXCEPT ![c] = "header"]
        /\ up' = [up EXCEPT ![c] = IF hpc[c] = "closed" THEN @
                                   ELSE Append(@, [req |-> q, id |-> calls + 1])]
        /\ UNCHANGED <<need, cres, down, handlerVars, clean, applied>>
    BY DEF Call
  <1>2. UNCHANGED <<hpc, hout, hleft, hseen>>
    BY <1>1 DEF handlerVars
  <1>3. /\ cpc \in [Clients -> {"idle", "header", "payload"}]
        /\ creq \in [Clients -> Request \cup {NoRequest}]
        /\ cid \in [Clients -> 0 .. MaxCalls]
        /\ up \in [Clients -> Seq([req : Request, id : 1 .. MaxCalls])]
        /\ window \in [Clients -> [Keys -> SUBSET (Values \cup {Absent})]]
    BY DEF TypeInv, SesTypeOK
  <1>4. \A d \in Clients : AppliedBy(d) = AppliedBy(d)'
    BY <1>1 DEF AppliedBy
  <1>5. ASSUME NEW d \in Clients, d # c, clean[d] PROVE CallInv(d)'
    <2>1. CallInv(d)
      BY <1>5 DEF CleanInv
    <2>2. /\ cpc'[d] = cpc[d] /\ creq'[d] = creq[d] /\ cid'[d] = cid[d]
          /\ up'[d] = up[d] /\ window'[d] = window[d]
      BY <1>1, <1>3, <1>5 DEF Call
    <2> QED
      BY <1>1, <1>2, <1>4, <2>1, <2>2, CallKept
  <1>6. ASSUME clean[c] PROVE CallInv(c)'
    <2>1. up[c] = << >> /\ down[c] = << >> /\ hpc[c] \in {"read", "closed"}
      BY <1>1, <1>6 DEF CleanInv, CallInv
    <2>2. cpc'[c] = "header" /\ creq'[c] = q /\ cid'[c] = calls + 1
      BY <1>1, <1>3
    <2>3. CASE hpc[c] = "closed"
      BY <1>1, <1>2, <1>3, <2>1, <2>2, <2>3 DEF CallInv, Dropped
    <2>4. CASE hpc[c] = "read"
      <3>1. up'[c] = Append(<< >>, [req |-> q, id |-> calls + 1])
        BY <1>1, <1>3, <2>1, <2>4
      <3>2. up'[c] = <<[req |-> q, id |-> calls + 1]>>
        BY <3>1
      <3>3. Asked(c)'
        BY <1>1, <1>2, <2>1, <2>2, <2>4, <3>2 DEF Asked
      <3> QED
        BY <2>2, <3>3 DEF CallInv
    <2> QED
      BY <2>1, <2>3, <2>4
  <1> QED
    BY <1>1, <1>5, <1>6 DEF CleanInv

\* A call is over, by a failure or with nothing left on the connection.
LEMMA OverClean ==
  ASSUME TypeInv, WindowInv, CleanInv, NEW c \in Clients, CallOver(c),
         UNCHANGED <<up, handlerVars, applied>>,
         \A d \in Clients : d # c => down'[d] = down[d] /\ clean'[d] = clean[d],
         \/ ~ clean'[c]
         \/ /\ clean'[c] = clean[c] /\ down'[c] = down[c]
            /\ clean[c] => /\ up[c] = << >> /\ down[c] = << >>
                           /\ hpc[c] \in {"read", "closed"}
  PROVE  CleanInv'
PROOF
  <1>1. UNCHANGED <<hpc, hout, hleft, hseen>>
    BY DEF handlerVars
  <1>2. \A d \in Clients : AppliedBy(d) = AppliedBy(d)'
    BY DEF AppliedBy
  <1>3. ASSUME NEW d \in Clients, d # c, clean'[d] PROVE CallInv(d)'
    <2>1. CallInv(d)
      BY <1>3 DEF CleanInv
    <2>2. /\ cpc'[d] = cpc[d] /\ creq'[d] = creq[d] /\ cid'[d] = cid[d]
          /\ need'[d] = need[d] /\ cres'[d] = cres[d] /\ window'[d] = window[d]
      BY <1>3, OverFacts
    <2> QED
      BY <1>1, <1>2, <1>3, <2>1, <2>2, CallKept
  <1>4. ASSUME clean'[c] PROVE CallInv(c)'
    BY <1>1, <1>4, OverFacts DEF CallInv
  <1> QED
    BY <1>3, <1>4 DEF CleanInv

\* A header is read.
LEMMA HeaderClean ==
  ASSUME TypeInv, WindowInv, CleanInv, NEW c \in Clients, ReadHeader(c)
  PROVE  CleanInv'
PROOF
  <1> DEFINE t == Head(down[c])
  <1>1. /\ cpc[c] = "header" /\ down[c] # << >> /\ down' = [down EXCEPT ![c] = Tail(@)]
        /\ UNCHANGED <<up, handlerVars, applied>>
    BY DEF ReadHeader
  <1>2. UNCHANGED <<hpc, hout, hleft, hseen>>
    BY <1>1 DEF handlerVars
  <1>3. /\ cpc \in [Clients -> {"idle", "header", "payload"}]
        /\ need \in [Clients -> Nat] /\ clean \in [Clients -> BOOLEAN]
        /\ down \in [Clients -> Seq(Piece)] /\ hout \in [Clients -> Seq(Piece)]
        /\ creq[c] \in Request /\ cres[c] = << >>
    BY <1>1 DEF TypeInv, SesTypeOK
  <1>4. \A d \in Clients : d # c => down'[d] = down[d]
    BY <1>1, <1>3
  <1>5. CASE CallFails(c)
    <2>1. ~ clean'[c] /\ \A d \in Clients : d # c => clean'[d] = clean[d]
      BY <1>3, <1>5 DEF CallFails
    <2> QED
      BY <1>1, <1>4, <1>5, <2>1, OverClean DEF CallFails
  <1>6. CASE /\ Accepts(creq[c].op, t)
             /\ \E n \in Needed(creq[c].op, t) : need' = [need EXCEPT ![c] = n]
             /\ cpc' = [cpc EXCEPT ![c] = "payload"]
             /\ UNCHANGED <<creq, cid, cres, clean, window>>
    <2>1. \A d \in Clients : AppliedBy(d) = AppliedBy(d)'
      BY <1>1 DEF AppliedBy
    <2>2. ASSUME NEW d \in Clients, d # c, clean[d] PROVE CallInv(d)'
      <3>1. CallInv(d)
        BY <2>2 DEF CleanInv
      <3>2. cpc'[d] = cpc[d] /\ need'[d] = need[d]
        BY <1>3, <1>6, <2>2
      <3> QED
        BY <1>1, <1>2, <1>4, <1>6, <2>1, <2>2, <3>1, <3>2, CallKept
    <2>3. ASSUME clean[c] PROVE CallInv(c)'
      <3>1. Answered(c)
        BY <1>1, <2>3 DEF CleanInv, CallInv, Asked, Scanning, Dropped
      <3>2. /\ Head(Stream(c)) = t /\ Stream(c)' = Tail(Stream(c))
            /\ Stream(c) \in Seq(Piece)
        <4>1. down[c] \in Seq(Piece) /\ hout[c] \in Seq(Piece) /\ down'[c] = Tail(down[c])
          BY <1>1, <1>3
        <4>2. /\ Head(down[c] \o hout[c]) = Head(down[c])
              /\ Tail(down[c]) \o hout[c] = Tail(down[c] \o hout[c])
          <5>1. down[c] # << >>
            BY <1>1
          <5>2. \A x, y \in Seq(Piece) : x # << >> =>
                  Head(x \o y) = Head(x) /\ Tail(x) \o y = Tail(x \o y)
            BY DropHead
          <5> QED
            BY <4>1, <5>1, <5>2, Zenon
        <4>3. down[c] \o hout[c] \in Seq(Piece)
          BY <4>1, ConcatProperties
        <4>4. hout'[c] = hout[c] /\ t = Head(down[c])
          BY <1>1, <1>2
        <4> QED
          BY <4>1, <4>2, <4>3, <4>4 DEF Stream
      <3>3. need'[c] = Following(creq[c].op, t)
        <4>1. t.kind = "header"
          BY <3>1, <3>2 DEF Answered
        <4>2. \A n \in Needed(creq[c].op, t) : n = Following(creq[c].op, t)
          BY <1>3, <4>1 DEF Needed, Following, Request
        <4> QED
          BY <1>3, <1>6, <4>2
      <3>4. Len(Stream(c)') = need'[c]
        <4>1. /\ Len(Tail(Stream(c))) = Len(Stream(c)) - 1 /\ Len(Stream(c)) \in Nat
          BY <3>1, <3>2, HeadTailProperties, LenProperties DEF Answered
        <4>2. Len(Stream(c)) = 1 + need'[c] /\ need'[c] \in Int
          <5>1. Len(Stream(c)) = 1 + need'[c]
            BY <3>1, <3>2, <3>3 DEF Answered
          <5>2. t \in Piece /\ t.kind = "header"
            BY <1>1, <1>3, <3>1, <3>2, HeadTailProperties DEF Answered
          <5>3. t.a \in Nat /\ t.b \in Nat
            BY <5>2 DEF Piece
          <5>4. need'[c] \in Int
            BY <3>3, <5>3 DEF Following, GetPayload
          <5> QED
            BY <5>1, <5>4
        <4> QED
          BY <3>2, <4>1, <4>2
      <3>5. Result(window[c], << >> \o Stream(c)')
        <4>1. Tail(Stream(c)) \in Seq(Piece)
          BY <3>1, <3>2, HeadTailProperties DEF Answered
        <4>2. << >> \o Tail(Stream(c)) = Tail(Stream(c))
          BY <4>1, ConcatEmptySeq
        <4> QED
          BY <3>1, <3>2, <4>2 DEF Answered
      <3>6. Effective(c)'
        BY <1>6, <2>1, <3>1 DEF Answered, Effective
      <3>7. Reading(c)'
        BY <1>1, <1>2, <1>3, <1>6, <3>1, <3>4, <3>5, <3>6 DEF Reading, Answered
      <3>8. cpc'[c] = "payload"
        BY <1>3, <1>6
      <3> QED
        BY <3>7, <3>8 DEF CallInv
    <2> QED
      BY <1>6, <2>2, <2>3 DEF CleanInv
  <1> QED
    BY <1>5, <1>6 DEF ReadHeader

\* A unit of payload is read.
LEMMA PayloadClean ==
  ASSUME TypeInv, WindowInv, CleanInv, NEW c \in Clients, ReadPayload(c)
  PROVE  CleanInv'
PROOF
  <1>1. /\ cpc[c] = "payload" /\ need[c] > 0 /\ down[c] # << >>
        /\ down' = [down EXCEPT ![c] = Tail(@)]
        /\ cres' = [cres EXCEPT ![c] = Append(@, Head(down[c]))]
        /\ need' = [need EXCEPT ![c] = @ - 1]
        /\ UNCHANGED <<cpc, creq, cid, up, handlerVars, clean, window, applied>>
    BY DEF ReadPayload
  <1>2. UNCHANGED <<hpc, hout, hleft, hseen>>
    BY <1>1 DEF handlerVars
  <1>3. /\ need \in [Clients -> Nat] /\ cres \in [Clients -> Seq(Piece)]
        /\ down \in [Clients -> Seq(Piece)] /\ hout \in [Clients -> Seq(Piece)]
    BY DEF TypeInv, SesTypeOK
  <1>4. \A d \in Clients : AppliedBy(d) = AppliedBy(d)'
    BY <1>1 DEF AppliedBy
  <1>5. ASSUME NEW d \in Clients, d # c, clean[d] PROVE CallInv(d)'
    <2>1. CallInv(d)
      BY <1>5 DEF CleanInv
    <2>2. down'[d] = down[d] /\ cres'[d] = cres[d] /\ need'[d] = need[d]
      BY <1>1, <1>3, <1>5
    <2> QED
      BY <1>1, <1>2, <1>4, <2>1, <2>2, CallKept
  <1>6. ASSUME clean[c] PROVE CallInv(c)'
    <2>1. Reading(c) /\ hpc[c] # "closed"
      BY <1>1, <1>6 DEF CleanInv, CallInv, Reading
    <2>2. /\ down'[c] = Tail(down[c]) /\ cres'[c] = Append(cres[c], Head(down[c]))
          /\ need'[c] = need[c] - 1
      BY <1>1, <1>3
    <2>3. down[c] \in Seq(Piece) /\ hout[c] \in Seq(Piece) /\ cres[c] \in Seq(Piece)
          /\ Tail(down[c]) \in Seq(Piece) /\ Append(cres[c], Head(down[c])) \in Seq(Piece)
      BY <1>1, <1>3
    <2>4. cres'[c] \o Stream(c)' = cres[c] \o Stream(c)
      <3>1. Append(cres[c], Head(down[c])) \o (Tail(down[c]) \o hout[c])
              = cres[c] \o (down[c] \o hout[c])
        <4>1. \A a, b, d \in Seq(Piece) : b # << >> =>
                Append(a, Head(b)) \o (Tail(b) \o d) = a \o (b \o d)
          BY MoveHeadOf
        <4> QED
          BY <1>1, <2>3, <4>1
      <3> QED
        BY <1>2, <2>2, <3>1 DEF Stream
    <2>5. Len(Stream(c)') = need'[c]
      <3>1. Len(Tail(down[c]) \o hout[c]) = Len(down[c] \o hout[c]) - 1
        BY <1>1, <2>3, MoveHeadOf
      <3>2. Len(down[c] \o hout[c]) = need[c]
        BY <2>1 DEF Reading, Stream
      <3>3. Stream(c)' = Tail(down[c]) \o hout[c]
        BY <1>2, <2>2 DEF Stream
      <3> QED
        BY <2>2, <3>1, <3>2, <3>3
    <2>6. Effective(c)'
      BY <1>1, <1>4, <2>1 DEF Reading, Effective
    <2>7. Reading(c)'
      BY <1>1, <1>2, <2>1, <2>4, <2>5, <2>6 DEF Reading
    <2> QED
      BY <1>1, <2>7 DEF CallInv
  <1> QED
    BY <1>1, <1>5, <1>6 DEF CleanInv

\* A call returns, or fails.
LEMMA ReturnClean ==
  ASSUME TypeInv, WindowInv, CleanInv, NEW c \in Clients,
         ReturnFromCall(c) \/ ReadsEOF(c) \/ TimesOut(c)
  PROVE  CleanInv'
PROOF
  <1>1. CallOver(c) /\ UNCHANGED <<up, down, handlerVars, applied>>
    BY DEF ReturnFromCall, ReadsEOF, TimesOut, CallFails
  <1>2. /\ clean \in [Clients -> BOOLEAN] /\ down[c] \in Seq(Piece)
        /\ hout[c] \in Seq(Piece)
        /\ hout[c] # << >> <=> hpc[c] = "write"
    BY DEF TypeInv, SesTypeOK
  <1>3. CASE ReadsEOF(c) \/ TimesOut(c)
    <2>1. ~ clean'[c] /\ \A d \in Clients : d # c => clean'[d] = clean[d]
      BY <1>2, <1>3 DEF ReadsEOF, TimesOut, CallFails
    <2> QED
      BY <1>1, <2>1, OverClean
  <1>4. CASE ReturnFromCall(c)
    <2>1. clean' = clean /\ cpc[c] = "payload" /\ need[c] = 0
      BY <1>4 DEF ReturnFromCall, Succeeds
    <2>2. ASSUME clean[c]
          PROVE  up[c] = << >> /\ down[c] = << >> /\ hpc[c] \in {"read", "closed"}
      <3>1. Reading(c)
        BY <2>1, <2>2 DEF CleanInv, CallInv
      <3>2. CASE hpc[c] = "closed"
        BY <3>1, <3>2 DEF Reading
      <3>3. CASE hpc[c] # "closed"
        <4>1. Len(down[c] \o hout[c]) = 0
          BY <2>1, <3>1, <3>3 DEF Reading, Stream
        <4>2. down[c] = << >> /\ hout[c] = << >>
          <5>1. Len(down[c]) + Len(hout[c]) = 0
            BY <1>2, <4>1, ConcatProperties
          <5>2. Len(down[c]) = 0 /\ Len(hout[c]) = 0
            <6>1. Len(down[c]) \in Nat /\ Len(hout[c]) \in Nat
              BY <1>2, LenProperties
            <6>2. \A m, n \in Nat : m + n = 0 => m = 0 /\ n = 0
              OBVIOUS
            <6> QED
              BY <5>1, <6>1, <6>2, Zenon
          <5> QED
            BY <1>2, <5>2, EmptySeq
        <4> QED
          BY <1>2, <3>1, <3>3, <4>2 DEF Reading
      <3> QED
        BY <3>2, <3>3
    <2> QED
      BY <1>1, <2>1, <2>2, OverClean
  <1> QED
    BY <1>3, <1>4

LEMMA InitClean == SesInit => CleanInv
PROOF
  BY DEF SesInit, CleanInv, CallInv

LEMMA NextClean ==
  ASSUME Cardinality(Keys) < CountMod, IsFiniteSet(Keys)
  PROVE  TypeInv /\ OrderInv /\ StreamInv /\ [SesNext]_sesVars => CleanInv'
PROOF
  <1> SUFFICES ASSUME TypeInv, OrderInv, WindowInv, ScanInv, CleanInv,
                      [SesNext]_sesVars
               PROVE  CleanInv'
    BY DEF StreamInv
  <1>1. ASSUME NEW c \in Clients, HandlerStep(c) \/ ConnectionDrops(c) PROVE CleanInv'
    BY <1>1, MutationClean, ReadClean, ScanClean, CloseClean, WriteClean DEF HandlerStep
  <1>2. ASSUME NEW c \in Clients,
               (\E q \in Request : Call(c, q)) \/ ClientStep(c) \/ TimesOut(c)
        PROVE  CleanInv'
    BY <1>2, CallClean, HeaderClean, PayloadClean, ReturnClean DEF ClientStep
  <1>3. ASSUME UNCHANGED <<cpc, creq, cid, need, cres, up, down, handlerVars, clean,
                           window, applied>>
        PROVE  CleanInv'
    <2>1. UNCHANGED <<hpc, hout, hleft, hseen>>
      BY <1>3 DEF handlerVars
    <2>2. \A d \in Clients : AppliedBy(d) = AppliedBy(d)'
      BY <1>3 DEF AppliedBy
    <2>3. ASSUME NEW d \in Clients, clean[d] PROVE CallInv(d)'
      <3>1. CallInv(d)
        BY <2>3 DEF CleanInv
      <3> QED
        BY <1>3, <2>1, <2>2, <3>1, CallKept
    <2> QED
      BY <1>3, <2>3 DEF CleanInv
  <1>4. ASSUME NEW c \in Clients, ClientClose(c) PROVE CleanInv'
    BY <1>3, <1>4 DEF ClientClose
  <1>5. CASE UNCHANGED sesVars
    BY <1>3, <1>5 DEF sesVars, clientVars
  <1> QED
    BY <1>1, <1>2, <1>4, <1>5 DEF SesNext

-----------------------------------------------------------------------------
(* Theorems.                                                               *)

\* Whatever times out, fails or is dropped: every variable keeps its type, and
\* the mutations of a client are applied at most once, in the order of its
\* calls, because handleConnection reads a connection request by request
\* (server.go:243-250, handler.go:30-69).
THEOREM SessionTypesAndOrder ==
  SesSpec => [](SesTypeOK /\ OrderInv)
PROOF
  <1>1. TypeInv => SesTypeOK
    BY DEF TypeInv
  <1> QED
    BY <1>1, InitType, NextType, InitOrder, NextOrder, PTL DEF SesSpec

LEMMA StreamsFollow ==
  ASSUME Cardinality(Keys) < CountMod, IsFiniteSet(Keys)
  PROVE  SesSpec => [](TypeInv /\ OrderInv /\ StreamInv)
PROOF
  <1>1. SesInit => TypeInv /\ OrderInv /\ StreamInv
    BY InitType, InitOrder, InitWindow, InitScan, InitClean DEF StreamInv
  <1>2. TypeInv /\ OrderInv /\ StreamInv /\ [SesNext]_sesVars
          => (TypeInv /\ OrderInv /\ StreamInv)'
    BY NextType, NextOrder, NextWindow, NextScan, NextClean DEF StreamInv
  <1> QED
    BY <1>1, <1>2, PTL DEF SesSpec

\* Between two calls of a client none of whose calls has failed the connection
\* is empty both ways (client.go:118-380, handler.go:40-186).
THEOREM ConnectionsDrained ==
  ASSUME Cardinality(Keys) < CountMod, IsFiniteSet(Keys)
  PROVE  SesSpec => []SesInv
PROOF
  <1>1. TypeInv /\ OrderInv /\ StreamInv => SesInv
    BY DEF TypeInv, StreamInv, CleanInv, CallInv, SesInv, StreamsDrained
  <1> QED
    BY <1>1, StreamsFollow, PTL

\* A Put or Delete that returns nil to such a client was applied, and mutations
\* take effect at most once and in order (handler.go:30-69, client.go:150-159).
THEOREM MutationsTakeEffect ==
  ASSUME Cardinality(Keys) < CountMod, IsFiniteSet(Keys)
  PROVE  SesSpec => []MutationsInOrder
PROOF
  <1>1. TypeInv /\ OrderInv /\ StreamInv => MutationsInOrder
    BY DEF OrderInv, StreamInv, CleanInv, CallInv, Reading, Effective, Succeeds,
       MutationsInOrder
  <1> QED
    BY <1>1, StreamsFollow, PTL

\* A Get or Scan of such a client returns values its keys had during the call:
\* it reads its own answer to the last item, and that only
\* (client.go:164-221, client.go:266-338).
THEOREM ResultsStayInWindow ==
  ASSUME Cardinality(Keys) < CountMod, IsFiniteSet(Keys)
  PROVE  SesSpec => []ResultsInWindow
PROOF
  <1>1. TypeInv /\ OrderInv /\ StreamInv => ResultsInWindow
    <2> SUFFICES ASSUME TypeInv, StreamInv, NEW c \in Clients, Succeeds(c), clean[c],
                        NEW k \in Keys, window[c][k] # {}
                 PROVE  Returned(c, k) \in window[c][k]
      BY DEF ResultsInWindow
    <2>1. Reading(c) /\ need[c] = 0
      BY DEF StreamInv, CleanInv, CallInv, Succeeds
    <2>2. Result(window[c], cres[c])
      <3>1. CASE hpc[c] = "closed"
        BY <2>1, <3>1 DEF Reading
      <3>2. CASE hpc[c] # "closed"
        <4>1. Len(Stream(c)) = 0 /\ Result(window[c], cres[c] \o Stream(c))
          BY <2>1, <3>2 DEF Reading
        <4>2. Stream(c) \in Seq(Piece) /\ cres[c] \in Seq(Piece)
          BY ConcatProperties DEF Stream, TypeInv, SesTypeOK
        <4>3. cres[c] \o Stream(c) = cres[c]
          BY <4>1, <4>2, EmptySeq, ConcatEmptySeq
        <4> QED
          BY <4>1, <4>3
      <3> QED
        BY <3>1, <3>2
    <2> DEFINE at == {i \in 1 .. Len(cres[c]) :
                        cres[c][i].key = k /\ cres[c][i].val # None}
    <2>3. CASE at = {}
      BY <2>2, <2>3 DEF Result, Returned
    <2>4. CASE at # {}
      <3>1. PICK i \in at : Returned(c, k) = cres[c][i].val
        BY <2>4 DEF Returned
      <3> QED
        BY <2>2, <3>1 DEF Result
    <2> QED
      BY <2>3, <2>4
  <1> QED
    BY <1>1, StreamsFollow, PTL
=============================================================================
