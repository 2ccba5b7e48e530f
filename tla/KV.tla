-------------------------------- MODULE KV --------------------------------
(***************************************************************************)
(* What the write path of the engine promises: a map from keys to values   *)
(* in which every Put and Delete takes effect exactly once, at one moment  *)
(* between its call and its return.  Where files may be lost, a key may    *)
(* become unreadable until it is written again; it never gets back a value *)
(* that it had before.  Rotation implements it.                            *)
(***************************************************************************)
EXTENDS Entries

CONSTANTS
  Writers,     \* goroutines calling Put and Delete
  MayLose,     \* may values be lost?
  Unreadable   \* the value of a key that was lost: a lookup reports an error

VARIABLES
  kv,      \* kv[k]: the value of k, Absent if there is none
  status,  \* status[w]: "idle", "called" or "applied"
  op       \* op[w]: the key and the mutation of w's call

vars == <<kv, status, op>>

NoOp == [key |-> None, val |-> None]
Op == [key : Keys, val : Mutation]

Init ==
  /\ kv = NoTable
  /\ status = [w \in Writers |-> "idle"]
  /\ op = [w \in Writers |-> NoOp]

Call(w) ==
  /\ status[w] = "idle"
  /\ status' = [status EXCEPT ![w] = "called"]
  /\ \E o \in Op : op' = [op EXCEPT ![w] = o]
  /\ UNCHANGED kv

Apply(w) ==
  /\ status[w] = "called"
  /\ status' = [status EXCEPT ![w] = "applied"]
  /\ kv' = [kv EXCEPT ![op[w].key] = Visible(op[w].val)]
  /\ UNCHANGED op

Return(w) ==
  /\ status[w] = "applied"
  /\ status' = [status EXCEPT ![w] = "idle"]
  /\ op' = [op EXCEPT ![w] = NoOp]
  /\ UNCHANGED kv

Lose ==
  /\ MayLose
  /\ \E K \in SUBSET Keys :
       kv' = [k \in Keys |-> IF k \in K THEN Unreadable ELSE kv[k]]
  /\ UNCHANGED <<status, op>>

Next == (\E w \in Writers : Call(w) \/ Apply(w) \/ Return(w)) \/ Lose

Spec == Init /\ [][Next]_vars
=============================================================================
