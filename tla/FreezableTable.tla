--------------------------- MODULE FreezableTable ---------------------------
(***************************************************************************)
(* What a MemTable promises the write path: a table that every accepted    *)
(* Put changes in one key at one moment between its call and its return,   *)
(* and that nothing changes once it is frozen; a Put is refused only when  *)
(* the table is frozen.  Rotation uses MemTables this way; SkipList        *)
(* implements it.                                                          *)
(***************************************************************************)
EXTENDS Entries

CONSTANT Writers

VARIABLES
  table,   \* what lookups answer
  frozen,
  status,  \* status[w]: "idle", "called", "applied" or "refused"
  op       \* op[w]: the key and the mutation of w's call

vars == <<table, frozen, status, op>>

NoOp == [key |-> None, val |-> None]

Init ==
  /\ table \in Table
  /\ frozen = FALSE
  /\ status = [w \in Writers |-> "idle"]
  /\ op = [w \in Writers |-> NoOp]

Call(w) ==
  /\ status[w] = "idle"
  /\ status' = [status EXCEPT ![w] = "called"]
  /\ \E k \in Keys, m \in Mutation : op' = [op EXCEPT ![w] = [key |-> k, val |-> m]]
  /\ UNCHANGED <<table, frozen>>

Apply(w) ==
  /\ status[w] = "called" /\ ~ frozen
  /\ table' = [table EXCEPT ![op[w].key] = op[w].val]
  /\ status' = [status EXCEPT ![w] = "applied"]
  /\ UNCHANGED <<frozen, op>>

Refuse(w) ==
  /\ status[w] = "called" /\ frozen
  /\ status' = [status EXCEPT ![w] = "refused"]
  /\ UNCHANGED <<table, frozen, op>>

Return(w) ==
  /\ status[w] \in {"applied", "refused"}
  /\ status' = [status EXCEPT ![w] = "idle"]
  /\ op' = [op EXCEPT ![w] = NoOp]
  /\ UNCHANGED <<table, frozen>>

Freeze ==
  /\ frozen' = TRUE
  /\ UNCHANGED <<table, status, op>>

Next ==
  \/ \E w \in Writers : Call(w) \/ Apply(w) \/ Refuse(w) \/ Return(w)
  \/ Freeze

Spec == Init /\ [][Next]_vars
=============================================================================
