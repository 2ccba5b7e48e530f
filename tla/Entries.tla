------------------------------ MODULE Entries ------------------------------
(***************************************************************************)
(* What the tables of the engine hold.  A MemTable or an SSTable maps a    *)
(* key to a value, to a tombstone (an empty value, written by Delete), or  *)
(* holds no entry for it.                                                  *)
(***************************************************************************)
EXTENDS Integers, FiniteSets

CONSTANTS
  Keys,    \* byte-string keys
  Values,  \* the non-empty byte strings stored under them
  Tomb,    \* the empty value: a deletion
  Absent,  \* no entry for the key in this table
  None     \* nil: no table, no goroutine

ASSUME EntriesAssumption ==
  /\ Tomb \notin Values
  /\ Absent \notin Values
  /\ Tomb # Absent

Entry == Values \cup {Tomb, Absent}
Mutation == Values \cup {Tomb}
Table == [Keys -> Entry]

NoTable == [k \in Keys |-> Absent]

\* Table upper searched before table lower: the first entry met answers.
Overlay(upper, lower) ==
  [k \in Keys |-> IF upper[k] = Absent THEN lower[k] ELSE upper[k]]

\* What Get and Scan report for an entry: a tombstone is no value.
Visible(e) == IF e = Tomb THEN Absent ELSE e
=============================================================================
