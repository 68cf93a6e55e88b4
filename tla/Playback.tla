------------------------------ MODULE Playback ------------------------------
(***************************************************************************)
(* What an ActionTable runner promises, whatever its threads of control:   *)
(* every channel shows the values of the table's rows one after the other, *)
(* none skipped and none before its time; no channel starts a row before   *)
(* all of them have finished the row before; and a channel that has been   *)
(* switched off shows zero for good.  A run may stop at any point.         *)
(***************************************************************************)
EXTENDS Naturals

CONSTANTS
  Channels,   \* the outputs
  Values,     \* what a channel can show; zero is one of them
  Rows,       \* records with a time in ticks and a value for each channel
  Slots,      \* where rows are kept, numbered from zero
  NoRow       \* what a slot holds before a row is loaded

VARIABLES
  table,      \* the rows
  loaded,     \* how many slots hold a row
  elapsed,    \* ticks since the run began to play
  pos,        \* pos[c]: how many rows channel c has shown
  off,        \* off[c]: has c been switched off?
  shown       \* shown[c]: what c shows

vars == <<table, loaded, elapsed, pos, off, shown>>

Init ==
  /\ table = [s \in Slots |-> NoRow]
  /\ loaded = 0
  /\ elapsed = 0
  /\ pos = [c \in Channels |-> 0]
  /\ off = [c \in Channels |-> FALSE]
  /\ shown \in [Channels -> Values]

Unplayed == \A c \in Channels : pos[c] = 0

\* Channels are set to zero before anything is played.
Prepare(S) ==
  /\ Unplayed
  /\ shown' = [c \in Channels |-> IF c \in S THEN 0 ELSE shown[c]]
  /\ UNCHANGED <<table, loaded, elapsed, pos, off>>

Load(row) ==
  /\ Unplayed
  /\ loaded \in Slots
  /\ table' = [table EXCEPT ![loaded] = row]
  /\ loaded' = loaded + 1
  /\ UNCHANGED <<elapsed, pos, off, shown>>

Tick ==
  /\ elapsed' = elapsed + 1
  /\ UNCHANGED <<table, loaded, pos, off, shown>>

\* Channel c goes on to its next row, which must be due.
Advance(c) ==
  /\ ~off[c]
  /\ pos[c] < loaded
  /\ \A d \in Channels : pos[c] <= pos[d]
  /\ elapsed > table[pos[c]].clocks
  /\ shown' = [shown EXCEPT ![c] = table[pos[c]].val[c]]
  /\ pos' = [pos EXCEPT ![c] = @ + 1]
  /\ UNCHANGED <<table, loaded, elapsed, off>>

SwitchOff(c) ==
  /\ off' = [off EXCEPT ![c] = TRUE]
  /\ shown' = [shown EXCEPT ![c] = 0]
  /\ UNCHANGED <<table, loaded, elapsed, pos>>

Next ==
  \/ Tick
  \/ \E S \in SUBSET Channels : Prepare(S)
  \/ \E row \in Rows : Load(row)
  \/ \E c \in Channels : Advance(c) \/ SwitchOff(c)

Spec == Init /\ [][Next]_vars
=============================================================================
