------------------------------ MODULE Exposure ------------------------------
(***************************************************************************)
(* server.py: rpServer.arcl, which exposes cameras and lights, called by   *)
(* several clients, each in its thread, and Abort in the middle of it.     *)
(*                                                                         *)
(* A level is a number whose bits are lines: the low PinWidth bits are the *)
(* P pins, and the LEDs, the next ones the N pins.  arcl adds the lights   *)
(* up, waits, and subtracts each when its time is over.  WriteDigital      *)
(* stores to three registers, one after the other, and other threads may   *)
(* run between any two stores.  Time goes on at any moment, so that a wait *)
(* may take longer than was asked for.  busy_wait measures it with         *)
(* time.time(), which is taken never to be set forward while it waits: if  *)
(* it were, the wait would be shorter, and nothing here would hold of it.  *)
(*                                                                         *)
(* Of Abort only the two stores are here; Server has the rest.             *)
(***************************************************************************)
EXTENDS Integers, SequencesExt

CONSTANTS
  Clients,
  PinWidth,     \* 8 in the code
  Exposures     \* the arguments of arcl: [cameras |-> level, lights |-> <<<<line, time>>, ...>>]

PinRange == 2 ^ PinWidth
Times == {0} \cup UNION {{l[2] : l \in Range(e.lights)} : e \in Exposures}
Longest == CHOOSE t \in Times : \A u \in Times : u <= t

ASSUME ExposureAssumption ==
  /\ PinWidth \in Nat /\ PinRange \in Nat \ {0}
  /\ \A e \in Exposures : e.cameras \in Nat /\ e.lights \in Seq(Nat \X Nat)
  /\ \E t \in Times : \A u \in Times : u <= t

\* What is used of the powers of two, up to one more than there are lines.
ASSUME PowersOfTwo ==
  /\ 2 ^ 0 = 1
  /\ \A b \in 0 .. 2 * PinWidth : 2 ^ b \in Nat \ {0} /\ 2 ^ (b + 1) = 2 * 2 ^ b

VARIABLES
  pc,           \* pc[c]: where the thread of c is
  phase,        \* phase[c]: which of its levels c is writing, or has written
  call,         \* call[c]: its arguments
  next,         \* next[c]: the index of the next light to go out
  level,        \* level[c]: curDigital
  curTime,      \* curTime[c]
  left,         \* left[c]: what is left of a busy_wait
  reg,          \* the registers "led", "P" and "N"
  lit,          \* history: the time for which the lights of c were on, up to Longest
  waited,       \* history: the time asked for so far
  disturbed     \* history: another thread has written to a register

locals == <<call, next, level, curTime>>
history == <<lit, waited, disturbed>>
vars == <<pc, phase, locals, left, reg, history>>

Regs == {"led", "P", "N"}
NoCall == [cameras |-> 0, lights |-> <<>>]
Dark == [r \in Regs |-> 0]

Init ==
  /\ pc = [c \in Clients |-> "idle"]
  /\ phase = [c \in Clients |-> "none"]
  /\ call = [c \in Clients |-> NoCall]
  /\ next = [c \in Clients |-> 1]
  /\ level = [c \in Clients |-> 0]
  /\ curTime = [c \in Clients |-> 0]
  /\ left = [c \in Clients |-> 0]
  /\ reg = Dark
  /\ lit = [c \in Clients |-> 0]
  /\ waited = [c \in Clients |-> 0]
  /\ disturbed = [c \in Clients |-> FALSE]
-----------------------------------------------------------------------------

Go(c, from, to) == pc[c] = from /\ pc' = [pc EXCEPT ![c] = to]
Set(f, c, v) == [f EXCEPT ![c] = v]

\* Mutant: the lights are taken in the order of the caller.
Unsorted(lights) == {lights}

\* Lights of equal times go out together, in any order.
SortedByTime(lights) ==
  {s \in {[i \in DOMAIN lights |-> lights[p[i]]] : p \in Bijection(DOMAIN lights, DOMAIN lights)} :
     \A i, j \in DOMAIN s : i < j => s[i][2] <= s[j][2]}

SumOfLines(lights) ==
  LET sum[i \in 0 .. Len(lights)] == IF i = 0 THEN 0 ELSE sum[i - 1] + lights[i][1]
  IN  sum[Len(lights)]

\* Mutant: the level is stored as it is.
Unmasked(r, n) == IF r = "N" THEN n \div PinRange ELSE n

\* Mutant: the N pins get the low lines.
PinsSwapped(r, n) == IF r = "P" THEN (n \div PinRange) % PinRange ELSE n % PinRange

\* What a register shows of a level; & on a negative number is as for two's complement.
Part(r, n) == IF r = "N" THEN (n \div PinRange) % PinRange ELSE n % PinRange

(***************************************************************************)
(* The start of arcl: all lights are switched on.                          *)
(***************************************************************************)
Start(c) == \E e \in Exposures : \E sorted \in SortedByTime(e.lights) :
  /\ Go(c, "idle", "led")
  /\ phase' = Set(phase, c, "first")
  /\ call' = Set(call, c, [cameras |-> e.cameras, lights |-> sorted])
  /\ level' = Set(level, c, e.cameras + SumOfLines(sorted))
  /\ disturbed' = Set(disturbed, c, FALSE)
  /\ UNCHANGED <<next, curTime, left, reg, lit, waited>>

(***************************************************************************)
(* WriteDigital.                                                           *)
(***************************************************************************)
Disturb(c) == disturbed' = [d \in Clients |-> disturbed[d] \/ (d # c /\ pc[d] # "idle")]

Store(c, r, to) ==
  /\ Go(c, r, to)
  /\ reg' = [reg EXCEPT ![r] = Part(r, level[c])]
  /\ Disturb(c)

StoreLed(c) == Store(c, "led", "P") /\ UNCHANGED <<phase, locals, left, lit, waited>>
StoreP(c) == Store(c, "P", "N") /\ UNCHANGED <<phase, locals, left, lit, waited>>

\* Without lights the next level is the last one.
StoreN(c) ==
  /\ phase[c] # "last"
  /\ Store(c, "N", IF call[c].lights = <<>> THEN "final" ELSE "loop")
  /\ UNCHANGED <<phase, locals, left, lit, waited>>

\* The call is over.
Finish(c) ==
  /\ phase[c] = "last"
  /\ Store(c, "N", "idle")
  /\ phase' = Set(phase, c, "none")
  /\ call' = Set(call, c, NoCall)
  /\ next' = Set(next, c, 1)
  /\ level' = Set(level, c, 0)
  /\ curTime' = Set(curTime, c, 0)
  /\ lit' = Set(lit, c, 0)
  /\ waited' = Set(waited, c, 0)
  /\ UNCHANGED left

(***************************************************************************)
(* The loop over the lights and what comes after it: wait until time t.    *)
(***************************************************************************)
LightsLeft(c) == next[c] <= Len(call[c].lights)
Light(c) == call[c].lights[next[c]]
TotalTime(c) == Last(call[c].lights)[2]

WaitUntil(c, t, to) ==
  LET waitTime == t - curTime[c] IN
  /\ Go(c, "loop", to)
  /\ left' = Set(left, c, IF waitTime > 0 THEN waitTime ELSE 0)
  /\ waited' = Set(waited, c, waited[c] + left'[c])
  /\ curTime' = Set(curTime, c, t)
  /\ UNCHANGED <<phase, call, next, level, reg, lit, disturbed>>

\* Mutant: a wait of one unit is left out.
WaitOffByOne(c) ==
  /\ LightsLeft(c)
  /\ Go(c, "loop", "wait")
  /\ left' = Set(left, c, IF Light(c)[2] - curTime[c] > 1 THEN Light(c)[2] - curTime[c] ELSE 0)
  /\ waited' = Set(waited, c, Light(c)[2])
  /\ curTime' = Set(curTime, c, Light(c)[2])
  /\ UNCHANGED <<phase, call, next, level, reg, lit, disturbed>>

Wait(c) == LightsLeft(c) /\ WaitUntil(c, Light(c)[2], "wait")
FinalWait(c) == ~LightsLeft(c) /\ WaitUntil(c, TotalTime(c), "final")

\* Mutant: a light that has gone out is not written.
DropUnwritten(c) ==
  /\ left[c] = 0
  /\ Go(c, "wait", "loop")
  /\ phase' = Set(phase, c, "drop")
  /\ level' = Set(level, c, level[c] - Light(c)[1])
  /\ next' = Set(next, c, next[c] + 1)
  /\ UNCHANGED <<call, curTime, left, reg, history>>

Drop(c) ==
  /\ left[c] = 0
  /\ Go(c, "wait", "led")
  /\ phase' = Set(phase, c, "drop")
  /\ level' = Set(level, c, level[c] - Light(c)[1])
  /\ next' = Set(next, c, next[c] + 1)
  /\ UNCHANGED <<call, curTime, left, reg, history>>

\* Mutant: nothing is written at the end, since all lights are out.
LastUnwritten(c) ==
  /\ left[c] = 0
  /\ Go(c, "final", "N")
  /\ phase' = Set(phase, c, "last")
  /\ level' = Set(level, c, 0)
  /\ UNCHANGED <<call, next, curTime, left, reg, history>>

LastLevel(c) ==
  /\ left[c] = 0
  /\ Go(c, "final", "led")
  /\ phase' = Set(phase, c, "last")
  /\ level' = Set(level, c, 0)
  /\ UNCHANGED <<call, next, curTime, left, reg, history>>

arcl(c) ==
  \/ Start(c) \/ StoreLed(c) \/ StoreP(c) \/ StoreN(c)
  \/ Wait(c) \/ Drop(c) \/ FinalWait(c) \/ LastLevel(c) \/ Finish(c)

(***************************************************************************)
(* The stores of Abort, and time.                                          *)
(***************************************************************************)
AbortStore(c, r, from, to) ==
  /\ Go(c, from, to)
  /\ reg' = [reg EXCEPT ![r] = 0]
  /\ Disturb(c)
  /\ UNCHANGED <<phase, locals, left, lit, waited>>

Abort(c) == AbortStore(c, "P", "idle", "abortN") \/ AbortStore(c, "N", "abortN", "idle")

InProgress(c) == phase[c] # "none"
Bits(n) == {b \in 0 .. 2 * PinWidth - 1 : (n \div 2 ^ b) % 2 = 1}
BitsOf(r) == Bits(IF r = "N" THEN reg[r] * PinRange ELSE reg[r])

\* Every light that c has not taken out yet is on, as the pins show it.
LightsOn(c) ==
  /\ InProgress(c)
  /\ \A i \in next[c] .. Len(call[c].lights) :
       Bits(call[c].lights[i][1]) \subseteq BitsOf("P") \cup BitsOf("N")

Tick ==
  /\ left' = [c \in Clients |-> IF left[c] > 0 THEN left[c] - 1 ELSE 0]
  /\ lit' = [c \in Clients |-> IF LightsOn(c) /\ lit[c] < Longest THEN lit[c] + 1 ELSE lit[c]]
  /\ UNCHANGED <<pc, phase, locals, reg, waited, disturbed>>

Next == Tick \/ \E c \in Clients : arcl(c) \/ Abort(c)

Spec == Init /\ [][Next]_vars
-----------------------------------------------------------------------------

Gone(c) == 1 .. next[c] - 1             \* the lights that have been taken out
BitsFor(r) == IF r = "N" THEN PinWidth .. 2 * PinWidth - 1 ELSE 0 .. PinWidth - 1

\* Type correctness.
TypeOK ==
  /\ pc \in [Clients -> {"idle", "loop", "wait", "final", "abortN"} \cup Regs]
  /\ phase \in [Clients -> {"none", "first", "drop", "last"}]
  /\ \A c \in Clients : next[c] \in 1 .. Len(call[c].lights) + 1
  /\ level \in [Clients -> Nat]
  /\ curTime \in [Clients -> Times] /\ left \in [Clients -> 0 .. Longest]
  /\ reg \in [Regs -> 0 .. PinRange - 1]
  /\ lit \in [Clients -> 0 .. Longest] /\ waited \in [Clients -> Nat]
  /\ disturbed \in [Clients -> BOOLEAN]

(***************************************************************************)
(* The lines that c has on, once it has written its level, if no line is   *)
(* named twice: the cameras until the end, and each light until it has     *)
(* been taken out.  Level arithmetic is set arithmetic then.               *)
(***************************************************************************)
Disjoint(e) ==
  /\ \A i, j \in DOMAIN e.lights : i # j => Bits(e.lights[i][1]) \cap Bits(e.lights[j][1]) = {}
  /\ \A i \in DOMAIN e.lights : Bits(e.lights[i][1]) \cap Bits(e.cameras) = {}

DueFrom(c, i) ==
  Bits(call[c].cameras) \cup UNION {Bits(call[c].lights[j][1]) : j \in i .. Len(call[c].lights)}
DueNow(c) == IF phase[c] \in {"none", "last"} THEN {} ELSE DueFrom(c, next[c])

\* Before the store to r, r still shows what was due before.
Pending(c, r) == pc[c] = "led" \/ (pc[c] = "P" /\ r # "led") \/ (pc[c] = "N" /\ r = "N")
DueBefore(c) ==
  CASE phase[c] = "drop" -> DueFrom(c, next[c] - 1)
    [] phase[c] = "last" -> Bits(call[c].cameras)
    [] OTHER -> {}

(***************************************************************************)
(* However calls and Aborts overlap, a line that is on is due in some call *)
(* in progress: no light that has been taken out comes back on, and after  *)
(* an Abort the lights come back only while a call goes on that the Abort  *)
(* did not stop (server.py:142-146, 160-187).                              *)
(***************************************************************************)
LitMeansDue ==
  (\A c \in Clients : Disjoint(call[c])) =>
    \A r \in Regs : \A b \in BitsOf(r) : \E c \in Clients :
      b \in IF Pending(c, r) THEN DueBefore(c) ELSE DueNow(c)

(***************************************************************************)
(* All lights are exposed at the start and drop out as their times come to *)
(* an end (server.py:162-163): a call that no other thread disturbs shows  *)
(* all that is due, and no other line, in each register.                   *)
(***************************************************************************)
UndisturbedShowsDue ==
  \A c \in Clients : InProgress(c) /\ ~disturbed[c] /\ Disjoint(call[c]) =>
    \A r \in Regs : ~Pending(c, r) => BitsOf(r) = DueNow(c) \cap BitsFor(r)

(***************************************************************************)
(* A light of a call that no other thread disturbs has been on for at      *)
(* least its time when it is taken out (server.py:171-177).  Up to then    *)
(* lit counts only the time for which the pins show it, and all the lights *)
(* that are taken out after it.                                            *)
(***************************************************************************)
OnForItsTime ==
  \A c \in Clients : ~disturbed[c] /\ Disjoint(call[c]) =>
    \A i \in Gone(c) : lit[c] >= call[c].lights[i][2]

(***************************************************************************)
(* When a light is taken out the waits so far add up to its time: it is on *)
(* longer only for what the stores and the scheduler take.                 *)
(***************************************************************************)
NotLonger == \A c \in Clients : \A i \in Gone(c) :
  i = next[c] - 1 /\ pc[c] # "wait" => waited[c] = call[c].lights[i][2]

(***************************************************************************)
(* When no call is in progress all registers are dark, the LEDs too, which *)
(* Abort does not clear: however calls and Aborts were interleaved, each   *)
(* register was last written by a final level of zero (server.py:183-187). *)
(***************************************************************************)
QuietIsDark == (\A c \in Clients : pc[c] = "idle") => reg = Dark
=============================================================================
