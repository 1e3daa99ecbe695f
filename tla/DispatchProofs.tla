--------------------------- MODULE DispatchProofs ---------------------------
(***************************************************************************)
(* Proofs about Dispatch: its types, that one binary has one child, and    *)
(* that a successful dispatch has streamed its output.                     *)
(***************************************************************************)
EXTENDS Dispatch, SequenceTheorems, TLAPS

(* Past the spawn and before the return a dispatch holds its binary's lock.*)
Turn == \A r \in Requests : stage[r] \in {"stream", "drain", "kill"} =>
            queue[binary_key[r]] # <<>> /\ Head(queue[binary_key[r]]) = r

(* A child only lives in that time.                                        *)
Live == \A r \in Requests : child[r] \in {"alive", "killed"} => stage[r] \in {"stream", "kill"}

LockInv ==
    /\ stage \in [Requests -> Stages]
    /\ queue \in [Binaries -> Seq(Requests)]
    /\ child \in [Requests -> {"none", "alive", "killed", "dead"}]
    /\ Turn /\ Live

-----------------------------------------------------------------------------
(* The lock. *)

LEMMA LockInit == Init => LockInv
<1> SUFFICES ASSUME Init PROVE LockInv
  OBVIOUS
<1>1. <<>> \in Seq(Requests)
  OBVIOUS
<1>2. queue \in [Binaries -> Seq(Requests)]
  BY <1>1 DEF Init
<1>3. stage \in [Requests -> Stages] /\ child \in [Requests -> {"none", "alive", "killed", "dead"}]
  BY DEF Init, Stages
<1>4. \A r \in Requests : stage[r] = "new" /\ child[r] = "none"
  BY DEF Init
<1>5. Turn /\ Live
  BY <1>4 DEF Turn, Live
<1> QED BY <1>2, <1>3, <1>5 DEF LockInv

(* The dispatch at the head returns: no other one of its binary is past    *)
(* its spawn, so none loses the head.                                      *)
LEMMA LockReturns ==
    ASSUME LockInv, NEW r \in Requests, NEW result, Returns(r, result),
           queue[binary_key[r]] # <<>>, Head(queue[binary_key[r]]) = r,
           child[r] \notin {"alive", "killed"}, UNCHANGED child
    PROVE  LockInv'
<1>1. binary_key[r] \in Binaries /\ queue[binary_key[r]] \in Seq(Requests)
  BY DispatchAssumption DEF LockInv
<1>2. Tail(queue[binary_key[r]]) \in Seq(Requests)
  <2>1. queue[binary_key[r]] # <<>>
    OBVIOUS
  <2> QED BY <1>1, <2>1, HeadTailProperties
<1>3. stage' \in [Requests -> Stages] /\ queue' \in [Binaries -> Seq(Requests)]
  BY <1>1, <1>2 DEF LockInv, Returns, Stages
<1>4. Turn'
  <2> SUFFICES ASSUME NEW q \in Requests, stage'[q] \in {"stream", "drain", "kill"}
               PROVE  queue'[binary_key[q]] # <<>> /\ Head(queue'[binary_key[q]]) = q
    BY DEF Turn
  <2>1. q # r /\ stage[q] = stage'[q]
    BY DEF LockInv, Returns, Stages
  <2>2. queue[binary_key[q]] # <<>> /\ Head(queue[binary_key[q]]) = q
    BY <2>1 DEF LockInv, Turn
  <2>3. binary_key[q] # binary_key[r]
    BY <2>1, <2>2
  <2>4. queue'[binary_key[q]] = queue[binary_key[q]]
    BY <2>3, DispatchAssumption DEF LockInv, Returns
  <2> QED BY <2>2, <2>4
<1>5. Live'
  BY DEF LockInv, Live, Returns
<1> QED BY <1>3, <1>4, <1>5 DEF LockInv

LEMMA LockStays ==
    ASSUME LockInv, UNCHANGED <<stage, queue, child>>
    PROVE  LockInv'
BY DEF LockInv, Turn, Live

LEMMA LockStep ==
    ASSUME LockInv, [Next]_vars
    PROVE  LockInv'
<1>1. ASSUME UNCHANGED vars PROVE LockInv'
  BY <1>1, LockStays DEF vars
<1>2. ASSUME NEW r \in Requests, Enqueue(r) PROVE LockInv'
  <2>1. binary_key[r] \in Binaries /\ queue[binary_key[r]] \in Seq(Requests)
    BY DispatchAssumption DEF LockInv
  <2> DEFINE longer == Append(queue[binary_key[r]], r)
  <2>2. longer \in Seq(Requests) /\ longer # <<>>
    BY <2>1, AppendProperties
  <2>3. queue[binary_key[r]] # <<>> => Head(longer) = Head(queue[binary_key[r]])
    BY <2>1, HeadTailAppend
  <2>4. queue' = [queue EXCEPT ![binary_key[r]] = longer] /\ UNCHANGED child
    BY <1>2 DEF Enqueue, Process
  <2>5. stage[r] = "new" /\ stage' = [stage EXCEPT ![r] = "queued"]
    BY <1>2 DEF Enqueue
  <2> HIDE DEF longer
  <2>6. Turn'
    BY <2>1, <2>2, <2>3, <2>4, <2>5, DispatchAssumption DEF LockInv, Turn
  <2>7. Live'
    BY <2>4, <2>5 DEF LockInv, Live
  <2> QED BY <2>1, <2>2, <2>4, <2>5, <2>6, <2>7 DEF LockInv, Stages
<1>3. ASSUME NEW r \in Requests, Spawn(r) PROVE LockInv'
  <2>1. queue[binary_key[r]] # <<>> /\ Head(queue[binary_key[r]]) = r
    BY <1>3 DEF Spawn, holder
  <2> QED BY <1>3, <2>1 DEF LockInv, Spawn, Turn, Live, Stages
<1>4. ASSUME NEW r \in Requests, SpawnFails(r) PROVE LockInv'
  <2>1. queue[binary_key[r]] # <<>> /\ Head(queue[binary_key[r]]) = r
    BY <1>4 DEF SpawnFails, holder
  <2>2. child[r] \notin {"alive", "killed"} /\ UNCHANGED child
    BY <1>4 DEF SpawnFails, LockInv, Live, Process
  <2> QED BY <1>4, <2>1, <2>2, LockReturns DEF SpawnFails
<1>5. ASSUME NEW r \in Requests, WaitEnds(r) PROVE LockInv'
  BY <1>5 DEF LockInv, WaitEnds, Turn, Live, Stages, Process
<1>6. ASSUME NEW r \in Requests, TimesOut(r) PROVE LockInv'
  BY <1>6 DEF LockInv, TimesOut, Turn, Live, Stages
<1>7. ASSUME NEW r \in Requests, WaitFails(r) \/ Completes(r) \/ GivesUp(r) PROVE LockInv'
  <2>1. queue[binary_key[r]] # <<>> /\ Head(queue[binary_key[r]]) = r
    BY <1>7 DEF WaitFails, Completes, GivesUp, LockInv, Turn
  <2>2. child[r] \notin {"alive", "killed"} /\ UNCHANGED child
    BY <1>7 DEF WaitFails, Completes, GivesUp, LockInv, Live, Process
  <2>3. \E result : Returns(r, result)
    BY <1>7 DEF WaitFails, Completes, GivesUp
  <2> QED BY <2>1, <2>2, <2>3, LockReturns
<1>8. ASSUME NEW r \in Requests, Exits(r) \/ KillLands(r) PROVE LockInv'
  BY <1>8 DEF LockInv, Exits, KillLands, Turn, Live
<1>9. ASSUME NEW r \in Requests, Forward(r) \/ Reads(r) \/ Writes(r) \/ Forks(r) \/ KinExits(r)
      PROVE  LockInv'
  BY <1>9, LockStays
  DEF Forward, Reads, ReadLine, ReaderEnds, Writes, Forks, KinExits, Process
<1> QED BY <1>1, <1>2, <1>3, <1>4, <1>5, <1>6, <1>7, <1>8, <1>9 DEF Next, Driver, World

(* One binary, one child: BINARY_LOCKS is kept from before the spawn until *)
(* the child is dead (OnePerBinary), whatever times out or fails.          *)
THEOREM OneChildPerBinary == Spec => []OnePerBinary
<1>1. LockInv => OnePerBinary
  BY DEF LockInv, Turn, Live, OnePerBinary
<1> QED BY <1>1, LockInit, LockStep, PTL DEF Spec

-----------------------------------------------------------------------------
(* The output. *)

Shape ==
    /\ exit_ok \in [Requests -> BOOLEAN]
    /\ kin \in [Requests -> [alive : BOOLEAN, in_group : BOOLEAN, keeps : SUBSET Pipes]]
    /\ reader \in [Requests -> SUBSET Pipes]
    /\ outcome \in [Requests -> Outcomes]
    /\ wrote \in [Requests -> Nat] /\ garbled \in [Requests -> Nat] /\ full \in [Requests -> Nat]
    /\ channel \in [Requests -> Seq(Nat)] /\ on_line \in [Requests -> Seq(Nat)]
    /\ dropped \in [Requests -> SUBSET Nat]

(* The numbers in their bounds, and the lines of a copy that exists.       *)
Bounded(r) ==
    /\ wrote[r] <= MaxLines[r] /\ garbled[r] <= wrote[r] /\ full[r] <= wrote[r]
    /\ Len(channel[r]) <= Capacity
    /\ dropped[r] \subseteq 1 .. full[r]
    /\ \A i \in 1 .. Len(channel[r]) : channel[r][i] \in 1 .. full[r]
    /\ \A i \in 1 .. Len(on_line[r]) : on_line[r][i] \in 1 .. full[r]

(* What on_line was told and what is in the channel are the copy's lines,  *)
(* in order, as long as none was dropped.                                  *)
InOrder(r) ==
    dropped[r] = {} =>
        /\ Len(on_line[r]) + Len(channel[r]) = full[r]
        /\ \A i \in 1 .. Len(on_line[r]) : on_line[r][i] = i
        /\ \A i \in 1 .. Len(channel[r]) : channel[r][i] = Len(on_line[r]) + i

(* The reader has ended at the end of the output or at a garbled line, and *)
(* the forwarding has ended after the reader.                              *)
Ended(r) == "stdout" \notin reader[r] => full[r] = wrote[r] \/ garbled[r] # 0
Drained(r) == stage[r] = "drain" \/ outcome[r] = "success" =>
                  "stdout" \notin reader[r] /\ channel[r] = <<>>
Over(r) == outcome[r] # "none" => stage[r] = "done"

Good(r) == Bounded(r) /\ InOrder(r) /\ Ended(r) /\ Drained(r) /\ Over(r)

IInv == LockInv /\ Shape /\ \A r \in Requests : Good(r)

LEMMA OutputInit == Init => Shape /\ \A r \in Requests : Good(r)
<1> SUFFICES ASSUME Init PROVE Shape /\ \A r \in Requests : Good(r)
  OBVIOUS
<1>1. <<>> \in Seq(Nat) /\ Len(<<>>) = 0
  OBVIOUS
<1>2. Shape
  BY <1>1 DEF Init, Shape, NoKin, Outcomes
<1>3. ASSUME NEW r \in Requests PROVE Good(r)
  <2>1. /\ wrote[r] = 0 /\ garbled[r] = 0 /\ full[r] = 0 /\ dropped[r] = {}
        /\ channel[r] = <<>> /\ on_line[r] = <<>>
        /\ stage[r] = "new" /\ outcome[r] = "none"
    BY DEF Init
  <2>2. MaxLines[r] \in Nat /\ Capacity \in Nat
    BY DispatchAssumption
  <2> QED BY <1>1, <2>1, <2>2 DEF Good, Bounded, InOrder, Ended, Drained, Over
<1> QED BY <1>2, <1>3

(* A step of r leaves what the others have.                                *)
Same(q) ==
    /\ wrote'[q] = wrote[q] /\ garbled'[q] = garbled[q] /\ full'[q] = full[q]
    /\ channel'[q] = channel[q] /\ on_line'[q] = on_line[q] /\ dropped'[q] = dropped[q]

LEMMA OthersStayGood ==
    ASSUME NEW q \in Requests, Good(q), Same(q),
           reader'[q] = reader[q], stage'[q] = stage[q], outcome'[q] = outcome[q]
    PROVE  Good(q)'
BY DEF Good, Same, Bounded, InOrder, Ended, Drained, Over

(* Neither do the steps that touch no output.                              *)
LEMMA StaysInOrder ==
    ASSUME NEW r \in Requests, Good(r), Same(r)
    PROVE  Bounded(r)' /\ InOrder(r)'
BY DEF Good, Same, Bounded, InOrder

LEMMA Unread ==
    ASSUME IInv, UNCHANGED <<wrote, garbled>>, UNCHANGED Output,
           exit_ok' \in [Requests -> BOOLEAN],
           kin' \in [Requests -> [alive : BOOLEAN, in_group : BOOLEAN, keeps : SUBSET Pipes]],
           UNCHANGED <<stage, outcome>>
    PROVE  Shape' /\ \A r \in Requests : Good(r)'
<1>1. Shape'
  BY DEF IInv, Shape, Output
<1>2. ASSUME NEW q \in Requests PROVE Good(q)'
  BY OthersStayGood DEF IInv, Output, Same
<1> QED BY <1>1, <1>2

(* A dispatch changes its stage; nothing is written or read.               *)
LEMMA StageMoves ==
    ASSUME IInv, NEW r \in Requests, UNCHANGED <<wrote, garbled, exit_ok>>,
           UNCHANGED <<full, channel, dropped, on_line>>,
           kin' \in [Requests -> [alive : BOOLEAN, in_group : BOOLEAN, keeps : SUBSET Pipes]],
           reader' \in [Requests -> SUBSET Pipes], outcome' \in [Requests -> Outcomes],
           \A q \in Requests \ {r} : /\ reader'[q] = reader[q] /\ stage'[q] = stage[q]
                                     /\ outcome'[q] = outcome[q],
           Ended(r)', Drained(r)', Over(r)'
    PROVE  Shape' /\ \A q \in Requests : Good(q)'
<1>1. Shape'
  BY DEF IInv, Shape
<1>2. \A q \in Requests : Same(q)
  BY DEF Same
<1>3. ASSUME NEW q \in Requests \ {r} PROVE Good(q)'
  BY <1>2, OthersStayGood DEF IInv
<1>4. Good(r)'
  BY <1>2, StaysInOrder DEF IInv, Good
<1> QED BY <1>1, <1>3, <1>4

LEMMA WritesStep ==
    ASSUME IInv, NEW r \in Requests, Writes(r)
    PROVE  Shape' /\ \A q \in Requests : Good(q)'
<1>1. /\ wrote' = [wrote EXCEPT ![r] = @ + 1]
      /\ garbled' = garbled \/ (garbled[r] = 0 /\ garbled' = [garbled EXCEPT ![r] = wrote[r] + 1])
      /\ wrote[r] < MaxLines[r] /\ "stdout" \in reader[r]
  BY DEF Writes
<1>2. UNCHANGED <<stage, outcome, exit_ok, kin, full, reader, channel, dropped, on_line>>
  BY DEF Writes, Output
<1>3. wrote[r] \in Nat /\ garbled[r] \in Nat /\ full[r] \in Nat /\ MaxLines[r] \in Nat
  BY DispatchAssumption DEF IInv, Shape
<1>4. Shape'
  BY <1>1, <1>2, <1>3 DEF IInv, Shape
<1>5. ASSUME NEW q \in Requests \ {r} PROVE Good(q)'
  <2>1. Same(q)
    BY <1>1, <1>2 DEF IInv, Shape, Same
  <2> QED BY <1>2, <2>1, OthersStayGood DEF IInv
<1>6. wrote'[r] = wrote[r] + 1 /\ garbled'[r] \in {garbled[r], wrote[r] + 1}
  BY <1>1 DEF IInv, Shape
<1>7. Good(r)'
  <2>1. Good(r)
    BY DEF IInv
  <2>2. Bounded(r)'
    BY <1>1, <1>2, <1>3, <1>6, <2>1 DEF Good, Bounded
  <2> QED BY <1>1, <1>2, <2>1, <2>2 DEF Good, InOrder, Ended, Drained, Over
<1> QED BY <1>4, <1>5, <1>7

LEMMA ReadLineStep ==
    ASSUME IInv, NEW r \in Requests, ReadLine(r)
    PROVE  Shape' /\ \A q \in Requests : Good(q)'
<1>1. "stdout" \in reader[r] /\ full[r] < wrote[r]
  BY DEF ReadLine
<1>2. UNCHANGED <<stage, outcome, exit_ok, kin, wrote, garbled, on_line>>
  BY DEF ReadLine, Process
<1>3. /\ wrote[r] \in Nat /\ garbled[r] \in Nat /\ full[r] \in Nat /\ Capacity \in Nat
      /\ channel[r] \in Seq(Nat) /\ on_line[r] \in Seq(Nat) /\ Good(r)
  BY DispatchAssumption DEF IInv, Shape
<1>4. ASSUME full[r] + 1 = garbled[r],
             reader' = [reader EXCEPT ![r] = @ \ {"stdout"}], UNCHANGED <<full, channel, dropped>>
      PROVE  Shape' /\ \A q \in Requests : Good(q)'
  <2>1. /\ reader' \in [Requests -> SUBSET Pipes] /\ outcome' \in [Requests -> Outcomes]
        /\ kin' \in [Requests -> [alive : BOOLEAN, in_group : BOOLEAN, keeps : SUBSET Pipes]]
    BY <1>2, <1>4 DEF IInv, Shape
  <2>2. Ended(r)' /\ Drained(r)' /\ Over(r)'
    BY <1>1, <1>2, <1>3, <1>4 DEF Good, Ended, Drained, Over, IInv, Shape
  <2>3. \A q \in Requests \ {r} : reader'[q] = reader[q]
    BY <1>4 DEF IInv, Shape
  <2> QED BY <1>2, <1>4, <2>1, <2>2, <2>3, StageMoves
<1>5. ASSUME full' = [full EXCEPT ![r] = @ + 1], UNCHANGED reader,
             \/ /\ Len(channel[r]) < Capacity
                /\ channel' = [channel EXCEPT ![r] = Append(@, full[r] + 1)] /\ UNCHANGED dropped
             \/ dropped' = [dropped EXCEPT ![r] = @ \cup {full[r] + 1}] /\ UNCHANGED channel
      PROVE  Shape' /\ \A q \in Requests : Good(q)'
  <2> DEFINE longer == Append(channel[r], full[r] + 1)
  <2>1. /\ longer \in Seq(Nat) /\ Len(longer) = Len(channel[r]) + 1
        /\ \A i \in 1 .. Len(channel[r]) : longer[i] = channel[r][i]
        /\ longer[Len(channel[r]) + 1] = full[r] + 1
        /\ Len(channel[r]) \in Nat /\ Len(on_line[r]) \in Nat
    BY <1>3, AppendProperties
  <2>2. \/ channel' = [channel EXCEPT ![r] = longer] /\ UNCHANGED dropped /\ Len(channel[r]) < Capacity
        \/ dropped' = [dropped EXCEPT ![r] = @ \cup {full[r] + 1}] /\ UNCHANGED channel
    BY <1>5
  <2> HIDE DEF longer
  <2>3. Shape'
    <3>1. full' \in [Requests -> Nat]
      BY <1>3, <1>5 DEF IInv, Shape
    <3>2. channel' \in [Requests -> Seq(Nat)]
      BY <2>1, <2>2 DEF IInv, Shape
    <3>3. dropped' \in [Requests -> SUBSET Nat]
      <4>1. dropped[r] \cup {full[r] + 1} \in SUBSET Nat
        BY <1>3 DEF IInv, Shape
      <4> QED BY <2>2, <4>1 DEF IInv, Shape
    <3> QED BY <1>2, <1>5, <3>1, <3>2, <3>3 DEF IInv, Shape
  <2>4. ASSUME NEW q \in Requests \ {r} PROVE Good(q)'
    <3>1. Same(q)
      BY <1>2, <1>5, <2>2 DEF IInv, Shape, Same
    <3> QED BY <1>2, <1>5, <3>1, OthersStayGood DEF IInv
  <2>5. full'[r] = full[r] + 1
    BY <1>5 DEF IInv, Shape
  <2>6. \/ channel'[r] = longer /\ dropped'[r] = dropped[r] /\ Len(channel[r]) < Capacity
        \/ dropped'[r] = dropped[r] \cup {full[r] + 1} /\ channel'[r] = channel[r]
    BY <2>2 DEF IInv, Shape
  <2>7. Bounded(r)'
    <3>1. Bounded(r)
      BY <1>3 DEF Good
    <3>2. MaxLines[r] \in Nat
      BY DispatchAssumption
    <3> DEFINE Lines == 1 .. (full[r] + 1)
    <3>a. 1 .. full[r] \subseteq Lines /\ full[r] + 1 \in Lines
      BY <1>3
    <3>b. \A i \in 1 .. Len(longer) : i \in 1 .. Len(channel[r]) \/ i = Len(channel[r]) + 1
      BY <2>1
    <3> HIDE DEF Lines
    <3>c. \A i \in 1 .. Len(longer) : longer[i] \in Lines
      BY <2>1, <3>1, <3>a, <3>b DEF Bounded
    <3>3. \A i \in 1 .. Len(channel'[r]) : channel'[r][i] \in Lines
      BY <2>6, <3>1, <3>a, <3>c DEF Bounded
    <3>4. \A i \in 1 .. Len(on_line[r]) : on_line[r][i] \in Lines
      BY <3>1, <3>a DEF Bounded
    <3>5. dropped'[r] \subseteq Lines
      BY <2>6, <3>1, <3>a DEF Bounded
    <3>6. Len(channel'[r]) <= Capacity
      BY <1>3, <2>1, <2>6, <3>1 DEF Bounded
    <3> QED BY <1>1, <1>2, <1>3, <2>5, <3>1, <3>2, <3>3, <3>4, <3>5, <3>6 DEF Bounded, Lines
  <2>8. InOrder(r)'
    <3>1. CASE channel'[r] = longer /\ dropped'[r] = dropped[r]
      <4> SUFFICES ASSUME dropped[r] = {}
                   PROVE  /\ Len(on_line[r]) + Len(longer) = full[r] + 1
                          /\ \A i \in 1 .. Len(on_line[r]) : on_line[r][i] = i
                          /\ \A i \in 1 .. Len(longer) : longer[i] = Len(on_line[r]) + i
        BY <1>2, <2>5, <3>1 DEF InOrder
      <4>1. /\ Len(on_line[r]) + Len(channel[r]) = full[r]
            /\ \A i \in 1 .. Len(on_line[r]) : on_line[r][i] = i
            /\ \A i \in 1 .. Len(channel[r]) : channel[r][i] = Len(on_line[r]) + i
        BY <1>3 DEF Good, InOrder
      <4>a. /\ Len(on_line[r]) \in Nat /\ Len(channel[r]) \in Nat /\ full[r] \in Nat
            /\ Len(longer) = Len(channel[r]) + 1
            /\ Len(on_line[r]) + Len(channel[r]) = full[r]
        BY <1>3, <2>1, <4>1
      <4>2. Len(on_line[r]) + Len(longer) = full[r] + 1
        <5> DEFINE a == Len(on_line[r])
                   b == Len(channel[r])
                   c == full[r]
                   d == Len(longer)
        <5>1. a \in Nat /\ b \in Nat /\ c \in Nat /\ d = b + 1 /\ a + b = c
          BY <4>a
        <5> HIDE DEF a, b, c, d
        <5>2. a + d = c + 1
          BY <5>1
        <5> QED BY <5>2 DEF a, c, d
      <4>3. ASSUME NEW i \in 1 .. Len(longer) PROVE longer[i] = Len(on_line[r]) + i
        <5>1. CASE i \in 1 .. Len(channel[r])
          BY <2>1, <4>1, <5>1
        <5>2. CASE i = Len(channel[r]) + 1
          <6>1. longer[i] = full[r] + 1
            BY <2>1, <5>2
          <6> DEFINE a == Len(on_line[r])
                     b == Len(channel[r])
                     c == full[r]
          <6>2. a \in Nat /\ b \in Nat /\ c \in Nat /\ a + b = c
            BY <4>a
          <6> HIDE DEF a, b, c
          <6>3. c + 1 = a + (b + 1)
            BY <6>2
          <6> QED BY <5>2, <6>1, <6>3 DEF a, b, c
        <5> QED BY <2>1, <5>1, <5>2
      <4> QED BY <4>1, <4>2, <4>3
    <3>2. CASE dropped'[r] = dropped[r] \cup {full[r] + 1}
      BY <3>2 DEF InOrder
    <3> QED BY <2>6, <3>1, <3>2
  <2>9. Ended(r)' /\ Drained(r)' /\ Over(r)'
    BY <1>1, <1>2, <1>3, <1>5 DEF Good, Ended, Drained, Over
  <2> QED BY <2>3, <2>4, <2>7, <2>8, <2>9 DEF Good
<1> QED BY <1>4, <1>5 DEF ReadLine

LEMMA ReaderEndsStep ==
    ASSUME IInv, NEW r \in Requests, NEW pipe \in Pipes, ReaderEnds(r, pipe)
    PROVE  Shape' /\ \A q \in Requests : Good(q)'
<1>1. /\ reader' = [reader EXCEPT ![r] = @ \ {pipe}] /\ (pipe = "stdout" => full[r] = wrote[r])
      /\ UNCHANGED <<stage, outcome, full, channel, dropped, on_line, exit_ok, kin, wrote, garbled>>
  BY DEF ReaderEnds, Process
<1>2. /\ reader' \in [Requests -> SUBSET Pipes] /\ outcome' \in [Requests -> Outcomes]
      /\ kin' \in [Requests -> [alive : BOOLEAN, in_group : BOOLEAN, keeps : SUBSET Pipes]]
  BY <1>1 DEF IInv, Shape
<1>3. Good(r)
  BY DEF IInv
<1>4. Ended(r)' /\ Drained(r)' /\ Over(r)'
  BY <1>1, <1>3 DEF Good, Ended, Drained, Over, IInv, Shape
<1>5. \A q \in Requests \ {r} : reader'[q] = reader[q]
  BY <1>1 DEF IInv, Shape
<1> QED BY <1>1, <1>2, <1>4, <1>5, StageMoves

LEMMA ForwardStep ==
    ASSUME IInv, NEW r \in Requests, Forward(r)
    PROVE  Shape' /\ \A q \in Requests : Good(q)'
<1> DEFINE line == Head(channel[r])
           rest == Tail(channel[r])
           told == Append(on_line[r], line)
<1>1. /\ stage[r] = "stream" /\ channel[r] # <<>>
      /\ on_line' = [on_line EXCEPT ![r] = told] /\ channel' = [channel EXCEPT ![r] = rest]
      /\ UNCHANGED <<stage, outcome, exit_ok, kin, wrote, garbled, full, reader, dropped>>
  BY DEF Forward, Process
<1>2. /\ channel[r] \in Seq(Nat) /\ on_line[r] \in Seq(Nat) /\ full[r] \in Nat /\ Good(r)
      /\ Capacity \in Nat
  BY DispatchAssumption DEF IInv, Shape
<1>3. /\ line \in Nat /\ rest \in Seq(Nat) /\ Len(rest) = Len(channel[r]) - 1
      /\ \A i \in 1 .. Len(rest) : rest[i] = channel[r][i + 1]
      /\ Len(channel[r]) \in Nat \ {0} /\ line = channel[r][1]
  BY <1>1, <1>2, HeadTailProperties, EmptySeq
<1>4. /\ told \in Seq(Nat) /\ Len(told) = Len(on_line[r]) + 1
      /\ \A i \in 1 .. Len(on_line[r]) : told[i] = on_line[r][i]
      /\ told[Len(on_line[r]) + 1] = line /\ Len(on_line[r]) \in Nat
  BY <1>2, <1>3, AppendProperties
<1> HIDE DEF line, rest, told
<1>5. Shape'
  BY <1>1, <1>3, <1>4 DEF IInv, Shape
<1>6. ASSUME NEW q \in Requests \ {r} PROVE Good(q)'
  <2>1. Same(q)
    BY <1>1 DEF IInv, Shape, Same
  <2> QED BY <1>1, <2>1, OthersStayGood DEF IInv
<1>7. on_line'[r] = told /\ channel'[r] = rest
  BY <1>1 DEF IInv, Shape
<1>8. 1 \in 1 .. Len(channel[r])
  BY <1>3
<1>9. Bounded(r)'
  <2>1. Bounded(r)
    BY <1>2 DEF Good
  <2>2. line \in 1 .. full[r]
    BY <1>3, <1>8, <2>1 DEF Bounded
  <2>3. \A i \in 1 .. Len(told) : told[i] \in 1 .. full[r]
    <3> SUFFICES ASSUME NEW i \in 1 .. Len(told) PROVE told[i] \in 1 .. full[r]
      OBVIOUS
    <3>1. CASE i \in 1 .. Len(on_line[r])
      BY <1>4, <2>1, <3>1 DEF Bounded
    <3>2. CASE i = Len(on_line[r]) + 1
      BY <1>4, <2>2, <3>2
    <3> QED BY <1>4, <3>1, <3>2
  <2>4. \A i \in 1 .. Len(rest) : i + 1 \in 1 .. Len(channel[r])
    BY <1>3
  <2>5. \A i \in 1 .. Len(rest) : rest[i] \in 1 .. full[r]
    BY <1>3, <2>1, <2>4 DEF Bounded
  <2>6. Len(rest) <= Capacity
    BY <1>2, <1>3, <2>1 DEF Bounded
  <2> QED BY <1>1, <1>7, <2>1, <2>3, <2>5, <2>6 DEF Bounded
<1>10. InOrder(r)'
  <2> SUFFICES ASSUME dropped[r] = {}
               PROVE  /\ Len(told) + Len(rest) = full[r]
                      /\ \A i \in 1 .. Len(told) : told[i] = i
                      /\ \A i \in 1 .. Len(rest) : rest[i] = Len(told) + i
    BY <1>1, <1>7 DEF InOrder
  <2>1. /\ Len(on_line[r]) + Len(channel[r]) = full[r]
        /\ \A i \in 1 .. Len(on_line[r]) : on_line[r][i] = i
        /\ \A i \in 1 .. Len(channel[r]) : channel[r][i] = Len(on_line[r]) + i
    BY <1>2 DEF Good, InOrder
  <2>2. line = Len(on_line[r]) + 1
    BY <1>3, <1>8, <2>1
  <2>3. \A i \in 1 .. Len(told) : told[i] = i
    BY <1>4, <2>1, <2>2
  <2>4. \A i \in 1 .. Len(rest) : i + 1 \in 1 .. Len(channel[r])
    BY <1>3
  <2>5. \A i \in 1 .. Len(rest) : rest[i] = Len(told) + i
    BY <1>3, <1>4, <2>1, <2>4
  <2>6. Len(told) + Len(rest) = full[r]
    <3>1. /\ Len(on_line[r]) \in Nat /\ Len(channel[r]) \in Nat
          /\ Len(told) = Len(on_line[r]) + 1 /\ Len(rest) = Len(channel[r]) - 1
          /\ Len(on_line[r]) + Len(channel[r]) = full[r]
      BY <1>3, <1>4, <2>1
    <3> DEFINE a == Len(on_line[r])
               b == Len(channel[r])
               c == Len(told)
               d == Len(rest)
    <3>2. a \in Nat /\ b \in Nat /\ c = a + 1 /\ d = b - 1 /\ a + b = full[r]
      BY <3>1
    <3> HIDE DEF a, b, c, d
    <3>3. c + d = full[r]
      BY <3>2
    <3> QED BY <3>3 DEF c, d
  <2> QED BY <2>3, <2>5, <2>6
<1>11. Ended(r)' /\ Drained(r)' /\ Over(r)'
  BY <1>1, <1>2 DEF Good, Ended, Drained, Over
<1> QED BY <1>5, <1>6, <1>9, <1>10, <1>11 DEF Good

-----------------------------------------------------------------------------
(* A dispatch moves on or returns. *)

LEMMA ReturnsStep ==
    ASSUME IInv, NEW r \in Requests, NEW result \in Outcomes, Returns(r, result),
           UNCHANGED Process, UNCHANGED <<full, channel, dropped, on_line>>,
           reader' \in [Requests -> SUBSET Pipes],
           \A q \in Requests \ {r} : reader'[q] = reader[q],
           Ended(r)', Drained(r)'
    PROVE  Shape' /\ \A q \in Requests : Good(q)'
<1>1. /\ stage' = [stage EXCEPT ![r] = "done"] /\ outcome' = [outcome EXCEPT ![r] = result]
      /\ UNCHANGED <<exit_ok, kin, wrote, garbled>>
  BY DEF Returns, Process
<1>2. outcome' \in [Requests -> Outcomes]
  BY <1>1 DEF IInv, Shape
<1>3. kin' \in [Requests -> [alive : BOOLEAN, in_group : BOOLEAN, keeps : SUBSET Pipes]]
  BY <1>1 DEF IInv, Shape
<1>4. Over(r)'
  BY <1>1 DEF IInv, LockInv, Over
<1>5. \A q \in Requests \ {r} : stage'[q] = stage[q] /\ outcome'[q] = outcome[q]
  BY <1>1 DEF IInv, LockInv, Shape
<1> QED BY <1>1, <1>2, <1>3, <1>4, <1>5, StageMoves

LEMMA DriverStep ==
    ASSUME IInv, NEW r \in Requests, Enqueue(r) \/ Driver(r)
    PROVE  Shape' /\ \A q \in Requests : Good(q)'
<1> DEFINE Kins == [Requests -> [alive : BOOLEAN, in_group : BOOLEAN, keeps : SUBSET Pipes]]
<1>0. Good(r) /\ stage \in [Requests -> Stages] /\ outcome \in [Requests -> Outcomes] /\ kin \in Kins
      /\ reader \in [Requests -> SUBSET Pipes]
  BY DEF IInv, LockInv, Shape
<1>1. CASE Enqueue(r)
  <2>1. /\ stage[r] = "new" /\ stage' = [stage EXCEPT ![r] = "queued"]
        /\ UNCHANGED <<outcome, exit_ok, kin, wrote, garbled, full, reader, channel, dropped, on_line>>
    BY <1>1 DEF Enqueue, Process, Output
  <2>2. Ended(r)' /\ Drained(r)' /\ Over(r)'
    BY <1>0, <2>1 DEF Good, Ended, Drained, Over
  <2> QED BY <1>0, <2>1, <2>2, StageMoves
<1>2. CASE Spawn(r)
  <2>1. /\ stage[r] = "queued" /\ stage' = [stage EXCEPT ![r] = "stream"]
        /\ reader' = [reader EXCEPT ![r] = Pipes]
        /\ UNCHANGED <<outcome, exit_ok, kin, wrote, garbled, full, channel, dropped, on_line>>
    BY <1>2 DEF Spawn
  <2>2. reader' \in [Requests -> SUBSET Pipes] /\ "stdout" \in reader'[r]
    BY <1>0, <2>1 DEF Pipes
  <2>3. Ended(r)' /\ Drained(r)' /\ Over(r)'
    BY <1>0, <2>1, <2>2 DEF Good, Ended, Drained, Over
  <2> QED BY <1>0, <2>1, <2>2, <2>3, StageMoves
<1>3. CASE SpawnFails(r)
  <2>1. /\ stage[r] = "queued" /\ Returns(r, "error") /\ UNCHANGED Process
        /\ UNCHANGED <<full, reader, channel, dropped, on_line, wrote, garbled>>
    BY <1>3 DEF SpawnFails, Output, Process
  <2>2. stage'[r] = "done" /\ outcome'[r] = "error"
    BY <1>0, <2>1 DEF Returns
  <2>3. Ended(r)' /\ Drained(r)'
    BY <1>0, <2>1, <2>2 DEF Good, Ended, Drained
  <2> QED BY <1>0, <2>1, <2>3, ReturnsStep DEF Outcomes
<1>4. CASE Forward(r)
  BY <1>4, ForwardStep
<1>5. CASE WaitEnds(r)
  <2>1. /\ stage[r] = "stream" /\ stage' = [stage EXCEPT ![r] = "drain"]
        /\ "stdout" \notin reader[r] /\ channel[r] = <<>>
        /\ UNCHANGED <<outcome, exit_ok, kin, wrote, garbled, full, reader, channel, dropped, on_line>>
    BY <1>5 DEF WaitEnds, Process, Output
  <2>2. Ended(r)' /\ Drained(r)' /\ Over(r)'
    BY <1>0, <2>1 DEF Good, Ended, Drained, Over
  <2> QED BY <1>0, <2>1, <2>2, StageMoves
<1>6. CASE WaitFails(r)
  <2>1. /\ Returns(r, "error") /\ UNCHANGED Process /\ reader' = [reader EXCEPT ![r] = {}]
        /\ "stdout" \notin reader[r] /\ channel[r] = <<>>
        /\ UNCHANGED <<full, channel, dropped, on_line, wrote, garbled>>
    BY <1>6 DEF WaitFails, Process
  <2>2. reader'[r] = {} /\ reader' \in [Requests -> SUBSET Pipes]
    BY <1>0, <2>1
  <2>3. Ended(r)' /\ Drained(r)'
    BY <1>0, <2>1, <2>2 DEF Good, Ended, Drained
  <2> QED BY <1>0, <2>1, <2>2, <2>3, ReturnsStep DEF Outcomes
<1>7. CASE TimesOut(r)
  <2>1. /\ stage[r] = "stream" /\ stage' = [stage EXCEPT ![r] = "kill"]
        /\ kin' = [kin EXCEPT ![r].alive = @ /\ ~kin[r].in_group]
        /\ UNCHANGED <<outcome, exit_ok, wrote, garbled, full, reader, channel, dropped, on_line>>
    BY <1>7 DEF TimesOut, Output
  <2>2. kin' \in Kins
    <3>1. kin[r].alive \in BOOLEAN /\ kin[r].in_group \in BOOLEAN
      BY <1>0
    <3>2. (kin[r].alive /\ ~kin[r].in_group) \in BOOLEAN
      BY <3>1
    <3> QED BY <1>0, <2>1, <3>2
  <2>3. Ended(r)' /\ Drained(r)' /\ Over(r)'
    BY <1>0, <2>1 DEF Good, Ended, Drained, Over
  <2> QED BY <1>0, <2>1, <2>2, <2>3, StageMoves
<1>8. CASE Completes(r) \/ GivesUp(r)
  <2>1. /\ UNCHANGED Process /\ reader[r] = {}
        /\ UNCHANGED <<full, reader, channel, dropped, on_line, wrote, garbled>>
    BY <1>8 DEF Completes, GivesUp, Process, Output
  <2>2. \/ stage[r] = "drain" /\ \E result \in Outcomes : Returns(r, result)
        \/ Returns(r, "timeout")
    BY <1>8 DEF Completes, GivesUp, Outcomes
  <2>3. Ended(r)'
    BY <1>0, <2>1 DEF Good, Ended
  <2>4. ASSUME stage[r] = "drain", NEW result \in Outcomes, Returns(r, result)
        PROVE  Shape' /\ \A q \in Requests : Good(q)'
    <3>1. Drained(r)'
      BY <1>0, <2>1, <2>4 DEF Good, Drained
    <3> QED BY <1>0, <2>1, <2>3, <2>4, <3>1, ReturnsStep
  <2>5. ASSUME Returns(r, "timeout")
        PROVE  Shape' /\ \A q \in Requests : Good(q)'
    <3>1. stage'[r] = "done" /\ outcome'[r] = "timeout"
      BY <1>0, <2>5 DEF Returns
    <3>2. Drained(r)'
      BY <3>1 DEF Drained
    <3> QED BY <1>0, <2>1, <2>3, <2>5, <3>2, ReturnsStep DEF Outcomes
  <2> QED BY <2>2, <2>4, <2>5
<1> QED BY <1>1, <1>2, <1>3, <1>4, <1>5, <1>6, <1>7, <1>8 DEF Driver

LEMMA Inductive == IInv /\ [Next]_vars => IInv'
<1> SUFFICES ASSUME IInv, [Next]_vars PROVE IInv'
  OBVIOUS
<1> DEFINE Kins == [Requests -> [alive : BOOLEAN, in_group : BOOLEAN, keeps : SUBSET Pipes]]
<1>1. LockInv'
  BY LockStep DEF IInv
<1>2. exit_ok \in [Requests -> BOOLEAN] /\ kin \in Kins
  BY DEF IInv, Shape
<1>3. ASSUME UNCHANGED vars PROVE Shape' /\ \A q \in Requests : Good(q)'
  BY <1>2, <1>3, Unread DEF vars, Output
<1>4. ASSUME NEW r \in Requests, Exits(r) \/ KillLands(r)
      PROVE  Shape' /\ \A q \in Requests : Good(q)'
  <2>1. exit_ok' \in [Requests -> BOOLEAN]
    BY <1>2, <1>4 DEF Exits, KillLands
  <2> QED BY <1>2, <1>4, <2>1, Unread DEF Exits, KillLands
<1>5. ASSUME NEW r \in Requests, Forks(r) \/ KinExits(r)
      PROVE  Shape' /\ \A q \in Requests : Good(q)'
  <2>1. kin' \in Kins
    <3>1. CASE Forks(r)
      <4>1. PICK in_group \in BOOLEAN, keeps \in SUBSET Pipes :
               kin' = [kin EXCEPT ![r] = [alive |-> TRUE, in_group |-> in_group, keeps |-> keeps]]
        BY <3>1 DEF Forks
      <4> QED BY <1>2, <4>1
    <3>2. CASE KinExits(r)
      BY <1>2, <3>2 DEF KinExits
    <3> QED BY <1>5, <3>1, <3>2
  <2> QED BY <1>2, <1>5, <2>1, Unread DEF Forks, KinExits
<1> QED BY <1>1, <1>3, <1>4, <1>5, WritesStep, ReadLineStep, ReaderEndsStep, DriverStep
        DEF IInv, Next, Reads, World

LEMMA Invariant == Spec => []IInv
<1>1. Init => IInv
  BY LockInit, OutputInit DEF IInv
<1> QED BY <1>1, Inductive, PTL DEF Spec

(* The channel never holds more than its capacity, and what it and on_line *)
(* hold are lines of the copy, which are lines that were written (TypeOK). *)
THEOREM TypeCorrect == Spec => []TypeOK
<1>1. ASSUME IInv PROVE TypeOK
  <2>1. ASSUME NEW r \in Requests
        PROVE  /\ wrote[r] \in 0 .. MaxLines[r] /\ garbled[r] \in 0 .. wrote[r]
               /\ full[r] \in 0 .. wrote[r] /\ dropped[r] \subseteq 1 .. full[r]
               /\ Len(channel[r]) <= Capacity
    <3>1. MaxLines[r] \in Nat
      BY DispatchAssumption
    <3> QED BY <1>1, <3>1 DEF IInv, Shape, Good, Bounded
  <2>2. ASSUME NEW n \in Nat, NEW s \in Seq(Nat), \A i \in 1 .. Len(s) : s[i] \in 1 .. n
        PROVE  s \in Seq(1 .. n)
    <3>1. Len(s) \in Nat /\ s \in [1 .. Len(s) -> Nat]
      BY LenProperties
    <3>2. s \in [1 .. Len(s) -> 1 .. n]
      BY <2>2, <3>1
    <3> QED BY <3>1, <3>2, SeqDef
  <2>3. ASSUME NEW r \in Requests
        PROVE  channel[r] \in Seq(1 .. full[r]) /\ on_line[r] \in Seq(1 .. full[r])
    <3>1. full[r] \in Nat /\ channel[r] \in Seq(Nat) /\ on_line[r] \in Seq(Nat) /\ Bounded(r)
      BY <1>1 DEF IInv, Shape, Good
    <3> QED BY <2>2, <3>1 DEF Bounded
  <2> QED BY <1>1, <2>1, <2>3 DEF IInv, LockInv, Shape, TypeOK
<1> QED BY <1>1, Invariant, PTL

(* Whatever the interleaving of reader, forwarder and child, a dispatch    *)
(* that succeeds has passed on all of its output, in order, but for dropped*)
(* lines and what follows a garbled one (StreamIsOutput).                  *)
THEOREM StreamIsComplete == Spec => []StreamIsOutput
<1>1. ASSUME IInv PROVE StreamIsOutput
  <2> SUFFICES ASSUME NEW r \in Requests, outcome[r] = "success"
               PROVE  /\ garbled[r] = 0 => full[r] = wrote[r]
                      /\ dropped[r] = {} => on_line[r] = [i \in 1 .. full[r] |-> i]
    BY DEF StreamIsOutput
  <2>1. Good(r) /\ full[r] \in Nat /\ on_line[r] \in Seq(Nat)
    BY <1>1 DEF IInv, Shape
  <2>2. "stdout" \notin reader[r] /\ channel[r] = <<>>
    BY <2>1 DEF Good, Drained
  <2>3. garbled[r] = 0 => full[r] = wrote[r]
    BY <2>1, <2>2 DEF Good, Ended
  <2>4. ASSUME dropped[r] = {} PROVE on_line[r] = [i \in 1 .. full[r] |-> i]
    <3>1. Len(on_line[r]) \in Nat /\ on_line[r] \in [1 .. Len(on_line[r]) -> Nat]
      BY <2>1, LenProperties
    <3>2. Len(on_line[r]) = full[r]
      BY <2>1, <2>2, <2>4, <3>1 DEF Good, InOrder
    <3>3. \A i \in 1 .. full[r] : on_line[r][i] = i
      BY <2>1, <2>4, <3>2 DEF Good, InOrder
    <3> QED BY <3>1, <3>2, <3>3
  <2> QED BY <2>3, <2>4
<1> QED BY <1>1, Invariant, PTL
=============================================================================
