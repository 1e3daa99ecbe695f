-------------------------- MODULE MeshDriverProofs --------------------------
(***************************************************************************)
(* Proofs about MeshDriver, for every plan, roster, affinity, capacity and *)
(* bound: the drive lock keeps the two drivers apart; assign stays within  *)
(* the capacities; every variable keeps its type; the order of the plan is *)
(* kept, no done node is dispatched again and no lease is leaked.          *)
(*                                                                         *)
(* The inductive invariant is MeshInv.  Its parts need each other one way: *)
(* the lock and the types stand alone, the plan and the leases use both.   *)
(***************************************************************************)
EXTENDS MeshDriver, TLAPS, SequenceTheorems, FiniteSetTheorems, WellFoundedInduction

Driving == Spawning \cup {"tick"}

(* A driver is a record with a place; what else it holds does not matter.  *)
Whole(r) == DOMAIN r = {"at", "batch", "token", "ok"} /\ r = [f \in DOMAIN r |-> r[f]]

Records ==
    /\ driver = [d \in Drivers |-> driver[d]]
    /\ \A d \in Drivers : Whole(driver[d])

(* A lock that is held is held by a driver that is at it.                  *)
LockInv ==
    /\ Records
    /\ SingleDriver
    /\ driver["bg"].at \in Spawning \cup {"idle"}

LEMMA TwoDrivers == "fg" \in Drivers /\ "bg" \in Drivers /\ \A d \in Drivers : d = "fg" \/ d = "bg"
BY DEF Drivers

LEMMA IdleRecords ==
    Whole(Idle) /\ Idle.at = "idle"
BY DEF Idle, Whole

LEMMA LockInit == Init => LockInv
<1> SUFFICES ASSUME Init PROVE LockInv
  OBVIOUS
<1>1. driver = [d \in Drivers |-> IF d = "fg" THEN [Idle EXCEPT !.at = "start"] ELSE Idle]
  BY DEF Init
<1>2. driver["fg"] = [Idle EXCEPT !.at = "start"] /\ driver["bg"] = Idle
  BY <1>1, TwoDrivers
<1>3. Records
  BY <1>1, <1>2, TwoDrivers, IdleRecords DEF Records, Whole
<1> QED BY <1>2, <1>3, TwoDrivers DEF LockInv, SingleDriver, At, Spawning, Idle

(* Driver d moves to r, and holds the lock if r says so; the other driver  *)
(* stays where it is, and loses no lock.                                   *)
LEMMA Moved ==
    ASSUME LockInv, NEW d \in Drivers, NEW r, Goes(d, r),
           Whole(r),
           d = "bg" => r.at \in Spawning \cup {"idle"},
           r.at \in Driving => drive' = d,
           \A e \in Drivers \ {d} : At(e, Driving) => drive' = e
    PROVE  LockInv'
<1>1. driver'[d] = r /\ \A e \in Drivers \ {d} : driver'[e] = driver[e]
  BY DEF Goes, LockInv, Records
<1>2. driver' = [e \in Drivers |-> driver'[e]]
  BY DEF Goes, LockInv, Records
<1>3. Records'
  BY <1>1, <1>2 DEF LockInv, Records
<1>4. SingleDriver'
  BY <1>1 DEF SingleDriver, At, Driving
<1>5. driver'["bg"].at \in Spawning \cup {"idle"}
  BY <1>1, TwoDrivers DEF LockInv
<1> QED BY <1>3, <1>4, <1>5 DEF LockInv

(* The holder moves on with the lock, or gives it back.                    *)
LEMMA HolderMoves ==
    ASSUME LockInv, NEW d \in Drivers, NEW r, Goes(d, r), At(d, Driving),
           Whole(r),
           \/ r.at \in Spawning /\ UNCHANGED drive
           \/ d = "fg" /\ r.at = "tick" /\ UNCHANGED drive
           \/ r.at = "idle"
    PROVE  LockInv'
<1>1. drive = d
  BY DEF LockInv, SingleDriver, At, Driving
<1>2. \A e \in Drivers \ {d} : ~At(e, Driving)
  BY <1>1 DEF LockInv, SingleDriver, At, Driving
<1>3. d = "bg" => r.at \in Spawning \cup {"idle"}
  BY DEF Spawning
<1>4. r.at \in Driving => drive' = d
  BY <1>1 DEF Driving, Spawning
<1> QED BY <1>2, <1>3, <1>4, Moved

(* TurnsToNext, the end of every spawn, keeps the lock or gives it back.   *)
LEMMA Turned ==
    ASSUME LockInv, NEW d \in Drivers, At(d, Driving), TurnsToNext(d)
    PROVE  LockInv'
<1>1. CASE Dispatches(d, Tail(driver[d].batch)) /\ UNCHANGED drive
  <2> DEFINE r == [Idle EXCEPT !.at = "claim", !.batch = Tail(driver[d].batch)]
  <2>1. r.at = "claim" /\ Whole(r)
    BY IdleRecords DEF Whole
  <2>2. Goes(d, r)
    BY <1>1 DEF Dispatches
  <2> HIDE DEF r
  <2> QED BY <1>1, <2>1, <2>2, HolderMoves DEF Spawning
<1>2. CASE d = "fg" /\ Goes(d, [Idle EXCEPT !.at = "tick"]) /\ UNCHANGED drive
  <2> DEFINE r == [Idle EXCEPT !.at = "tick"]
  <2>1. r.at = "tick" /\ Whole(r)
    BY IdleRecords DEF Whole
  <2>2. Goes(d, r)
    BY <1>2
  <2> HIDE DEF r
  <2> QED BY <1>2, <2>1, <2>2, HolderMoves
<1>3. CASE Ends(d)
  BY <1>3, IdleRecords, HolderMoves DEF Ends
<1> QED BY <1>1, <1>2, <1>3 DEF TurnsToNext

LEMMA LockStays ==
    ASSUME LockInv, UNCHANGED <<driver, drive>>
    PROVE  LockInv'
BY DEF LockInv, Records, SingleDriver, At

LEMMA LockStep ==
    ASSUME LockInv, [Next]_vars
    PROVE  LockInv'
<1>1. ASSUME UNCHANGED vars PROVE LockInv'
  BY <1>1, LockStays DEF vars
<1>2. CASE Plan
  <2>1. At("fg", {"start"}) /\ UNCHANGED drive
    BY <1>2 DEF Plan
  <2>2. \A e \in Drivers : At(e, Driving) => drive' = e
    BY <2>1 DEF LockInv, SingleDriver, At, Driving
  <2>3. CASE Goes("fg", Idle)
    BY <2>2, <2>3, TwoDrivers, IdleRecords, Moved DEF Driving, Spawning
  <2>4. CASE Moves("fg", "want")
    <3> DEFINE r == [driver["fg"] EXCEPT !.at = "want"]
    <3>1. r.at = "want" /\ Whole(r)
      BY TwoDrivers DEF LockInv, Records, Whole
    <3>2. Goes("fg", r)
      BY <2>4 DEF Moves
    <3> HIDE DEF r
    <3> QED BY <2>2, <3>1, <3>2, TwoDrivers, Moved DEF Driving, Spawning
  <2> QED BY <1>2, <2>3, <2>4 DEF Plan
<1>3. CASE TakeDrive
  <2>1. drive = "free" /\ drive' = "fg" /\ Moves("fg", "tick")
    BY <1>3 DEF TakeDrive
  <2>2. \A e \in Drivers : ~At(e, Driving)
    BY <2>1 DEF LockInv, SingleDriver, At, Driving, Drivers
  <2> DEFINE r == [driver["fg"] EXCEPT !.at = "tick"]
  <2>3. r.at = "tick" /\ Whole(r)
    BY TwoDrivers DEF LockInv, Records, Whole
  <2>4. Goes("fg", r)
    BY <2>1 DEF Moves
  <2> HIDE DEF r
  <2> QED BY <2>1, <2>2, <2>3, <2>4, TwoDrivers, Moved
<1>4. CASE MaxTicksHit \/ NoOp
  <2>1. At("fg", Driving) /\ Goes("fg", Idle)
    BY <1>4 DEF MaxTicksHit, NoOp, Ticks, Ends, At, Driving
  <2> QED BY <2>1, TwoDrivers, IdleRecords, HolderMoves
<1>5. CASE StallDetected
  BY <1>5, LockStays DEF StallDetected
<1>6. CASE Dispatched
  <2>1. /\ At("fg", Driving)
        /\ \/ Goes("fg", Idle)
           \/ \E batch : Dispatches("fg", batch) /\ UNCHANGED drive
    BY <1>6 DEF Dispatched, Ticks, Ends, At, Driving
  <2>2. CASE Goes("fg", Idle)
    BY <2>1, <2>2, TwoDrivers, IdleRecords, HolderMoves
  <2>3. ASSUME NEW batch, Dispatches("fg", batch), UNCHANGED drive PROVE LockInv'
    <3> DEFINE r == [Idle EXCEPT !.at = "claim", !.batch = batch]
    <3>1. r.at = "claim" /\ Whole(r)
      BY IdleRecords DEF Whole
    <3>2. Goes("fg", r)
      BY <2>3 DEF Dispatches
    <3> HIDE DEF r
    <3> QED BY <2>1, <2>3, <3>1, <3>2, TwoDrivers, HolderMoves DEF Spawning
  <2> QED BY <2>1, <2>2, <2>3
<1>7. CASE BackgroundTick
  <2>1. drive = "free" /\ drive' = "bg" /\ \E batch : Dispatches("bg", batch)
    BY <1>7 DEF BackgroundTick
  <2>2. \A e \in Drivers : ~At(e, Driving)
    BY <2>1 DEF LockInv, SingleDriver, At, Driving, Drivers
  <2>3. PICK batch : Dispatches("bg", batch)
    BY <2>1
  <2> DEFINE r == [Idle EXCEPT !.at = "claim", !.batch = batch]
  <2>4. r.at = "claim" /\ Whole(r)
    BY IdleRecords DEF Whole
  <2>5. Goes("bg", r)
    BY <2>3 DEF Dispatches
  <2> HIDE DEF r
  <2> QED BY <2>1, <2>2, <2>4, <2>5, TwoDrivers, Moved DEF Spawning
<1>8. ASSUME NEW d \in Drivers, Acquired(d) \/ ClaimFails(d) PROVE LockInv'
  <2>1. At(d, Driving) /\ \E k : Spawns(d, k)
    BY <1>8 DEF Acquired, ClaimFails, At, Driving, Spawning
  <2>2. PICK k : Spawns(d, k)
    BY <2>1
  <2> DEFINE r == [driver[d] EXCEPT !.at = "work", !.token = k]
  <2>3. r.at = "work" /\ Whole(r)
    BY DEF LockInv, Records, Whole
  <2>4. Goes(d, r) /\ UNCHANGED drive
    BY <2>2 DEF Spawns
  <2> HIDE DEF r
  <2> QED BY <2>1, <2>3, <2>4, HolderMoves DEF Spawning
<1>9. ASSUME NEW d \in Drivers, AlreadyClaimed(d) \/ Cleanup(d) PROVE LockInv'
  <2>1. At(d, Driving) /\ TurnsToNext(d)
    BY <1>9 DEF AlreadyClaimed, Cleanup, MarkDone, At, Driving, Spawning
  <2> QED BY <2>1, Turned
<1>10. ASSUME NEW d \in Drivers, BladeEnds(d) PROVE LockInv'
  <2>1. At(d, Driving) /\ UNCHANGED drive
    BY <1>10 DEF BladeEnds, At, Driving, Spawning
  <2>2. PICK ok \in BOOLEAN :
          Goes(d, [driver[d] EXCEPT !.at = IF ok THEN "merge" ELSE "cleanup", !.ok = ok])
    BY <1>10 DEF BladeEnds
  <2> DEFINE r == [driver[d] EXCEPT !.at = IF ok THEN "merge" ELSE "cleanup", !.ok = ok]
  <2>3. r.at \in Spawning /\ Whole(r)
    BY DEF LockInv, Records, Whole, Spawning
  <2>4. Goes(d, r)
    BY <2>2
  <2> HIDE DEF r
  <2> QED BY <2>1, <2>3, <2>4, HolderMoves
<1>11. ASSUME NEW d \in Drivers, Merge(d) PROVE LockInv'
  <2>1. At(d, Driving) /\ UNCHANGED drive /\ Moves(d, "cleanup")
    BY <1>11 DEF Merge, At, Driving, Spawning
  <2> DEFINE r == [driver[d] EXCEPT !.at = "cleanup"]
  <2>2. r.at \in Spawning /\ Whole(r)
    BY DEF LockInv, Records, Whole, Spawning
  <2>3. Goes(d, r)
    BY <2>1 DEF Moves
  <2> HIDE DEF r
  <2> QED BY <2>1, <2>2, <2>3, HolderMoves
<1>12. CASE Crash
  <2>1. driver' = [d \in Drivers |-> Idle]
    BY <1>12 DEF Crash
  <2>2. \A d \in Drivers : driver'[d] = Idle
    BY <2>1
  <2>3. Records'
    BY <2>1, <2>2, IdleRecords DEF Records
  <2> QED BY <2>2, <2>3, IdleRecords, TwoDrivers DEF LockInv, SingleDriver, At, Spawning
<1>13. CASE \/ \E k \in Tokens : Age(k)
            \/ \E n \in Nodes : Reap(n) \/ ForeignClaim(n) \/ ForeignRelease(n)
  BY <1>13, LockStays DEF Age, Reap, ForeignClaim, ForeignRelease, Outside
<1> QED BY <1>1, <1>2, <1>3, <1>4, <1>5, <1>6, <1>7, <1>8, <1>9, <1>10, <1>11, <1>12, <1>13
        DEF Next, Loop, Spawn

(* The foreground run and the background driver never spawn, integrate or  *)
(* mark at the same time, through every await of a spawn, every store      *)
(* error and every crash (SingleDriver).                                   *)
THEOREM OneDriver == Spec => []SingleDriver
<1>1. LockInv => SingleDriver
  BY DEF LockInv
<1> QED BY <1>1, LockInit, LockStep, PTL DEF Spec

-----------------------------------------------------------------------------
(* The plan and its ids. *)

(* Induction over an interval, by the least number left out.               *)
LEMMA UpTo ==
    ASSUME NEW n \in Nat, NEW S, 0 \in S, \A i \in 0 .. n : i > 0 /\ i - 1 \in S => i \in S
    PROVE  0 .. n \subseteq S
<1> DEFINE less == {ss \in Nat \X Nat : ss[1] < ss[2]}
           Out  == {i \in 0 .. n : i \notin S}
<1>1. IsWellFoundedOn(less, Nat)
  BY NatLessThanWellFounded, Zenon DEF OpToRel
<1>2. SUFFICES ASSUME Out # {} PROVE FALSE
  OBVIOUS
<1>3. Out \subseteq Nat
  OBVIOUS
<1>4. ASSUME NEW i \in Out PROVE i \in Nat /\ i - 1 \in Out /\ <<i - 1, i>> \in less
  BY <1>4
<1>5. PICK i \in Out : \A j \in Out : <<j, i>> \notin less
  <2> HIDE DEF less, Out
  <2> QED BY <1>1, <1>2, <1>3, WFMin
<1> QED BY <1>4, <1>5

(* A set of numbers that is not empty has a least one.                     *)
LEMMA Least ==
    ASSUME NEW S \in SUBSET Nat, S # {}
    PROVE  \E i \in S : \A j \in S : i <= j
<1> DEFINE less == {ss \in Nat \X Nat : ss[1] < ss[2]}
<1>1. IsWellFoundedOn(less, Nat)
  BY NatLessThanWellFounded, Zenon DEF OpToRel
<1>2. PICK i \in S : \A j \in S : <<j, i>> \notin less
  <2> HIDE DEF less
  <2> QED BY <1>1, WFMin
<1>3. ASSUME NEW j \in S, j < i PROVE <<j, i>> \in less
  BY <1>3
<1> HIDE DEF less
<1>4. \A j \in S : ~(j < i)
  BY <1>2, <1>3
<1>5. i \in Nat /\ \A j \in S : j \in Nat
  OBVIOUS
<1>6. \A j \in S : i <= j
  BY <1>4, <1>5
<1> QED BY <1>6

LEMMA Joined ==
    ASSUME NEW S, NEW s \in Seq(S), NEW t \in Seq(S)
    PROVE  /\ s \o t \in Seq(S) /\ Len(s \o t) = Len(s) + Len(t)
           /\ \A i \in 1 .. Len(s) : (s \o t)[i] = s[i]
           /\ \A i \in 1 .. Len(t) : (s \o t)[Len(s) + i] = t[i]
<1>1. Len(s) \in Nat /\ Len(t) \in Nat
  OBVIOUS
<1>2. \A i \in 1 .. Len(s) : i \in 1 .. Len(s) + Len(t) /\ i <= Len(s)
  BY <1>1
<1>3. \A i \in 1 .. Len(t) : /\ Len(s) + i \in 1 .. Len(s) + Len(t) /\ ~(Len(s) + i <= Len(s))
                             /\ (Len(s) + i) - Len(s) = i
  BY <1>1
<1> QED BY <1>2, <1>3, ConcatProperties

LEMMA Short ==
    ASSUME NEW S, NEW x \in S, NEW y \in S
    PROVE  /\ <<x>> \in Seq(S) /\ Len(<<x>>) = 1 /\ <<x>>[1] = x
           /\ <<x, y>> \in Seq(S) /\ Len(<<x, y>>) = 2 /\ <<x, y>>[1] = x /\ <<x, y>>[2] = y
OBVIOUS

(* The ids of a plan in their order: each node of the plan, once.          *)
LEMMA IdOrderIs ==
    /\ IdOrder \in Seq(Nodes)
    /\ \A i, j \in 1 .. Len(IdOrder) : IdOrder[i] = IdOrder[j] => i = j
    /\ \A n \in Nodes : \E i \in 1 .. Len(IdOrder) : IdOrder[i] = n
<1> DEFINE l == Len(Areas)
<1>1. /\ Areas \in Seq(STRING) /\ l \in Nat /\ DOMAIN Areas = 1 .. l
      /\ \A i, j \in 1 .. l : Areas[i] = Areas[j] => i = j
      /\ \A i \in 1 .. l : Areas[i] \notin {"plan", "integrate", "implement", "verify"}
  <2>1. /\ Areas \in Seq(STRING) /\ IsInjective(Areas)
        /\ Range(Areas) \cap {"plan", "integrate", "implement", "verify"} = {}
    BY MeshDriverAssumption
  <2>2. l \in Nat /\ DOMAIN Areas = 1 .. l
    BY <2>1
  <2>3. \A i \in 1 .. l : Areas[i] \in Range(Areas)
    BY <2>2 DEF Range
  <2> QED BY <2>1, <2>2, <2>3 DEF IsInjective
<1>2. CASE Fans
  <2> DEFINE head == <<"plan">>
             first == head \o Areas
             last == <<"integrate">>
             end == <<"integrate", "plan">>
             Ids == {Areas[i] : i \in 1 .. l} \cup {"plan", "integrate"}
  <2>1. "plan" \in Ids /\ "integrate" \in Ids /\ Areas \in Seq(Ids)
    <3>1. \A i \in 1 .. Len(Areas) : Areas[i] \in Ids
      OBVIOUS
    <3> QED BY <3>1, <1>1
  <2> HIDE DEF Ids
  <2>2. /\ head \in Seq(Ids) /\ Len(head) = 1 /\ head[1] = "plan"
        /\ last \in Seq(Ids) /\ Len(last) = 1 /\ last[1] = "integrate"
        /\ end \in Seq(Ids) /\ Len(end) = 2 /\ end[1] = "integrate" /\ end[2] = "plan"
    <3>1. \A x, y \in Ids : /\ <<x>> \in Seq(Ids) /\ Len(<<x>>) = 1 /\ <<x>>[1] = x
                          /\ <<x, y>> \in Seq(Ids) /\ Len(<<x, y>>) = 2
                          /\ <<x, y>>[1] = x /\ <<x, y>>[2] = y
      BY Short
    <3>2. head \in Seq(Ids) /\ Len(head) = 1 /\ head[1] = "plan"
      BY <3>1, <2>1
    <3>3. last \in Seq(Ids) /\ Len(last) = 1 /\ last[1] = "integrate"
      BY <3>1, <2>1
    <3>4. end \in Seq(Ids) /\ Len(end) = 2 /\ end[1] = "integrate" /\ end[2] = "plan"
      BY <3>1, <2>1
    <3> QED BY <3>2, <3>3, <3>4
  <2>3. IdOrder = Areas \o end /\ PlanOrder = first \o last
    BY <1>2 DEF IdOrder, PlanOrder
  <2> HIDE DEF head, last, end
  <2>4. /\ first \in Seq(Ids) /\ Len(first) = 1 + l
        /\ \A i \in 1 .. 1 : first[i] = head[i]
        /\ \A i \in 1 .. l : first[1 + i] = Areas[i]
    <3>1. head \in Seq(Ids) /\ Areas \in Seq(Ids)
      BY <2>1, <2>2
    <3>2. /\ head \o Areas \in Seq(Ids) /\ Len(head \o Areas) = Len(head) + Len(Areas)
          /\ \A i \in 1 .. Len(head) : (head \o Areas)[i] = head[i]
          /\ \A i \in 1 .. Len(Areas) : (head \o Areas)[Len(head) + i] = Areas[i]
      BY <3>1, Joined
    <3> QED BY <3>2, <2>2
  <2> HIDE DEF first
  <2>5. /\ PlanOrder \in Seq(Ids) /\ Len(PlanOrder) = (1 + l) + 1
        /\ \A i \in 1 .. 1 + l : PlanOrder[i] = first[i]
        /\ \A i \in 1 .. 1 : PlanOrder[(1 + l) + i] = last[i]
    <3>1. first \in Seq(Ids) /\ last \in Seq(Ids)
      BY <2>2, <2>4
    <3>2. /\ first \o last \in Seq(Ids) /\ Len(first \o last) = Len(first) + Len(last)
          /\ \A i \in 1 .. Len(first) : (first \o last)[i] = first[i]
          /\ \A i \in 1 .. Len(last) : (first \o last)[Len(first) + i] = last[i]
      BY <3>1, Joined
    <3> QED BY <3>2, <2>2, <2>3, <2>4
  <2>6. /\ IdOrder \in Seq(Ids) /\ Len(IdOrder) = l + 2
        /\ \A i \in 1 .. l : IdOrder[i] = Areas[i]
        /\ \A i \in 1 .. 2 : IdOrder[l + i] = end[i]
    <3>1. Areas \in Seq(Ids) /\ end \in Seq(Ids)
      BY <2>1, <2>2
    <3>2. /\ Areas \o end \in Seq(Ids) /\ Len(Areas \o end) = Len(Areas) + Len(end)
          /\ \A i \in 1 .. Len(Areas) : (Areas \o end)[i] = Areas[i]
          /\ \A i \in 1 .. Len(end) : (Areas \o end)[Len(Areas) + i] = end[i]
      BY <3>1, Joined
    <3> QED BY <3>2, <2>2, <2>3
  <2>7. /\ IdOrder[l + 1] = "integrate" /\ IdOrder[l + 2] = "plan"
        /\ \A i \in 1 .. l : IdOrder[i] = Areas[i]
    <3>1. 1 \in 1 .. 2 /\ 2 \in 1 .. 2
      OBVIOUS
    <3> QED BY <3>1, <2>6, <2>2
  <2>8. /\ PlanOrder[1] = "plan" /\ PlanOrder[l + 2] = "integrate"
        /\ \A i \in 1 .. l : PlanOrder[i + 1] = Areas[i]
    <3>1. /\ 1 \in 1 .. 1 + l /\ 1 \in 1 .. 1 /\ (1 + l) + 1 = l + 2
          /\ \A i \in 1 .. l : 1 + i \in 1 .. 1 + l /\ 1 + i = i + 1
      BY <1>1
    <3>2. PlanOrder[1] = "plan" /\ PlanOrder[l + 2] = "integrate"
      BY <3>1, <2>4, <2>5, <2>2
    <3>3. \A i \in 1 .. l : PlanOrder[1 + i] = Areas[i]
      BY <3>1, <2>4, <2>5
    <3> QED BY <3>1, <3>2, <3>3
  <2>9. DOMAIN PlanOrder = 1 .. l + 2
    BY <2>5
  <2>10. \A i \in 1 .. l + 2 : IdOrder[i] \in Nodes
    <3>1. \A i \in 1 .. l : i + 1 \in DOMAIN PlanOrder
      BY <1>1, <2>9
    <3>2. 1 \in DOMAIN PlanOrder /\ l + 2 \in DOMAIN PlanOrder
      BY <1>1, <2>9
    <3>3. \A i \in 1 .. l : Areas[i] \in Nodes
      BY <2>8, <3>1 DEF Nodes, Range
    <3>4. "plan" \in Nodes /\ "integrate" \in Nodes
      BY <2>8, <3>2 DEF Nodes, Range
    <3>5. \A i \in 1 .. l + 2 : i \in 1 .. l \/ i = l + 1 \/ i = l + 2
      BY <1>1
    <3> QED BY <2>7, <3>3, <3>4, <3>5
  <2>11. \A i, j \in 1 .. l + 2 : IdOrder[i] = IdOrder[j] => i = j
    BY <1>1, <2>7
  <2>12. \A n \in Nodes : \E i \in 1 .. l + 2 : IdOrder[i] = n
    <3> SUFFICES ASSUME NEW k \in 1 .. l + 2
                 PROVE  \E i \in 1 .. l + 2 : IdOrder[i] = PlanOrder[k]
      BY <2>9 DEF Nodes, Range
    <3>1. CASE k = 1 BY <3>1, <1>1, <2>7, <2>8
    <3>2. CASE k = l + 2 BY <3>2, <1>1, <2>7, <2>8
    <3>3. CASE k # 1 /\ k # l + 2
      <4>1. k - 1 \in 1 .. l /\ k = (k - 1) + 1
        BY <3>3, <1>1
      <4>2. PlanOrder[k] = Areas[k - 1]
        BY <4>1, <2>8
      <4> QED BY <4>1, <4>2, <2>7, <1>1
    <3> QED BY <3>1, <3>2, <3>3
  <2>13. IdOrder \in Seq(Nodes)
    BY <2>6, <2>10
  <2> QED BY <2>6, <2>11, <2>12, <2>13
<1>3. CASE ~Fans
  <2>1. IdOrder = <<"implement", "plan", "verify">> /\ Nodes = {"plan", "implement", "verify"}
    <3>1. PlanOrder = <<"plan", "implement", "verify">> /\ DOMAIN PlanOrder = 1 .. 3
      BY <1>3 DEF PlanOrder
    <3>2. PlanOrder[1] = "plan" /\ PlanOrder[2] = "implement" /\ PlanOrder[3] = "verify"
      BY <3>1
    <3>3. Nodes = {"plan", "implement", "verify"}
      BY <3>1, <3>2 DEF Nodes, Range
    <3> QED BY <1>3, <3>3 DEF IdOrder
  <2>2. /\ Len(IdOrder) = 3
        /\ IdOrder[1] = "implement" /\ IdOrder[2] = "plan" /\ IdOrder[3] = "verify"
        /\ IdOrder \in Seq(Nodes)
    BY <2>1
  <2> QED BY <2>1, <2>2
<1> QED BY <1>2, <1>3

LEMMA PlanOrderIs == PlanOrder \in Seq(Nodes)
<1>1. SUFFICES \E S : PlanOrder \in Seq(S)
  <2> SUFFICES ASSUME NEW S, PlanOrder \in Seq(S) PROVE PlanOrder \in Seq(Range(PlanOrder))
    BY DEF Nodes
  <2> HIDE DEF PlanOrder
  <2>1. Len(PlanOrder) \in Nat /\ DOMAIN PlanOrder = 1 .. Len(PlanOrder)
    OBVIOUS
  <2>2. \A i \in 1 .. Len(PlanOrder) : PlanOrder[i] \in Range(PlanOrder)
    BY <2>1 DEF Range
  <2> QED BY <2>1, <2>2
<1>2. CASE Fans
  <2> DEFINE Ids == Range(Areas) \cup {"plan", "integrate"}
             head == <<"plan">>
             last == <<"integrate">>
  <2>1. "plan" \in Ids /\ "integrate" \in Ids /\ Areas \in Seq(Ids)
    <3>1. Areas \in Seq(STRING)
      BY MeshDriverAssumption
    <3>2. \A i \in 1 .. Len(Areas) : Areas[i] \in Ids
      BY <3>1 DEF Range
    <3> QED BY <3>1, <3>2
  <2> HIDE DEF Ids
  <2>2. head \in Seq(Ids) /\ last \in Seq(Ids)
    BY <2>1, Short
  <2>3. PlanOrder = (head \o Areas) \o last
    BY <1>2 DEF PlanOrder
  <2> HIDE DEF head, last
  <2>4. head \o Areas \in Seq(Ids)
    BY <2>1, <2>2, Joined
  <2>5. (head \o Areas) \o last \in Seq(Ids)
    BY <2>2, <2>4, Joined
  <2> QED BY <2>3, <2>5
<1>3. CASE ~Fans
  <2>1. <<"plan", "implement", "verify">> \in Seq({"plan", "implement", "verify"})
    OBVIOUS
  <2> QED BY <1>3, <2>1 DEF PlanOrder
<1> QED BY <1>1, <1>2, <1>3

LEMMA NodesFinite == IsFiniteSet(Nodes)
<1>1. /\ Len(IdOrder) \in Nat
      /\ IdOrder \in Surjection(1 .. Len(IdOrder), Nodes)
  BY IdOrderIs DEF Surjection
<1>2. IsFiniteSet(1 .. Len(IdOrder))
  BY <1>1, FS_Interval
<1> QED BY <1>1, <1>2, FS_Surjection

-----------------------------------------------------------------------------
(* The assignment of ready nodes to blades. *)

Loads == [Range(Binaries) -> Nat]
Batches == Seq(Nodes \X Range(Binaries))

(* A blade is picked for its room, and no blade only if none has any.      *)
LEMMA PickBlade ==
    ASSUME NEW load \in Loads
    PROVE  \/ pick_blade(load) \in Range(Binaries) /\ load[pick_blade(load)] < Capacity
           \/ pick_blade(load) = NoBinary /\ \A b \in Range(Binaries) : Capacity <= load[b]
<1> DEFINE spare == {i \in DOMAIN Binaries : load[Binaries[i]] < Capacity}
           least == {i \in spare : \A j \in spare : load[Binaries[i]] <= load[Binaries[j]]}
           first == CHOOSE i \in least : \A j \in least : i <= j
<1>1. pick_blade(load) = CASE \E i \in spare : Binaries[i] = Preferred -> Preferred
                           [] spare = {}                               -> NoBinary
                           [] OTHER -> Binaries[first]
  BY DEF pick_blade
<1>2. /\ \A i \in DOMAIN Binaries : Binaries[i] \in Range(Binaries) /\ load[Binaries[i]] \in Nat
      /\ DOMAIN Binaries \subseteq Nat /\ Capacity \in Nat
      /\ \A b \in Range(Binaries) : load[b] \in Nat /\ \E i \in DOMAIN Binaries : Binaries[i] = b
  <2>1. Binaries \in Seq(STRING) /\ Capacity \in Nat
    BY MeshDriverAssumption
  <2> QED BY <2>1 DEF Range, Loads
<1>3. CASE \E i \in spare : Binaries[i] = Preferred
  <2>1. pick_blade(load) = Preferred
    BY <1>1, <1>3
  <2> QED BY <1>2, <1>3, <2>1
<1>4. CASE spare = {}
  <2>1. pick_blade(load) = NoBinary
    BY <1>1, <1>4
  <2> QED BY <1>2, <1>4, <2>1
<1>5. CASE spare # {} /\ ~\E i \in spare : Binaries[i] = Preferred
  <2>1. pick_blade(load) = Binaries[first]
    BY <1>1, <1>5
  <2>2. least # {}
    <3> DEFINE L == {load[Binaries[i]] : i \in spare}
    <3>1. L \in SUBSET Nat /\ L # {}
      BY <1>2, <1>5
    <3>2. PICK x \in L : \A y \in L : x <= y
      <4> HIDE DEF L
      <4> QED BY <3>1, Least
    <3> QED BY <3>2
  <2>3. least \in SUBSET Nat
    BY <1>2
  <2>4. first \in least
    <3> HIDE DEF least
    <3> QED BY <2>2, <2>3, Least
  <2> HIDE DEF first
  <2> QED BY <1>2, <2>1, <2>4
<1> QED BY <1>3, <1>4, <1>5

(* How many nodes of a batch go to a binary. *)
Sent(batch, b) == Cardinality({k \in DOMAIN batch : batch[k][2] = b})

LEMMA SentMore ==
    ASSUME NEW batch \in Batches, NEW n \in Nodes, NEW c \in Range(Binaries), NEW b
    PROVE  /\ Sent(batch, b) \in Nat
           /\ Sent(Append(batch, <<n, c>>), b) =
                IF b = c THEN Sent(batch, b) + 1 ELSE Sent(batch, b)
<1> DEFINE l == Len(batch)
           more == Append(batch, <<n, c>>)
           S == {k \in DOMAIN batch : batch[k][2] = b}
           T == {k \in DOMAIN more : more[k][2] = b}
<1>1. /\ l \in Nat /\ DOMAIN batch = 1 .. l /\ DOMAIN more = 1 .. l + 1
      /\ more[l + 1] = <<n, c>> /\ \A k \in 1 .. l : more[k] = batch[k]
  BY AppendProperties DEF Batches
<1>2. IsFiniteSet(S) /\ Cardinality(S) \in Nat /\ l + 1 \notin S
  <2>1. IsFiniteSet(1 .. l) /\ S \subseteq 1 .. l
    BY <1>1, FS_Interval
  <2>2. l + 1 \notin 1 .. l
    BY <1>1
  <2> QED BY <2>1, <2>2, FS_Subset, FS_CardinalityType
<1>3. T = IF b = c THEN S \cup {l + 1} ELSE S
  <2> HIDE DEF l, more
  <2> QED BY <1>1
<1>4. Cardinality(T) = IF b = c THEN Cardinality(S) + 1 ELSE Cardinality(S)
  <2> HIDE DEF S, T
  <2> QED BY <1>2, <1>3, FS_AddElement
<1> QED BY <1>2, <1>4 DEF Sent

(* The nodes of a batch. *)
Assigned(batch) == {batch[k][1] : k \in DOMAIN batch}

(* What the first i ids of the plan have become: each ready one assigned   *)
(* once, to a binary with room for it, or left because all were full.      *)
Placement(i, s, ready, in_flight) ==
    /\ s.load \in Loads /\ s.batch \in Batches
    /\ Assigned(s.batch) \subseteq ready \cap {IdOrder[j] : j \in 1 .. i}
    /\ \A k, l \in DOMAIN s.batch : s.batch[k][1] = s.batch[l][1] => k = l
    /\ \A b \in Range(Binaries) :
        /\ s.load[b] = in_flight[b] + Sent(s.batch, b)
        /\ Sent(s.batch, b) > 0 => s.load[b] <= Capacity
    /\ (\E j \in 1 .. i : IdOrder[j] \in ready \ Assigned(s.batch)) =>
           \A b \in Range(Binaries) : Capacity <= s.load[b]

LEMMA PlacementStarts ==
    ASSUME NEW ready, NEW in_flight \in Loads
    PROVE  Placement(0, [load |-> in_flight, batch |-> <<>>], ready, in_flight)
<1> DEFINE s == [load |-> in_flight, batch |-> <<>>]
<1>1. s.load = in_flight /\ s.batch = <<>> /\ <<>> \in Batches /\ DOMAIN <<>> = {} /\ 1 .. 0 = {}
  BY DEF Batches
<1>2. \A b \in Range(Binaries) : Sent(<<>>, b) = 0 /\ in_flight[b] \in Nat
  BY <1>1, FS_EmptySet DEF Sent, Loads
<1> HIDE DEF s
<1>3. Placement(0, s, ready, in_flight)
  BY <1>1, <1>2 DEF Placement, Assigned
<1> QED BY <1>3 DEF s

LEMMA PlacementGrows ==
    ASSUME NEW ready, NEW in_flight \in Loads, NEW i \in 1 .. Len(IdOrder), NEW s,
           Placement(i - 1, s, ready, in_flight)
    PROVE  Placement(i, place(s, IdOrder[i], ready), ready, in_flight)
<1> DEFINE n == IdOrder[i]
           b == pick_blade(s.load)
<1>1. /\ n \in Nodes /\ i \in Nat /\ i > 0
      /\ n \notin {IdOrder[j] : j \in 1 .. i - 1}
      /\ {IdOrder[j] : j \in 1 .. i} = {IdOrder[j] : j \in 1 .. i - 1} \cup {n}
      /\ \A j \in 1 .. i : j = i \/ j \in 1 .. i - 1
  <2>1. i \in Nat /\ Len(IdOrder) \in Nat /\ i > 0 /\ \A j \in 1 .. i : j = i \/ j \in 1 .. i - 1
    BY IdOrderIs
  <2>2. i \in 1 .. i /\ \A j \in 1 .. i - 1 : j \in 1 .. i /\ j # i /\ j \in 1 .. Len(IdOrder)
    BY <2>1
  <2>3. n \in Nodes /\ \A j \in 1 .. i - 1 : IdOrder[j] # n
    BY <2>1, <2>2, IdOrderIs
  <2> QED BY <2>1, <2>2, <2>3
<1>2. /\ s.load \in Loads /\ s.batch \in Batches
      /\ Assigned(s.batch) \subseteq ready \cap {IdOrder[j] : j \in 1 .. i - 1}
      /\ \A k, l \in DOMAIN s.batch : s.batch[k][1] = s.batch[l][1] => k = l
      /\ \A c \in Range(Binaries) :
           /\ s.load[c] = in_flight[c] + Sent(s.batch, c)
           /\ Sent(s.batch, c) > 0 => s.load[c] <= Capacity
      /\ (\E j \in 1 .. i - 1 : IdOrder[j] \in ready \ Assigned(s.batch)) =>
            \A c \in Range(Binaries) : Capacity <= s.load[c]
  BY DEF Placement
<1>3. \/ b \in Range(Binaries) /\ s.load[b] < Capacity
      \/ b = NoBinary /\ \A c \in Range(Binaries) : Capacity <= s.load[c]
  BY <1>2, PickBlade
<1> HIDE DEF b
<1>4. CASE n \notin ready \/ b = NoBinary
  <2>1. place(s, n, ready) = s
    BY <1>4 DEF place, b
  <2>2. NoBinary \notin Range(Binaries)
    BY MeshDriverAssumption
  <2>3. n \in ready => \A c \in Range(Binaries) : Capacity <= s.load[c]
    BY <1>3, <1>4, <2>2
  <2>4. Assigned(s.batch) \subseteq ready \cap {IdOrder[j] : j \in 1 .. i}
    BY <1>1, <1>2
  <2>5. (\E j \in 1 .. i : IdOrder[j] \in ready \ Assigned(s.batch)) =>
            \A c \in Range(Binaries) : Capacity <= s.load[c]
    BY <1>1, <1>2, <2>3
  <2>6. Placement(i, s, ready, in_flight)
    BY <1>2, <2>4, <2>5 DEF Placement
  <2> QED BY <2>1, <2>6
<1>5. CASE n \in ready /\ b # NoBinary
  <2> DEFINE load == [s.load EXCEPT ![b] = @ + 1]
             batch == Append(s.batch, <<n, b>>)
             t == [load |-> load, batch |-> batch]
             l == Len(s.batch)
  <2>1. place(s, n, ready) = t
    BY <1>5 DEF place, b
  <2>2. b \in Range(Binaries) /\ s.load[b] < Capacity
    BY <1>3, <1>5
  <2>3. /\ load \in Loads /\ load[b] = s.load[b] + 1 /\ s.load[b] \in Nat
        /\ \A c \in Range(Binaries) \ {b} : load[c] = s.load[c]
    BY <1>2, <2>2 DEF Loads
  <2>4. /\ batch \in Batches /\ DOMAIN batch = 1 .. l + 1 /\ DOMAIN s.batch = 1 .. l /\ l \in Nat
        /\ batch[l + 1] = <<n, b>> /\ \A k \in 1 .. l : batch[k] = s.batch[k]
    <3>1. <<n, b>> \in Nodes \X Range(Binaries)
      BY <1>1, <2>2
    <3> QED BY <3>1, <1>2, AppendProperties DEF Batches
  <2>5. \A c \in Range(Binaries) :
          /\ Sent(s.batch, c) \in Nat
          /\ Sent(batch, c) = IF c = b THEN Sent(s.batch, c) + 1 ELSE Sent(s.batch, c)
    BY <1>1, <1>2, <2>2, SentMore
  <2>6. t.load = load /\ t.batch = batch
    OBVIOUS
  <2> HIDE DEF load, batch, t, l
  <2>7. Assigned(batch) = Assigned(s.batch) \cup {n}
    <3>1. /\ \A k \in 1 .. l + 1 : k \in 1 .. l \/ k = l + 1
          /\ l + 1 \in 1 .. l + 1 /\ \A k \in 1 .. l : k \in 1 .. l + 1
      BY <2>4
    <3>2. batch[l + 1][1] = n
      BY <2>4
    <3> QED BY <3>1, <3>2, <2>4 DEF Assigned
  <2>8. n \notin Assigned(s.batch)
    BY <1>1, <1>2
  <2>9. \A k, m \in DOMAIN batch : batch[k][1] = batch[m][1] => k = m
    <3>1. \A k \in 1 .. l : batch[k][1] # n
      BY <2>4, <2>8 DEF Assigned
    <3>2. batch[l + 1][1] = n /\ \A k \in 1 .. l + 1 : k \in 1 .. l \/ k = l + 1
      BY <2>4
    <3> QED BY <3>1, <3>2, <2>4, <1>2
  <2>10. \A c \in Range(Binaries) :
          /\ load[c] = in_flight[c] + Sent(batch, c)
          /\ Sent(batch, c) > 0 => load[c] <= Capacity
    <3> SUFFICES ASSUME NEW c \in Range(Binaries)
                 PROVE  /\ load[c] = in_flight[c] + Sent(batch, c)
                        /\ Sent(batch, c) > 0 => load[c] <= Capacity
      OBVIOUS
    <3>1. in_flight[c] \in Nat /\ Capacity \in Nat
      BY MeshDriverAssumption DEF Loads
    <3>2. s.load[c] \in Nat /\ s.load[c] = in_flight[c] + Sent(s.batch, c)
          /\ Sent(s.batch, c) \in Nat /\ (Sent(s.batch, c) > 0 => s.load[c] <= Capacity)
      BY <1>2, <2>5 DEF Loads
    <3>3. CASE c = b
      <4>1. load[c] = s.load[c] + 1 /\ Sent(batch, c) = Sent(s.batch, c) + 1 /\ s.load[c] < Capacity
        BY <3>3, <2>2, <2>3, <2>5
      <4> QED BY <3>1, <3>2, <4>1
    <3>4. CASE c # b
      <4>1. load[c] = s.load[c] /\ Sent(batch, c) = Sent(s.batch, c)
        BY <3>4, <2>3, <2>5
      <4> QED BY <3>2, <4>1
    <3> QED BY <3>3, <3>4
  <2>11. ~\E j \in 1 .. i : IdOrder[j] \in ready \ Assigned(batch)
    <3>1. ~\E j \in 1 .. i - 1 : IdOrder[j] \in ready \ Assigned(s.batch)
      <4>1. Capacity \in Nat
        BY MeshDriverAssumption
      <4> QED BY <4>1, <1>2, <2>2, <2>3
    <3> QED BY <3>1, <1>1, <2>7
  <2>12. Assigned(batch) \subseteq ready \cap {IdOrder[j] : j \in 1 .. i}
    BY <1>1, <1>2, <1>5, <2>7
  <2>13. Placement(i, t, ready, in_flight)
    BY <2>3, <2>4, <2>6, <2>9, <2>10, <2>11, <2>12 DEF Placement
  <2> QED BY <2>1, <2>13
<1> QED BY <1>4, <1>5

(* What assign builds, up to the n-th id: assign defines it by recursion on*)
(* a set of its own for each plan.                                         *)
Placed(f, ready, in_flight, n) ==
    f = [i \in 0 .. n |->
            IF i = 0 THEN [load |-> in_flight, batch |-> <<>>]
            ELSE place(f[i - 1], IdOrder[i], ready)]

LEMMA PlacedExists ==
    ASSUME NEW ready, NEW in_flight, NEW n \in Nat
    PROVE  \E f : Placed(f, ready, in_flight, n)
<1> DEFINE S == {k \in Nat : \E f : Placed(f, ready, in_flight, k)}
           start == [load |-> in_flight, batch |-> <<>>]
<1>1. 0 \in S
  <2> DEFINE f == [i \in 0 .. 0 |-> start]
  <2>1. Placed(f, ready, in_flight, 0)
    BY DEF Placed
  <2> QED BY <2>1
<1>2. ASSUME NEW k \in 0 .. n, k > 0, k - 1 \in S PROVE k \in S
  <2>1. PICK f : Placed(f, ready, in_flight, k - 1)
    BY <1>2
  <2> DEFINE g == [i \in 0 .. k |-> IF i < k THEN f[i] ELSE place(f[k - 1], IdOrder[k], ready)]
             h == [i \in 0 .. k |->
                      IF i = 0 THEN start ELSE place(g[i - 1], IdOrder[i], ready)]
  <2> HIDE DEF start
  <2>2. \A i \in 0 .. k - 1 : f[i] = IF i = 0 THEN start ELSE place(f[i - 1], IdOrder[i], ready)
    BY <2>1 DEF Placed, start
  <2>3. \A i \in 0 .. k - 1 : g[i] = f[i]
    BY <1>2
  <2>4. ASSUME NEW i \in 0 .. k PROVE g[i] = h[i]
    <3>1. CASE i < k
      <4>1. g[i] = f[i] /\ (i > 0 => g[i - 1] = f[i - 1])
        BY <3>1, <2>3
      <4> QED BY <4>1, <3>1, <2>2
    <3>2. CASE i = k
      <4>1. g[k - 1] = f[k - 1]
        BY <1>2, <2>3
      <4> QED BY <3>2, <4>1, <1>2
    <3> QED BY <3>1, <3>2
  <2>5. g = h
    BY <2>4
  <2>6. Placed(g, ready, in_flight, k)
    BY <2>5 DEF Placed, start
  <2> QED BY <2>6
<1>3. 0 .. n \subseteq S
  <2> HIDE DEF S
  <2> QED BY <1>1, <1>2, UpTo
<1> QED BY <1>3

(* A batch is what a pass over the ids of the plan leaves.                 *)
LEMMA AssignIs ==
    ASSUME NEW ready, NEW in_flight \in Loads
    PROVE  \E s : assign(ready, in_flight) = s.batch /\ Placement(Len(IdOrder), s, ready, in_flight)
<1> DEFINE n == Len(IdOrder)
           f == CHOOSE f : Placed(f, ready, in_flight, n)
<1>1. n \in Nat
  BY IdOrderIs
<1>2. Placed(f, ready, in_flight, n)
  BY <1>1, PlacedExists
<1>3. assign(ready, in_flight) = f[n].batch
  BY DEF assign, Placed
<1> HIDE DEF f
<1>4. \A i \in 0 .. n : f[i] = IF i = 0 THEN [load |-> in_flight, batch |-> <<>>]
                                ELSE place(f[i - 1], IdOrder[i], ready)
  BY <1>2 DEF Placed
<1> DEFINE P == {i \in 0 .. n : Placement(i, f[i], ready, in_flight)}
<1>5. 0 \in P
  <2>1. 0 \in 0 .. n
    BY <1>1
  <2> QED BY <2>1, <1>4, PlacementStarts
<1>6. ASSUME NEW i \in 0 .. n, i > 0, i - 1 \in P PROVE i \in P
  <2>1. i \in 1 .. n /\ Placement(i - 1, f[i - 1], ready, in_flight)
    BY <1>1, <1>6
  <2>2. f[i] = place(f[i - 1], IdOrder[i], ready)
    BY <1>4, <2>1
  <2>3. Placement(i, f[i], ready, in_flight)
    BY <2>1, <2>2, PlacementGrows
  <2> QED BY <2>3
<1>7. 0 .. n \subseteq P
  <2> HIDE DEF P
  <2> QED BY <1>1, <1>5, <1>6, UpTo
<1>8. n \in P
  BY <1>1, <1>7
<1> QED BY <1>3, <1>8

(* What the drivers rely on: distinct ready nodes on known binaries.       *)
LEMMA AssignReady ==
    ASSUME NEW ready, NEW in_flight \in Loads
    PROVE  LET batch == assign(ready, in_flight) IN
           /\ batch \in Batches
           /\ \A k \in DOMAIN batch : batch[k][1] \in ready
           /\ \A k, l \in DOMAIN batch : batch[k][1] = batch[l][1] => k = l
<1>1. PICK s : assign(ready, in_flight) = s.batch /\ Placement(Len(IdOrder), s, ready, in_flight)
  BY AssignIs
<1> QED BY <1>1 DEF Placement, Assigned

(* assign of distribution.rs: it assigns ready nodes only, each at most    *)
(* once; no binary is loaded beyond its capacity by what is assigned to it;*)
(* and a ready node is left out only when every binary is full (no idle    *)
(* blade while work waits).                                                *)
THEOREM AssignWithinCapacity ==
    ASSUME NEW ready, NEW in_flight \in [Range(Binaries) -> Nat], NEW b \in Range(Binaries)
    PROVE  LET batch == assign(ready, in_flight)
               sent  == Cardinality({k \in DOMAIN batch : batch[k][2] = b})
           IN  /\ \A k \in DOMAIN batch : batch[k][1] \in ready
               /\ \A k, l \in DOMAIN batch : batch[k][1] = batch[l][1] => k = l
               /\ sent > 0 => in_flight[b] + sent <= Capacity
               /\ \A n \in ready \cap Nodes :
                    (\A k \in DOMAIN batch : batch[k][1] # n) => in_flight[b] + sent >= Capacity
<1> DEFINE batch == assign(ready, in_flight)
           sent  == Cardinality({k \in DOMAIN batch : batch[k][2] = b})
<1>1. in_flight \in Loads
  BY DEF Loads
<1>2. PICK s : batch = s.batch /\ Placement(Len(IdOrder), s, ready, in_flight)
  BY <1>1, AssignIs
<1>3. sent = Sent(s.batch, b)
  BY <1>2 DEF Sent
<1>4. sent > 0 => in_flight[b] + sent <= Capacity
  BY <1>2, <1>3 DEF Placement
<1>5. ASSUME NEW n \in ready \cap Nodes, \A k \in DOMAIN batch : batch[k][1] # n
      PROVE  in_flight[b] + sent >= Capacity
  <2>1. PICK j \in 1 .. Len(IdOrder) : IdOrder[j] = n
    BY <1>5, IdOrderIs
  <2>2. n \notin Assigned(s.batch)
    BY <1>2, <1>5 DEF Assigned
  <2>3. Capacity <= s.load[b] /\ s.load[b] = in_flight[b] + Sent(s.batch, b)
    BY <1>2, <2>1, <2>2, <1>5 DEF Placement
  <2>4. s.load[b] \in Nat /\ Capacity \in Nat
    BY <1>2, MeshDriverAssumption DEF Placement, Loads
  <2> QED BY <1>3, <2>3, <2>4
<1>6. /\ \A k \in DOMAIN batch : batch[k][1] \in ready
      /\ \A k, l \in DOMAIN batch : batch[k][1] = batch[l][1] => k = l
  BY <1>1, AssignReady
<1> QED BY <1>4, <1>5, <1>6

(* The two loads a driver assigns with. *)
LEMMA LoadsAre ==
    count_in_flight \in Loads /\ none_in_flight \in Loads
<1>1. \A b : Cardinality({n \in Nodes : owner[n] # 0 /\ node_binary[n] = b}) \in Nat
  <2> SUFFICES ASSUME NEW b
               PROVE  Cardinality({n \in Nodes : owner[n] # 0 /\ node_binary[n] = b}) \in Nat
    OBVIOUS
  <2> DEFINE S == {n \in Nodes : owner[n] # 0 /\ node_binary[n] = b}
  <2>1. S \in SUBSET Nodes
    OBVIOUS
  <2> HIDE DEF S
  <2> QED BY <2>1, NodesFinite, FS_Subset, FS_CardinalityType DEF S
<1> QED BY <1>1 DEF count_in_flight, none_in_flight, Loads

(* The next token is one that was never granted. *)
LEMMA FreshToken ==
    ASSUME CanMint
    PROVE  fresh_claim_token \in Tokens /\ fate[fresh_claim_token] = "unminted"
<1> DEFINE S == {k \in Tokens : fate[k] = "unminted"}
<1>1. S \in SUBSET Nat /\ S # {}
  BY MeshDriverAssumption DEF CanMint, Tokens
<1>2. PICK k \in S : \A j \in S : k <= j
  <2> HIDE DEF S
  <2> QED BY <1>1, Least
<1> QED BY <1>2 DEF fresh_claim_token

-----------------------------------------------------------------------------
(* The inductive invariant: the lock, the types, the plan and the leases.  *)

DriverRecords ==
    [at : {"idle", "start", "want", "tick"} \cup Spawning,
     batch : Batches, token : 0 .. MaxTokens, ok : BOOLEAN]

(* TypeOK, part by part; a driver has a batch while it spawns.             *)
GraphTyped == nodes \subseteq Nodes /\ done \subseteq Nodes /\ visited \subseteq Nodes

StoreTyped ==
    /\ owner \in [Nodes -> 0 .. MaxTokens]
    /\ fate \in [Tokens -> Leases!Fates]
    /\ aged \subseteq {k \in Tokens : fate[k] = "live"}
    /\ foreign \subseteq Tokens

RunTyped ==
    /\ drive \in Drivers \cup {"free"}
    /\ ticks \in 0 .. MaxTicks
    /\ node_binary \in [Nodes -> Range(Binaries) \cup {NoBinary}]
    /\ overruled \subseteq Tokens
    /\ faults \in 0 .. MaxFaults

DriversTyped ==
    /\ driver \in [Drivers -> DriverRecords]
    /\ \A d \in Drivers : driver[d].at \in Spawning <=> driver[d].batch # <<>>

TypeInv == GraphTyped /\ StoreTyped /\ RunTyped /\ DriversTyped

(* What a driver has before it: distinct nodes that are not done and whose *)
(* dependencies a driver went through.                                     *)
PlanInv ==
    /\ done \subseteq visited
    /\ \A d \in Drivers :
        /\ \A k, l \in DOMAIN driver[d].batch :
             driver[d].batch[k][1] = driver[d].batch[l][1] => k = l
        /\ \A k \in DOMAIN driver[d].batch :
             driver[d].batch[k][1] \notin done /\ Deps(driver[d].batch[k][1]) \subseteq visited

(* The lease a blade works under was granted and, while it lives, is on the*)
(* node the blade works on.                                                *)
LeaseInv ==
    /\ \A d \in Drivers : At(d, {"work"}) /\ driver[d].token # 0 =>
        /\ fate[driver[d].token] # "unminted"
        /\ fate[driver[d].token] = "live" => owner[node(d)] = driver[d].token
    /\ NoLeakedClaim

MeshInv == LockInv /\ TypeInv /\ PlanInv /\ LeaseInv

LEMMA Bounds ==
    /\ MaxTokens \in Nat /\ MaxTicks \in Nat /\ MaxFaults \in Nat
    /\ 0 \notin Tokens /\ Tokens \subseteq 0 .. MaxTokens
    /\ \A k \in 0 .. MaxTokens : k # 0 => k \in Tokens
BY MeshDriverAssumption DEF Tokens

LEMMA IdleIs ==
    /\ Idle \in DriverRecords
    /\ Idle.at = "idle" /\ Idle.batch = <<>> /\ Idle.token = 0
    /\ \A batch \in Batches : [Idle EXCEPT !.at = "claim", !.batch = batch] \in DriverRecords
    /\ [Idle EXCEPT !.at = "tick"] \in DriverRecords
    /\ [Idle EXCEPT !.at = "tick"].at = "tick"
    /\ [Idle EXCEPT !.at = "tick"].batch = <<>>
<1>1. <<>> \in Batches /\ 0 \in 0 .. MaxTokens
  BY Bounds DEF Batches
<1> QED BY <1>1 DEF Idle, DriverRecords, Spawning

LEMMA Gone ==
    ASSUME DriversTyped, NEW d \in Drivers, NEW r \in DriverRecords, Goes(d, r)
    PROVE  /\ driver' \in [Drivers -> DriverRecords] /\ driver'[d] = r
           /\ \A e \in Drivers \ {d} : driver'[e] = driver[e]
BY DEF Goes, DriversTyped

(* The assignment at the head of the batch, and what is left after it.     *)
LEMMA Heading ==
    ASSUME DriversTyped, NEW d \in Drivers, At(d, Spawning)
    PROVE  LET batch == driver[d].batch IN
           /\ batch \in Batches /\ 1 \in DOMAIN batch
           /\ node(d) = batch[1][1] /\ node(d) \in Nodes
           /\ binary(d) = batch[1][2] /\ binary(d) \in Range(Binaries)
           /\ Tail(batch) \in Batches
           /\ Len(batch) > 1 => Tail(batch) # <<>>
           /\ \A k \in DOMAIN Tail(batch) : k + 1 \in DOMAIN batch /\ k + 1 # 1
                                           /\ Tail(batch)[k] = batch[k + 1]
           /\ \A k, l \in DOMAIN Tail(batch) : k + 1 = l + 1 => k = l
<1> DEFINE batch == driver[d].batch
<1>1. batch \in Batches /\ batch # <<>>
  BY DEF DriversTyped, DriverRecords, At
<1>2. node(d) = Head(batch)[1] /\ binary(d) = Head(batch)[2]
  BY DEF node, binary
<1> HIDE DEF batch
<1>3. /\ Len(batch) \in Nat /\ Len(batch) > 0 /\ DOMAIN batch = 1 .. Len(batch)
      /\ Head(batch) = batch[1]
  BY <1>1 DEF Batches
<1>4. /\ Tail(batch) \in Batches /\ Len(Tail(batch)) = Len(batch) - 1
      /\ \A k \in 1 .. Len(Tail(batch)) : Tail(batch)[k] = batch[k + 1]
  BY <1>1, HeadTailProperties DEF Batches
<1>5. DOMAIN Tail(batch) = 1 .. Len(batch) - 1
  BY <1>4 DEF Batches
<1>6. Len(batch) > 1 => Tail(batch) # <<>>
  <2>1. Len(<<>>) = 0
    OBVIOUS
  <2>2. Len(batch) > 1 => Len(Tail(batch)) # 0
    BY <1>3, <1>4
  <2> QED BY <2>1, <2>2
<1>7. batch[1] \in Nodes \X Range(Binaries)
  BY <1>1, <1>3 DEF Batches
<1>8. /\ node(d) = batch[1][1] /\ node(d) \in Nodes
      /\ binary(d) = batch[1][2] /\ binary(d) \in Range(Binaries)
  BY <1>2, <1>3, <1>7
<1>9. \A k \in DOMAIN Tail(batch) : k + 1 \in DOMAIN batch /\ k + 1 # 1
                                   /\ Tail(batch)[k] = batch[k + 1]
  BY <1>3, <1>4, <1>5
<1>10. \A k, l \in DOMAIN Tail(batch) : k + 1 = l + 1 => k = l
  BY <1>3, <1>5
<1>11. 1 \in DOMAIN batch
  BY <1>3
<1> QED BY <1>1, <1>4, <1>6, <1>8, <1>9, <1>10, <1>11 DEF batch

(* Where TurnsToNext takes a driver. *)
LEMMA Turning ==
    ASSUME DriversTyped, NEW d \in Drivers, At(d, Spawning), TurnsToNext(d)
    PROVE  /\ \E r \in DriverRecords :
                /\ Goes(d, r) /\ r.at \in {"claim", "tick", "idle"} /\ r.token = 0
                /\ r.at \in Spawning <=> r.batch # <<>>
                /\ r.batch \in {<<>>, Tail(driver[d].batch)}
           /\ drive' \in {drive, "free"}
<1>1. CASE Len(driver[d].batch) > 1
  <2> DEFINE r == [Idle EXCEPT !.at = "claim", !.batch = Tail(driver[d].batch)]
  <2>1. Goes(d, r) /\ drive' = drive
    BY <1>1 DEF TurnsToNext, Dispatches
  <2>2. /\ r \in DriverRecords /\ r.at = "claim" /\ r.token = 0
        /\ r.batch = Tail(driver[d].batch) /\ r.batch # <<>>
    <3>1. Tail(driver[d].batch) \in Batches /\ Tail(driver[d].batch) # <<>>
      BY <1>1, Heading
    <3>2. r.at = "claim" /\ r.token = 0 /\ r.batch = Tail(driver[d].batch)
      BY DEF Idle
    <3>3. r \in DriverRecords
      BY <3>1, IdleIs
    <3> QED BY <3>1, <3>2, <3>3
  <2> HIDE DEF r
  <2> QED BY <2>1, <2>2 DEF Spawning
<1>2. CASE ~(Len(driver[d].batch) > 1) /\ d = "fg"
  <2> DEFINE r == [Idle EXCEPT !.at = "tick"]
  <2>1. Goes(d, r) /\ drive' = drive
    BY <1>2 DEF TurnsToNext
  <2>2. r \in DriverRecords /\ r.at = "tick" /\ r.token = 0 /\ r.batch = <<>>
    BY IdleIs DEF Idle
  <2> HIDE DEF r
  <2> QED BY <2>1, <2>2 DEF Spawning
<1>3. CASE ~(Len(driver[d].batch) > 1) /\ d # "fg"
  <2>1. Goes(d, Idle) /\ drive' = "free"
    BY <1>3 DEF TurnsToNext, Ends
  <2> QED BY <2>1, IdleIs DEF Spawning
<1> QED BY <1>1, <1>2, <1>3

LEMMA Alone ==
    ASSUME LockInv, NEW d \in Drivers, NEW e \in Drivers, At(d, Spawning), At(e, Spawning)
    PROVE  d = e
BY DEF LockInv, SingleDriver, At

-----------------------------------------------------------------------------
(* Types. *)

LEMMA TypeMoves ==
    ASSUME TypeInv, NEW d \in Drivers, NEW r \in DriverRecords, Goes(d, r),
           r.at \in Spawning <=> r.batch # <<>>,
           GraphTyped', StoreTyped', RunTyped'
    PROVE  TypeInv'
<1>1. /\ driver' \in [Drivers -> DriverRecords] /\ driver'[d] = r
      /\ \A e \in Drivers \ {d} : driver'[e] = driver[e]
  BY Gone DEF TypeInv
<1>2. DriversTyped'
  BY <1>1 DEF TypeInv, DriversTyped
<1> QED BY <1>2 DEF TypeInv

LEMMA GrantTyped ==
    ASSUME TypeInv, CanMint, NEW n \in Nodes, Leases!Grant(n, fresh_claim_token),
           UNCHANGED aged, foreign' \subseteq Tokens
    PROVE  /\ StoreTyped'
           /\ owner[n] = 0 /\ owner'[n] = fresh_claim_token
           /\ \A m \in Nodes \ {n} : owner'[m] = owner[m]
           /\ fate'[fresh_claim_token] = "live"
           /\ \A k \in Tokens \ {fresh_claim_token} : fate'[k] = fate[k]
<1> DEFINE k == fresh_claim_token
<1>1. k \in Tokens /\ fate[k] = "unminted"
  BY FreshToken
<1> HIDE DEF k
<1>2. /\ owner[n] = 0 /\ owner' = [owner EXCEPT ![n] = k] /\ fate' = [fate EXCEPT ![k] = "live"]
  BY DEF Leases!Grant, k
<1>3. /\ owner' \in [Nodes -> 0 .. MaxTokens] /\ owner'[n] = k
      /\ \A m \in Nodes \ {n} : owner'[m] = owner[m]
  BY <1>1, <1>2, Bounds DEF TypeInv, StoreTyped
<1>4. /\ fate' \in [Tokens -> Leases!Fates] /\ fate'[k] = "live"
      /\ \A j \in Tokens \ {k} : fate'[j] = fate[j]
  BY <1>1, <1>2 DEF TypeInv, StoreTyped, Leases!Fates
<1>5. aged' \subseteq {j \in Tokens : fate'[j] = "live"}
  BY <1>4 DEF TypeInv, StoreTyped
<1>6. StoreTyped'
  BY <1>3, <1>4, <1>5 DEF StoreTyped
<1> QED BY <1>2, <1>3, <1>4, <1>6 DEF k

LEMMA EndTyped ==
    ASSUME TypeInv, NEW n \in Nodes, NEW how \in {"accepted", "released", "reaped"},
           EndLease(n, how)
    PROVE  /\ StoreTyped' /\ foreign' = foreign
           /\ owner[n] \in Tokens /\ owner'[n] = 0
           /\ \A m \in Nodes \ {n} : owner'[m] = owner[m]
           /\ fate'[owner[n]] = how
           /\ \A k \in Tokens \ {owner[n]} : fate'[k] = fate[k]
<1>1. /\ owner[n] # 0 /\ owner' = [owner EXCEPT ![n] = 0]
      /\ fate' = [fate EXCEPT ![owner[n]] = how]
      /\ aged' = aged \ {owner[n]} /\ foreign' = foreign
  BY DEF EndLease, Leases!End
<1>2. owner[n] \in Tokens
  BY <1>1, Bounds DEF TypeInv, StoreTyped
<1>3. /\ owner' \in [Nodes -> 0 .. MaxTokens] /\ owner'[n] = 0
      /\ \A m \in Nodes \ {n} : owner'[m] = owner[m]
  BY <1>1, Bounds DEF TypeInv, StoreTyped
<1>4. /\ fate' \in [Tokens -> Leases!Fates] /\ fate'[owner[n]] = how
      /\ \A j \in Tokens \ {owner[n]} : fate'[j] = fate[j]
  BY <1>1, <1>2 DEF TypeInv, StoreTyped, Leases!Fates, Leases!Endings
<1>5. aged' \subseteq {j \in Tokens : fate'[j] = "live"}
  BY <1>1, <1>4 DEF TypeInv, StoreTyped
<1>6. StoreTyped'
  BY <1>1, <1>3, <1>4, <1>5 DEF TypeInv, StoreTyped
<1> QED BY <1>1, <1>2, <1>3, <1>4, <1>6

LEMMA ReapTyped ==
    ASSUME TypeInv, StallDetected
    PROVE  /\ StoreTyped' /\ foreign' = foreign
           /\ \A n \in Nodes : owner'[n] = owner[n] \/ owner[n] \in aged
           /\ \A k \in Tokens : fate'[k] = IF k \in aged THEN "reaped" ELSE fate[k]
<1>1. /\ owner' = [n \in Nodes |-> IF n \in Stale THEN 0 ELSE owner[n]]
      /\ fate' = [k \in Tokens |-> IF k \in aged THEN "reaped" ELSE fate[k]]
      /\ aged' = {} /\ foreign' = foreign
  BY DEF StallDetected
<1>2. /\ owner' \in [Nodes -> 0 .. MaxTokens]
      /\ \A n \in Nodes : owner'[n] = owner[n] \/ owner[n] \in aged
  BY <1>1, Bounds DEF TypeInv, StoreTyped, Stale
<1>3. fate' \in [Tokens -> Leases!Fates]
  BY <1>1 DEF TypeInv, StoreTyped, Leases!Fates, Leases!Endings
<1> QED BY <1>1, <1>2, <1>3 DEF TypeInv, StoreTyped

LEMMA FaultTyped ==
    ASSUME TypeInv, Fault \/ NoFault
    PROVE  /\ faults' \in 0 .. MaxFaults /\ faults \in Nat /\ faults <= faults'
           /\ Fault => faults' > 0
BY Bounds DEF TypeInv, RunTyped, Fault, NoFault

(* The batch a driver begins with. *)
LEMMA Assigning ==
    ASSUME TypeInv, NEW d \in Drivers, NEW load \in Loads,
           Dispatches(d, assign(claimable, load)), assign(claimable, load) # <<>>
    PROVE  \E r \in DriverRecords :
             /\ Goes(d, r) /\ r.at = "claim" /\ r.token = 0
             /\ r.batch = assign(claimable, load) /\ r.batch # <<>>
<1> DEFINE batch == assign(claimable, load)
           r == [Idle EXCEPT !.at = "claim", !.batch = batch]
<1>1. batch \in Batches
  BY AssignReady
<1>2. Goes(d, r)
  BY DEF Dispatches
<1> HIDE DEF batch
<1>3. r \in DriverRecords /\ r.at = "claim" /\ r.token = 0 /\ r.batch = batch
  <2>1. r \in DriverRecords
    BY <1>1, IdleIs
  <2> QED BY <2>1 DEF Idle
<1> HIDE DEF r
<1> QED BY <1>2, <1>3 DEF batch

LEMMA PlanTyped ==
    ASSUME TypeInv, Plan
    PROVE  TypeInv'
<1>1. /\ At("fg", {"start"}) /\ (Fault \/ NoFault)
      /\ UNCHANGED <<done, drive, ticks, node_binary, visited, overruled>> /\ UNCHANGED Store
  BY DEF Plan
<1>2. nodes' \subseteq Nodes
  <2>1. \A k \in 0 .. Len(PlanOrder) - 1 : Range(SubSeq(PlanOrder, 1, k)) \subseteq Nodes
    <3> SUFFICES ASSUME NEW k \in 0 .. Len(PlanOrder) - 1
                 PROVE  Range(SubSeq(PlanOrder, 1, k)) \subseteq Nodes
      OBVIOUS
    <3>1. PlanOrder \in Seq(Nodes)
      BY PlanOrderIs
    <3> HIDE DEF Nodes
    <3>2. SubSeq(PlanOrder, 1, k) \in Seq(Nodes)
      BY <3>1
    <3> QED BY <3>2 DEF Range
  <2> QED BY <2>1 DEF Plan
<1>3. GraphTyped' /\ StoreTyped' /\ RunTyped'
  BY <1>1, <1>2, FaultTyped DEF TypeInv, GraphTyped, StoreTyped, RunTyped, Store
<1>4. CASE Moves("fg", "want")
  <2> DEFINE r == [driver["fg"] EXCEPT !.at = "want"]
  <2>1. r \in DriverRecords /\ r.at = "want" /\ r.batch = <<>>
    BY <1>1, TwoDrivers DEF TypeInv, DriversTyped, DriverRecords, At, Spawning
  <2>2. Goes("fg", r)
    BY <1>4 DEF Moves
  <2> HIDE DEF r
  <2> QED BY <1>3, <2>1, <2>2, TwoDrivers, TypeMoves DEF Spawning
<1>5. CASE Goes("fg", Idle)
  BY <1>3, <1>5, TwoDrivers, IdleIs, TypeMoves DEF Spawning
<1> QED BY <1>4, <1>5 DEF Plan

LEMMA TakeDriveTyped ==
    ASSUME TypeInv, TakeDrive
    PROVE  TypeInv'
<1>1. /\ At("fg", {"want"}) /\ drive' = "fg" /\ Moves("fg", "tick") /\ NoFault
      /\ UNCHANGED <<ticks, node_binary, overruled>> /\ UNCHANGED Graph /\ UNCHANGED Store
  BY DEF TakeDrive
<1>2. GraphTyped' /\ StoreTyped' /\ RunTyped'
  BY <1>1, FaultTyped, TwoDrivers DEF TypeInv, GraphTyped, StoreTyped, RunTyped, Store, Graph
<1> DEFINE r == [driver["fg"] EXCEPT !.at = "tick"]
<1>3. r \in DriverRecords /\ r.at = "tick" /\ r.batch = <<>>
  BY <1>1, TwoDrivers DEF TypeInv, DriversTyped, DriverRecords, At, Spawning
<1>4. Goes("fg", r)
  BY <1>1 DEF Moves
<1> HIDE DEF r
<1> QED BY <1>2, <1>3, <1>4, TwoDrivers, TypeMoves DEF Spawning

LEMMA TicksTyped ==
    ASSUME TypeInv, Ticks
    PROVE  /\ ticks' \in 0 .. MaxTicks /\ UNCHANGED <<node_binary, overruled>> /\ UNCHANGED Graph
           /\ At("fg", {"tick"})
BY Bounds DEF Ticks, TypeInv, RunTyped

LEMMA LoopTyped ==
    ASSUME TypeInv, Loop
    PROVE  TypeInv'
<1>1. CASE MaxTicksHit
  <2>1. /\ Goes("fg", Idle) /\ drive' = "free" /\ NoFault
        /\ UNCHANGED <<ticks, node_binary, overruled>> /\ UNCHANGED Graph /\ UNCHANGED Store
    BY <1>1 DEF MaxTicksHit, Ends
  <2>2. GraphTyped' /\ StoreTyped' /\ RunTyped'
    BY <2>1, FaultTyped DEF TypeInv, GraphTyped, StoreTyped, RunTyped, Store, Graph
  <2> QED BY <2>1, <2>2, TwoDrivers, IdleIs, TypeMoves DEF Spawning
<1>2. CASE StallDetected
  <2>1. Ticks /\ NoFault /\ UNCHANGED <<driver, drive>>
    BY <1>2 DEF StallDetected
  <2>2. GraphTyped' /\ RunTyped'
    BY <2>1, TicksTyped, FaultTyped DEF TypeInv, GraphTyped, RunTyped, Graph
  <2>3. DriversTyped'
    BY <2>1 DEF TypeInv, DriversTyped
  <2> QED BY <1>2, <2>2, <2>3, ReapTyped DEF TypeInv
<1>3. CASE NoOp
  <2>1. Ticks /\ (Fault \/ NoFault) /\ Goes("fg", Idle) /\ drive' = "free" /\ UNCHANGED Store
    BY <1>3 DEF NoOp, Ends
  <2>2. GraphTyped' /\ StoreTyped' /\ RunTyped'
    BY <2>1, TicksTyped, FaultTyped DEF TypeInv, GraphTyped, StoreTyped, RunTyped, Store, Graph
  <2> QED BY <2>1, <2>2, TwoDrivers, IdleIs, TypeMoves DEF Spawning
<1>4. CASE Dispatched
  <2>1. PICK load \in {count_in_flight, none_in_flight} :
          /\ Fault \/ NoFault
          /\ LET batch == assign(claimable, load) IN
             IF batch = <<>> THEN Ends("fg") ELSE Dispatches("fg", batch) /\ UNCHANGED drive
    BY <1>4 DEF Dispatched
  <2>2. Ticks /\ UNCHANGED Store /\ drive' \in {drive, "free"}
    BY <1>4, <2>1 DEF Dispatched, Ends
  <2>3. GraphTyped' /\ StoreTyped' /\ RunTyped'
    BY <2>1, <2>2, TicksTyped, FaultTyped
       DEF TypeInv, GraphTyped, StoreTyped, RunTyped, Store, Graph
  <2>4. CASE assign(claimable, load) = <<>>
    <3>1. Goes("fg", Idle)
      BY <2>1, <2>4 DEF Ends
    <3> QED BY <2>3, <3>1, TwoDrivers, IdleIs, TypeMoves DEF Spawning
  <2>5. CASE assign(claimable, load) # <<>>
    <3>1. Dispatches("fg", assign(claimable, load)) /\ load \in Loads
      BY <2>1, <2>5, LoadsAre
    <3>2. PICK r \in DriverRecords : Goes("fg", r) /\ r.at = "claim" /\ r.batch # <<>>
      BY <2>5, <3>1, TwoDrivers, Assigning
    <3> QED BY <2>3, <3>2, TwoDrivers, TypeMoves DEF Spawning
  <2> QED BY <2>4, <2>5
<1> QED BY <1>1, <1>2, <1>3, <1>4 DEF Loop

LEMMA BackgroundTyped ==
    ASSUME TypeInv, BackgroundTick
    PROVE  TypeInv'
<1>1. /\ assign(claimable, none_in_flight) # <<>>
      /\ Dispatches("bg", assign(claimable, none_in_flight))
      /\ drive' = "bg" /\ NoFault
      /\ UNCHANGED <<ticks, node_binary, overruled>> /\ UNCHANGED Graph /\ UNCHANGED Store
  BY DEF BackgroundTick
<1>2. GraphTyped' /\ StoreTyped' /\ RunTyped'
  BY <1>1, FaultTyped, TwoDrivers DEF TypeInv, GraphTyped, StoreTyped, RunTyped, Store, Graph
<1>3. PICK r \in DriverRecords : Goes("bg", r) /\ r.at = "claim" /\ r.batch # <<>>
  BY <1>1, TwoDrivers, LoadsAre, Assigning
<1> QED BY <1>2, <1>3, TwoDrivers, TypeMoves DEF Spawning

LEMMA MapsTyped ==
    ASSUME TypeInv, NEW d \in Drivers, At(d, Spawning), Maps(d)
    PROVE  node_binary' \in [Nodes -> Range(Binaries) \cup {NoBinary}]
BY Heading DEF TypeInv, RunTyped, Maps

LEMMA MarkTyped ==
    ASSUME TypeInv, NEW d \in Drivers, At(d, Spawning), MarkDone(d),
           node_binary' \in [Nodes -> Range(Binaries) \cup {NoBinary}],
           UNCHANGED <<ticks, overruled>>, UNCHANGED Store
    PROVE  TypeInv'
<1>1. /\ Fault \/ NoFault
      /\ done' \in {done, done \cup {node(d)}} /\ visited' = visited \cup {node(d)}
      /\ TurnsToNext(d) /\ nodes' = nodes
  BY DEF MarkDone
<1>2. node(d) \in Nodes
  BY Heading DEF TypeInv
<1>3. PICK r \in DriverRecords : Goes(d, r) /\ (r.at \in Spawning <=> r.batch # <<>>)
  BY <1>1, Turning DEF TypeInv
<1>4. drive' \in {drive, "free"}
  BY <1>1, Turning DEF TypeInv
<1>5. GraphTyped' /\ StoreTyped' /\ RunTyped'
  BY <1>1, <1>2, <1>4, FaultTyped DEF TypeInv, GraphTyped, StoreTyped, RunTyped, Store
<1> QED BY <1>3, <1>5, TypeMoves

LEMMA SpawnTyped ==
    ASSUME TypeInv, NEW d \in Drivers, Spawn(d) \/ ClaimFails(d)
    PROVE  TypeInv'
<1>1. CASE Acquired(d)
  <2>1. /\ At(d, Spawning) /\ CanMint /\ Leases!Grant(node(d), fresh_claim_token)
        /\ Spawns(d, fresh_claim_token) /\ NoFault /\ UNCHANGED <<aged, foreign>>
    BY <1>1 DEF Acquired, At, Spawning
  <2>2. /\ Goes(d, [driver[d] EXCEPT !.at = "work", !.token = fresh_claim_token]) /\ Maps(d)
        /\ UNCHANGED <<drive, ticks, overruled>> /\ UNCHANGED Graph
    BY <2>1 DEF Spawns
  <2>3. node(d) \in Nodes /\ fresh_claim_token \in 0 .. MaxTokens
    BY <2>1, Heading, FreshToken, Bounds DEF TypeInv
  <2>4. GraphTyped' /\ StoreTyped' /\ RunTyped'
    <3>1. StoreTyped'
      BY <2>1, <2>3, GrantTyped DEF TypeInv, StoreTyped
    <3> QED BY <2>1, <2>2, <3>1, MapsTyped, FaultTyped DEF TypeInv, GraphTyped, RunTyped, Graph
  <2> DEFINE r == [driver[d] EXCEPT !.at = "work", !.token = fresh_claim_token]
  <2>5. r \in DriverRecords /\ r.at \in Spawning /\ r.batch # <<>>
    BY <2>1, <2>3 DEF TypeInv, DriversTyped, DriverRecords, At, Spawning
  <2> HIDE DEF r
  <2> QED BY <2>2, <2>4, <2>5, TypeMoves DEF r
<1>2. CASE AlreadyClaimed(d) \/ Cleanup(d)
  <2>1. /\ At(d, Spawning) /\ MarkDone(d) /\ UNCHANGED <<ticks, overruled>> /\ UNCHANGED Store
        /\ Maps(d) \/ UNCHANGED node_binary
    BY <1>2 DEF AlreadyClaimed, Cleanup, At, Spawning
  <2>2. node_binary' \in [Nodes -> Range(Binaries) \cup {NoBinary}]
    BY <2>1, MapsTyped DEF TypeInv, RunTyped
  <2> QED BY <2>1, <2>2, MarkTyped
<1>3. CASE ClaimFails(d)
  <2>1. /\ At(d, Spawning) /\ Fault /\ UNCHANGED Store
        /\ Goes(d, [driver[d] EXCEPT !.at = "work", !.token = 0]) /\ Maps(d)
        /\ UNCHANGED <<drive, ticks, overruled>> /\ UNCHANGED Graph
    BY <1>3 DEF ClaimFails, Spawns, At, Spawning
  <2>2. GraphTyped' /\ StoreTyped' /\ RunTyped'
    BY <2>1, MapsTyped, FaultTyped DEF TypeInv, GraphTyped, StoreTyped, RunTyped, Store, Graph
  <2> DEFINE r == [driver[d] EXCEPT !.at = "work", !.token = 0]
  <2>3. r \in DriverRecords /\ r.at \in Spawning /\ r.batch # <<>>
    <3>1. 0 \in 0 .. MaxTokens
      BY Bounds
    <3> QED BY <2>1, <3>1 DEF TypeInv, DriversTyped, DriverRecords, At, Spawning
  <2> HIDE DEF r
  <2> QED BY <2>1, <2>2, <2>3, TypeMoves DEF r
<1>4. CASE BladeEnds(d)
  <2>1. /\ At(d, Spawning) /\ (Fault \/ NoFault)
        /\ UNCHANGED <<drive, ticks, node_binary, overruled>> /\ UNCHANGED Graph
        /\ UNCHANGED Store \/ EndLease(node(d), "accepted")
    BY <1>4 DEF BladeEnds, At, Spawning
  <2>2. PICK ok \in BOOLEAN :
          Goes(d, [driver[d] EXCEPT !.at = IF ok THEN "merge" ELSE "cleanup", !.ok = ok])
    BY <1>4 DEF BladeEnds
  <2>3. StoreTyped'
    <3>1. UNCHANGED Store => StoreTyped'
      BY DEF TypeInv, StoreTyped, Store
    <3>2. node(d) \in Nodes
      BY <2>1, Heading DEF TypeInv
    <3> QED BY <2>1, <3>1, <3>2, EndTyped
  <2>4. GraphTyped' /\ RunTyped'
    BY <2>1, FaultTyped DEF TypeInv, GraphTyped, RunTyped, Graph
  <2> DEFINE next == IF ok THEN "merge" ELSE "cleanup"
             r == [driver[d] EXCEPT !.at = next, !.ok = ok]
  <2>5. r \in DriverRecords /\ r.at \in Spawning /\ r.batch # <<>>
    <3>1. next \in Spawning
      BY DEF Spawning
    <3> HIDE DEF next
    <3> QED BY <2>1, <3>1 DEF TypeInv, DriversTyped, DriverRecords, At
  <2> QED BY <2>2, <2>3, <2>4, <2>5, TypeMoves
<1>5. CASE Merge(d)
  <2>1. /\ At(d, Spawning) /\ Moves(d, "cleanup") /\ NoFault
        /\ UNCHANGED <<drive, ticks, node_binary>> /\ UNCHANGED Graph /\ UNCHANGED Store
        /\ overruled' \subseteq overruled \cup ({driver[d].token} \ {0})
    BY <1>5 DEF Merge, At, Spawning
  <2>2. overruled' \subseteq Tokens
    <3>1. driver[d].token \in 0 .. MaxTokens
      BY DEF TypeInv, DriversTyped, DriverRecords
    <3> QED BY <2>1, <3>1, Bounds DEF TypeInv, RunTyped
  <2>3. GraphTyped' /\ StoreTyped' /\ RunTyped'
    BY <2>1, <2>2, FaultTyped DEF TypeInv, GraphTyped, StoreTyped, RunTyped, Store, Graph
  <2> DEFINE r == [driver[d] EXCEPT !.at = "cleanup"]
  <2>4. r \in DriverRecords /\ r.at \in Spawning /\ r.batch # <<>>
    BY <2>1, Bounds DEF TypeInv, DriversTyped, DriverRecords, At, Spawning
  <2>5. Goes(d, r)
    BY <2>1 DEF Moves
  <2> HIDE DEF r
  <2> QED BY <2>3, <2>4, <2>5, TypeMoves
<1> QED BY <1>1, <1>2, <1>3, <1>4, <1>5 DEF Spawn

LEMMA OutsideTyped ==
    ASSUME TypeInv,
           \/ Crash \/ \E k \in Tokens : Age(k)
           \/ \E n \in Nodes : Reap(n) \/ ForeignClaim(n) \/ ForeignRelease(n)
    PROVE  TypeInv'
<1>1. CASE Crash
  <2>1. /\ Fault /\ driver' = [d \in Drivers |-> Idle] /\ drive' = "free"
        /\ UNCHANGED <<ticks, node_binary, overruled>> /\ UNCHANGED Graph /\ UNCHANGED Store
    BY <1>1 DEF Crash
  <2>2. GraphTyped' /\ StoreTyped' /\ RunTyped'
    BY <2>1, FaultTyped DEF TypeInv, GraphTyped, StoreTyped, RunTyped, Store, Graph
  <2>3. DriversTyped'
    BY <2>1, IdleIs DEF DriversTyped, Spawning
  <2> QED BY <2>2, <2>3 DEF TypeInv
<1>2. ASSUME Outside, StoreTyped' PROVE TypeInv'
  BY <1>2 DEF Outside, TypeInv, GraphTyped, RunTyped, DriversTyped, Graph
<1>3. ASSUME NEW k \in Tokens, Age(k) PROVE TypeInv'
  <2>1. Outside /\ StoreTyped'
    BY <1>3 DEF Age, TypeInv, StoreTyped
  <2> QED BY <1>2, <2>1
<1>4. ASSUME NEW n \in Nodes, Reap(n) \/ ForeignRelease(n) PROVE TypeInv'
  <2>1. Outside /\ \E how \in {"released", "reaped"} : EndLease(n, how)
    BY <1>4 DEF Reap, ForeignRelease
  <2> QED BY <1>2, <2>1, EndTyped
<1>5. ASSUME NEW n \in Nodes, ForeignClaim(n) PROVE TypeInv'
  <2>1. /\ Outside /\ CanMint /\ Leases!Grant(n, fresh_claim_token) /\ UNCHANGED aged
        /\ foreign' = foreign \cup {fresh_claim_token}
    BY <1>5 DEF ForeignClaim
  <2>2. foreign' \subseteq Tokens
    BY <2>1, FreshToken DEF TypeInv, StoreTyped
  <2> QED BY <1>2, <2>1, <2>2, GrantTyped
<1> QED BY <1>1, <1>3, <1>4, <1>5

LEMMA TypeStep == TypeInv /\ [Next]_vars => TypeInv'
<1> SUFFICES ASSUME TypeInv, [Next]_vars PROVE TypeInv'
  OBVIOUS
<1>1. CASE UNCHANGED vars
  BY <1>1 DEF vars, TypeInv, GraphTyped, StoreTyped, RunTyped, DriversTyped
<1> QED BY <1>1, PlanTyped, TakeDriveTyped, LoopTyped, BackgroundTyped, SpawnTyped, OutsideTyped
        DEF Next

LEMMA TypeInit == Init => TypeInv
<1> SUFFICES ASSUME Init PROVE TypeInv
  OBVIOUS
<1>1. GraphTyped /\ RunTyped
  BY Bounds DEF Init, GraphTyped, RunTyped
<1>2. StoreTyped
  BY Bounds DEF Init, StoreTyped, Leases!Init, Leases!Fates, Leases!Tokens, Tokens
<1>3. DriversTyped
  <2>1. driver = [d \in Drivers |-> IF d = "fg" THEN [Idle EXCEPT !.at = "start"] ELSE Idle]
    BY DEF Init
  <2> DEFINE r == [Idle EXCEPT !.at = "start"]
  <2>2. r \in DriverRecords /\ r.at = "start" /\ r.batch = <<>>
    BY IdleIs DEF DriverRecords, Idle
  <2> HIDE DEF r
  <2> QED BY <2>1, <2>2, IdleIs DEF DriversTyped, Spawning, r
<1> QED BY <1>1, <1>2, <1>3 DEF TypeInv

LEMMA TypeOKFromInv == TypeInv => TypeOK
<1> SUFFICES ASSUME TypeInv PROVE TypeOK
  OBVIOUS
<1>1. \A d \in Drivers :
        /\ driver[d].at \in {"idle", "start", "want", "tick"} \cup Spawning
        /\ driver[d].batch \in Seq(Nodes \X Range(Binaries))
        /\ driver[d].token \in 0 .. MaxTokens /\ driver[d].ok \in BOOLEAN
        /\ At(d, Spawning) <=> driver[d].batch # <<>>
  BY DEF TypeInv, DriversTyped, DriverRecords, Batches, At
<1> QED BY <1>1 DEF TypeInv, GraphTyped, StoreTyped, RunTyped, TypeOK

-----------------------------------------------------------------------------
(* The plan: what the drivers still have before them. *)

(* A step that gives nobody a new assignment. *)
LEMMA PlanKept ==
    ASSUME PlanInv, done' = done, visited \subseteq visited',
           \A e \in Drivers : driver'[e].batch \in {driver[e].batch, <<>>}
    PROVE  PlanInv'
<1>1. done' \subseteq visited'
  BY DEF PlanInv
<1>2. ASSUME NEW e \in Drivers
      PROVE  /\ \A k, l \in DOMAIN driver'[e].batch :
                  driver'[e].batch[k][1] = driver'[e].batch[l][1] => k = l
             /\ \A k \in DOMAIN driver'[e].batch :
                  /\ driver'[e].batch[k][1] \notin done'
                  /\ Deps(driver'[e].batch[k][1]) \subseteq visited'
  <2>1. CASE driver'[e].batch = driver[e].batch
    BY <2>1 DEF PlanInv
  <2>2. CASE driver'[e].batch = <<>>
    BY <2>2
  <2> QED BY <2>1, <2>2
<1> QED BY <1>1, <1>2 DEF PlanInv, Deps

LEMMA PlanMoves ==
    ASSUME TypeInv, PlanInv, NEW d \in Drivers, NEW r \in DriverRecords, Goes(d, r),
           r.batch \in {driver[d].batch, <<>>}, UNCHANGED <<done, visited>>
    PROVE  PlanInv'
<1>1. driver'[d] = r /\ \A e \in Drivers \ {d} : driver'[e] = driver[e]
  BY Gone DEF TypeInv
<1> QED BY <1>1, PlanKept

(* A new batch has ready nodes: not done, with all they depend on done.    *)
LEMMA PlanAssigned ==
    ASSUME TypeInv, PlanInv, NEW d \in Drivers, NEW load \in Loads,
           Dispatches(d, assign(claimable, load)), assign(claimable, load) # <<>>,
           UNCHANGED Graph
    PROVE  PlanInv'
<1> DEFINE batch == assign(claimable, load)
<1>1. /\ \A k \in DOMAIN batch : batch[k][1] \in claimable
      /\ \A k, l \in DOMAIN batch : batch[k][1] = batch[l][1] => k = l
  BY AssignReady
<1>2. PICK r \in DriverRecords : Goes(d, r) /\ r.batch = batch
  BY Assigning
<1> HIDE DEF batch
<1>3. driver'[d].batch = batch /\ \A e \in Drivers \ {d} : driver'[e] = driver[e]
  BY <1>2, Gone DEF TypeInv
<1>4. done' = done /\ visited' = visited /\ done \subseteq visited
  BY DEF Graph, PlanInv
<1>5. \A k \in DOMAIN batch : batch[k][1] \notin done /\ Deps(batch[k][1]) \subseteq visited
  BY <1>1, <1>4 DEF claimable
<1>6. ASSUME NEW e \in Drivers
      PROVE  /\ \A k, l \in DOMAIN driver'[e].batch :
                  driver'[e].batch[k][1] = driver'[e].batch[l][1] => k = l
             /\ \A k \in DOMAIN driver'[e].batch :
                  /\ driver'[e].batch[k][1] \notin done'
                  /\ Deps(driver'[e].batch[k][1]) \subseteq visited'
  <2>1. CASE e = d
    BY <2>1, <1>1, <1>3, <1>4, <1>5
  <2>2. CASE e # d
    BY <2>2, <1>3, <1>4 DEF PlanInv
  <2> QED BY <2>1, <2>2
<1> QED BY <1>4, <1>6 DEF PlanInv, Deps

(* The node that is marked is on no batch any more: it was once on its own *)
(* driver's, and the other driver has none.                                *)
LEMMA PlanMarked ==
    ASSUME TypeInv, LockInv, PlanInv, NEW d \in Drivers, At(d, Spawning), MarkDone(d)
    PROVE  PlanInv'
<1> DEFINE batch == driver[d].batch
<1>1. /\ done' \in {done, done \cup {node(d)}} /\ visited' = visited \cup {node(d)}
      /\ TurnsToNext(d)
  BY DEF MarkDone
<1>2. /\ 1 \in DOMAIN batch /\ node(d) = batch[1][1]
      /\ \A k \in DOMAIN Tail(batch) : k + 1 \in DOMAIN batch /\ k + 1 # 1
                                      /\ Tail(batch)[k] = batch[k + 1]
      /\ \A k, l \in DOMAIN Tail(batch) : k + 1 = l + 1 => k = l
  BY Heading DEF TypeInv
<1>3. PICK r \in DriverRecords : Goes(d, r) /\ r.batch \in {<<>>, Tail(batch)}
  BY <1>1, Turning DEF TypeInv
<1>4. driver'[d].batch \in {<<>>, Tail(batch)} /\ \A e \in Drivers \ {d} : driver'[e] = driver[e]
  BY <1>3, Gone DEF TypeInv
<1>5. \A e \in Drivers \ {d} : driver[e].batch = <<>>
  <2>1. \A e \in Drivers \ {d} : ~At(e, Spawning)
    BY Alone
  <2> QED BY <2>1 DEF TypeInv, DriversTyped, At
<1>6. /\ \A k, l \in DOMAIN batch : batch[k][1] = batch[l][1] => k = l
      /\ \A k \in DOMAIN batch : batch[k][1] \notin done /\ Deps(batch[k][1]) \subseteq visited
      /\ done \subseteq visited
  BY DEF PlanInv
<1> HIDE DEF batch
<1>7. \A k \in DOMAIN Tail(batch) :
        /\ Tail(batch)[k][1] \notin done \cup {node(d)}
        /\ Deps(Tail(batch)[k][1]) \subseteq visited
  <2> SUFFICES ASSUME NEW k \in DOMAIN Tail(batch)
               PROVE  /\ Tail(batch)[k][1] \notin done \cup {node(d)}
                      /\ Deps(Tail(batch)[k][1]) \subseteq visited
    OBVIOUS
  <2>1. k + 1 \in DOMAIN batch /\ k + 1 # 1 /\ Tail(batch)[k] = batch[k + 1]
    BY <1>2
  <2>2. batch[k + 1][1] # batch[1][1]
    BY <2>1, <1>2, <1>6
  <2>3. batch[k + 1][1] \notin done /\ Deps(batch[k + 1][1]) \subseteq visited
    BY <2>1, <1>6
  <2> QED BY <2>1, <2>2, <2>3, <1>2
<1>8. \A k, l \in DOMAIN Tail(batch) : Tail(batch)[k][1] = Tail(batch)[l][1] => k = l
  BY <1>2, <1>6
<1>9. done' \subseteq visited'
  BY <1>1, <1>6
<1>10. ASSUME NEW e \in Drivers
       PROVE  /\ \A k, l \in DOMAIN driver'[e].batch :
                   driver'[e].batch[k][1] = driver'[e].batch[l][1] => k = l
              /\ \A k \in DOMAIN driver'[e].batch :
                   /\ driver'[e].batch[k][1] \notin done'
                   /\ Deps(driver'[e].batch[k][1]) \subseteq visited'
  <2>1. CASE driver'[e].batch = <<>>
    BY <2>1
  <2>2. CASE driver'[e].batch = Tail(batch)
    BY <2>2, <1>1, <1>7, <1>8
  <2> QED BY <2>1, <2>2, <1>4, <1>5
<1> QED BY <1>9, <1>10 DEF PlanInv, Deps

LEMMA PlanStep == LockInv /\ TypeInv /\ PlanInv /\ [Next]_vars => PlanInv'
<1> SUFFICES ASSUME LockInv, TypeInv, PlanInv, [Next]_vars PROVE PlanInv'
  OBVIOUS
<1> USE TwoDrivers
<1>0. ASSUME NEW d \in Drivers, Goes(d, Idle), UNCHANGED <<done, visited>> PROVE PlanInv'
  BY <1>0, IdleIs, PlanMoves
<1>1. ASSUME NEW d \in Drivers, NEW next \in {"want", "tick", "cleanup"}, Moves(d, next),
             UNCHANGED <<done, visited>>
      PROVE  PlanInv'
  <2> DEFINE r == [driver[d] EXCEPT !.at = next]
  <2>1. r \in DriverRecords /\ r.batch = driver[d].batch
    BY DEF TypeInv, DriversTyped, DriverRecords, Spawning
  <2>2. Goes(d, r)
    BY <1>1 DEF Moves
  <2> HIDE DEF r
  <2> QED BY <2>1, <2>2, <1>1, PlanMoves
<1>2. CASE Plan
  <2>1. UNCHANGED <<done, visited>> /\ (Moves("fg", "want") \/ Goes("fg", Idle))
    BY <1>2 DEF Plan
  <2> QED BY <2>1, <1>0, <1>1
<1>3. CASE TakeDrive
  <2>1. UNCHANGED <<done, visited>> /\ Moves("fg", "tick")
    BY <1>3 DEF TakeDrive, Graph
  <2> QED BY <2>1, <1>1
<1>4. CASE MaxTicksHit \/ NoOp
  <2>1. UNCHANGED <<done, visited>> /\ Goes("fg", Idle)
    BY <1>4 DEF MaxTicksHit, NoOp, Ticks, Ends, Graph
  <2> QED BY <2>1, <1>0
<1>5. CASE StallDetected
  <2>1. UNCHANGED <<done, visited, driver>>
    BY <1>5 DEF StallDetected, Ticks, Graph
  <2> QED BY <2>1, PlanKept
<1>6. CASE Dispatched
  <2>1. PICK load \in {count_in_flight, none_in_flight} :
             LET batch == assign(claimable, load) IN
             IF batch = <<>> THEN Ends("fg") ELSE Dispatches("fg", batch) /\ UNCHANGED drive
    BY <1>6 DEF Dispatched
  <2>2. UNCHANGED Graph /\ UNCHANGED <<done, visited>>
    BY <1>6 DEF Dispatched, Ticks, Graph
  <2>3. CASE assign(claimable, load) = <<>>
    <3>1. Goes("fg", Idle)
      BY <2>1, <2>3 DEF Ends
    <3> QED BY <2>2, <3>1, <1>0
  <2>4. CASE assign(claimable, load) # <<>>
    <3>1. Dispatches("fg", assign(claimable, load)) /\ load \in Loads
      BY <2>1, <2>4, LoadsAre
    <3> QED BY <2>2, <2>4, <3>1, PlanAssigned
  <2> QED BY <2>3, <2>4
<1>7. CASE BackgroundTick
  <2>1. /\ assign(claimable, none_in_flight) # <<>>
        /\ Dispatches("bg", assign(claimable, none_in_flight)) /\ UNCHANGED Graph
    BY <1>7 DEF BackgroundTick
  <2> QED BY <2>1, LoadsAre, PlanAssigned
<1>8. ASSUME NEW d \in Drivers, NEW k \in 0 .. MaxTokens, Spawns(d, k) PROVE PlanInv'
  <2> DEFINE r == [driver[d] EXCEPT !.at = "work", !.token = k]
  <2>1. r \in DriverRecords /\ r.batch = driver[d].batch
    BY DEF TypeInv, DriversTyped, DriverRecords, Spawning
  <2>2. Goes(d, r) /\ UNCHANGED <<done, visited>>
    BY <1>8 DEF Spawns, Graph
  <2> HIDE DEF r
  <2> QED BY <2>1, <2>2, PlanMoves
<1>9. ASSUME NEW d \in Drivers, Spawn(d) \/ ClaimFails(d) PROVE PlanInv'
  <2>1. CASE Acquired(d)
    <3>1. Spawns(d, fresh_claim_token) /\ CanMint
      BY <2>1 DEF Acquired
    <3> QED BY <3>1, <1>8, FreshToken, Bounds
  <2>2. CASE ClaimFails(d)
    <3>1. Spawns(d, 0) /\ 0 \in 0 .. MaxTokens
      BY <2>2, Bounds DEF ClaimFails
    <3> QED BY <3>1, <1>8
  <2>3. CASE AlreadyClaimed(d) \/ Cleanup(d)
    <3>1. At(d, Spawning) /\ MarkDone(d)
      BY <2>3 DEF AlreadyClaimed, Cleanup, At, Spawning
    <3> QED BY <3>1, PlanMarked
  <2>4. CASE BladeEnds(d)
    <3>1. PICK ok \in BOOLEAN :
            Goes(d, [driver[d] EXCEPT !.at = IF ok THEN "merge" ELSE "cleanup", !.ok = ok])
      BY <2>4 DEF BladeEnds
    <3>2. UNCHANGED <<done, visited>>
      BY <2>4 DEF BladeEnds, Graph
    <3> DEFINE r == [driver[d] EXCEPT !.at = IF ok THEN "merge" ELSE "cleanup", !.ok = ok]
    <3>3. r \in DriverRecords /\ r.batch = driver[d].batch
      BY DEF TypeInv, DriversTyped, DriverRecords, Spawning
    <3> HIDE DEF r
    <3> QED BY <3>1, <3>2, <3>3, PlanMoves DEF r
  <2>5. CASE Merge(d)
    <3>1. UNCHANGED <<done, visited>> /\ Moves(d, "cleanup")
      BY <2>5 DEF Merge, Graph
    <3> QED BY <3>1, <1>1
  <2> QED BY <1>9, <2>1, <2>2, <2>3, <2>4, <2>5 DEF Spawn
<1>10. CASE Crash
  <2>1. UNCHANGED <<done, visited>> /\ driver' = [d \in Drivers |-> Idle]
    BY <1>10 DEF Crash, Graph
  <2>2. \A e \in Drivers : driver'[e].batch = <<>>
    BY <2>1, IdleIs
  <2> QED BY <2>1, <2>2, PlanKept
<1>11. CASE Outside \/ UNCHANGED vars
  <2>1. UNCHANGED <<done, visited, driver>>
    BY <1>11 DEF Outside, Graph, vars
  <2> QED BY <2>1, PlanKept
<1>12. \/ \E k \in Tokens : Age(k)
       \/ \E n \in Nodes : Reap(n) \/ ForeignClaim(n) \/ ForeignRelease(n)
       => Outside
  BY DEF Age, Reap, ForeignClaim, ForeignRelease
<1> QED BY <1>2, <1>3, <1>4, <1>5, <1>6, <1>7, <1>9, <1>10, <1>11, <1>12 DEF Next, Loop

-----------------------------------------------------------------------------
(* The leases: a live one belongs to a blade at work, or to a stranger. *)

(* A driver that is at no blade before the step, and at none with a lease  *)
(* after it.                                                               *)
LEMMA LeaseMoves ==
    ASSUME TypeInv, LeaseInv, NEW d \in Drivers, NEW r \in DriverRecords, Goes(d, r),
           ~At(d, {"work"}), r.at # "work" \/ r.token = 0, UNCHANGED Store, Fault \/ NoFault
    PROVE  LeaseInv'
<1>1. driver'[d] = r /\ \A e \in Drivers \ {d} : driver'[e] = driver[e]
  BY Gone DEF TypeInv
<1>2. UNCHANGED <<owner, fate, foreign>> /\ (faults' = 0 => faults = 0)
  BY FaultTyped DEF Store
<1>3. ASSUME NEW e \in Drivers, driver'[e].at = "work", driver'[e].token # 0
      PROVE  e # d /\ driver'[e] = driver[e] /\ driver[e].at = "work"
  BY <1>1, <1>3
<1>4. ASSUME NEW e \in Drivers, driver'[e].at = "work", driver'[e].token # 0
      PROVE  /\ fate'[driver'[e].token] # "unminted"
             /\ fate'[driver'[e].token] = "live" =>
                  owner'[Head(driver'[e].batch)[1]] = driver'[e].token
  BY <1>2, <1>3, <1>4 DEF LeaseInv, At, node
<1>5. NoLeakedClaim'
  <2> SUFFICES ASSUME faults' = 0, NEW k \in Tokens \ foreign', fate'[k] = "live"
               PROVE  \E e \in Drivers : driver'[e].token = k /\ driver'[e].at = "work"
    BY DEF NoLeakedClaim, At
  <2>1. PICK e \in Drivers : driver[e].token = k /\ driver[e].at = "work"
    BY <1>2 DEF LeaseInv, NoLeakedClaim, At
  <2>2. e # d
    BY <2>1 DEF At
  <2> QED BY <2>1, <2>2, <1>1
<1> QED BY <1>4, <1>5 DEF LeaseInv, At, node

(* Leases end, and only they: the slots that change are those of leases    *)
(* that have.                                                              *)
LEMMA LeaseFewer ==
    ASSUME TypeInv, LeaseInv, UNCHANGED <<driver, foreign, faults>>,
           \A k \in Tokens : fate'[k] = fate[k] \/ fate'[k] \notin {"live", "unminted"},
           \A n \in Nodes : \/ owner'[n] = owner[n]
                            \/ owner[n] \in Tokens /\ fate'[owner[n]] # "live"
    PROVE  LeaseInv'
<1>1. ASSUME NEW e \in Drivers, driver'[e].at = "work", driver'[e].token # 0
      PROVE  /\ fate'[driver'[e].token] # "unminted"
             /\ fate'[driver'[e].token] = "live" =>
                  owner'[Head(driver'[e].batch)[1]] = driver'[e].token
  <2>1. /\ driver[e].token \in Tokens /\ node(e) \in Nodes
    <3>1. driver[e].token \in 0 .. MaxTokens /\ At(e, Spawning)
      BY <1>1 DEF TypeInv, DriversTyped, DriverRecords, At, Spawning
    <3> QED BY <1>1, <3>1, Heading, Bounds DEF TypeInv
  <2>2. /\ fate[driver[e].token] # "unminted"
        /\ fate[driver[e].token] = "live" => owner[node(e)] = driver[e].token
    BY <1>1 DEF LeaseInv, At
  <2> QED BY <2>1, <2>2 DEF node
<1>2. NoLeakedClaim'
  BY DEF LeaseInv, NoLeakedClaim, At
<1> QED BY <1>1, <1>2 DEF LeaseInv, At, node

(* A lease is granted to a blade of driver d, or to another blade.         *)
LEMMA LeaseGrows ==
    ASSUME TypeInv, LeaseInv, CanMint, NEW n \in Nodes, Leases!Grant(n, fresh_claim_token),
           UNCHANGED <<aged, faults>>,
           \/ foreign' = foreign \cup {fresh_claim_token} /\ UNCHANGED driver
           \/ \E d \in Drivers, r \in DriverRecords :
                /\ foreign' = foreign /\ At(d, {"claim"}) /\ n = node(d) /\ Goes(d, r)
                /\ r.at = "work" /\ r.token = fresh_claim_token /\ r.batch = driver[d].batch
    PROVE  LeaseInv'
<1> DEFINE k == fresh_claim_token
<1>1. k \in Tokens /\ fate[k] = "unminted" /\ k \in 0 .. MaxTokens /\ k # 0
  BY FreshToken, Bounds
<1>2. /\ owner[n] = 0 /\ owner'[n] = k /\ fate'[k] = "live"
      /\ \A m \in Nodes \ {n} : owner'[m] = owner[m]
      /\ \A j \in Tokens \ {k} : fate'[j] = fate[j]
  <2>1. foreign' \subseteq Tokens
    BY <1>1 DEF TypeInv, StoreTyped
  <2> QED BY <2>1, GrantTyped
<1>3. \/ foreign' = foreign \cup {k} /\ UNCHANGED driver
      \/ \E d \in Drivers :
           /\ foreign' = foreign /\ driver[d].at = "claim" /\ n = node(d)
           /\ driver'[d].at = "work" /\ driver'[d].token = k /\ driver'[d].batch = driver[d].batch
           /\ \A e \in Drivers \ {d} : driver'[e] = driver[e]
  BY Gone DEF TypeInv, At
<1> HIDE DEF k
<1>4. ASSUME NEW e \in Drivers, driver'[e].at = "work", driver'[e].token # 0
      PROVE  /\ fate'[driver'[e].token] # "unminted"
             /\ fate'[driver'[e].token] = "live" =>
                  owner'[Head(driver'[e].batch)[1]] = driver'[e].token
  <2>1. CASE driver'[e] = driver[e]
    <3>1. driver[e].token \in 0 .. MaxTokens /\ At(e, Spawning)
      BY <1>4, <2>1 DEF TypeInv, DriversTyped, DriverRecords, At, Spawning
    <3>2. driver[e].token \in Tokens /\ node(e) \in Nodes
      BY <1>4, <2>1, <3>1, Heading, Bounds DEF TypeInv
    <3>3. /\ fate[driver[e].token] # "unminted"
          /\ fate[driver[e].token] = "live" => owner[node(e)] = driver[e].token
      BY <1>4, <2>1 DEF LeaseInv, At
    <3>4. driver[e].token # k
      BY <3>3, <1>1
    <3>5. fate'[driver[e].token] = fate[driver[e].token]
      BY <3>2, <3>4, <1>2
    <3>6. fate[driver[e].token] = "live" => node(e) # n
      BY <3>3, <1>2, <1>4, <2>1
    <3> QED BY <2>1, <3>2, <3>3, <3>5, <3>6, <1>2 DEF node
  <2>2. CASE driver'[e] # driver[e]
    <3>1. /\ n = node(e) /\ driver'[e].token = k /\ driver'[e].batch = driver[e].batch
      BY <1>3, <2>2
    <3> QED BY <3>1, <1>2 DEF node
  <2> QED BY <2>1, <2>2
<1>5. NoLeakedClaim'
  <2> SUFFICES ASSUME faults' = 0, NEW j \in Tokens \ foreign', fate'[j] = "live"
               PROVE  \E e \in Drivers : driver'[e].token = j /\ driver'[e].at = "work"
    BY DEF NoLeakedClaim, At
  <2>1. CASE j = k
    BY <2>1, <1>3
  <2>2. CASE j # k
    <3>1. fate[j] = "live" /\ j \notin foreign /\ faults = 0
      BY <2>2, <1>2, <1>3
    <3>2. PICK e \in Drivers : driver[e].token = j /\ driver[e].at = "work"
      BY <3>1 DEF LeaseInv, NoLeakedClaim, At
    <3> QED BY <3>2, <1>3
  <2> QED BY <2>1, <2>2
<1> QED BY <1>4, <1>5 DEF LeaseInv, At, node

(* A blade ends: its lease, if it lives, ends with it, unless a fault keeps*)
(* the store from hearing of it.                                           *)
LEMMA LeaseEnds ==
    ASSUME TypeInv, LockInv, LeaseInv, NEW d \in Drivers, BladeEnds(d)
    PROVE  LeaseInv'
<1>1. PICK ok \in BOOLEAN :
        Goes(d, [driver[d] EXCEPT !.at = IF ok THEN "merge" ELSE "cleanup", !.ok = ok])
  BY DEF BladeEnds
<1> DEFINE r == [driver[d] EXCEPT !.at = IF ok THEN "merge" ELSE "cleanup", !.ok = ok]
<1>2. r \in DriverRecords /\ r.at \in {"merge", "cleanup"}
  BY DEF TypeInv, DriversTyped, DriverRecords, Spawning
<1>3. Goes(d, r)
  BY <1>1
<1> HIDE DEF r
<1>4. driver'[d].at # "work" /\ \A e \in Drivers \ {d} : driver'[e] = driver[e]
  BY <1>2, <1>3, Gone DEF TypeInv
<1>5. At(d, {"work"}) /\ At(d, Spawning) /\ driver[d].token \in 0 .. MaxTokens
  BY DEF BladeEnds, At, Spawning, TypeInv, DriversTyped, DriverRecords
<1>6. \A e \in Drivers : driver'[e].at # "work"
  <2>1. \A e \in Drivers \ {d} : driver[e].at # "work"
    <3> SUFFICES ASSUME NEW e \in Drivers \ {d}, driver[e].at = "work" PROVE FALSE
      OBVIOUS
    <3>1. At(e, Spawning)
      BY DEF At, Spawning
    <3> QED BY <3>1, <1>5, Alone
  <2> QED BY <2>1, <1>4
<1>7. NoLeakedClaim'
  <2> SUFFICES ASSUME faults' = 0, NEW k \in Tokens \ foreign', fate'[k] = "live"
               PROVE  FALSE
    BY DEF NoLeakedClaim
  <2>1. NoFault /\ faults = 0
    BY FaultTyped DEF BladeEnds, NoFault
  <2>2. ~Fault
    BY <2>1 DEF Fault
  <2>3. node(d) \in Nodes
    BY <1>5, Heading DEF TypeInv
  <2>4. ASSUME NEW j \in Tokens \ foreign, fate[j] = "live"
        PROVE  driver[d].token = j /\ owner[node(d)] = j /\ j # 0
    <3>1. PICK e \in Drivers : driver[e].token = j /\ driver[e].at = "work"
      BY <2>1, <2>4 DEF LeaseInv, NoLeakedClaim, At
    <3>2. e = d
      <4>1. At(e, Spawning)
        BY <3>1 DEF At, Spawning
      <4> QED BY <4>1, <1>5, Alone
    <3>3. j # 0
      BY Bounds
    <3> QED BY <3>1, <3>2, <3>3, <1>5, <2>4 DEF LeaseInv
  <2>5. CASE EndLease(node(d), "accepted")
    <3>1. /\ foreign' = foreign /\ owner[node(d)] \in Tokens /\ fate'[owner[node(d)]] = "accepted"
          /\ \A j \in Tokens \ {owner[node(d)]} : fate'[j] = fate[j]
      BY <2>3, <2>5, EndTyped
    <3>2. k # owner[node(d)] /\ fate[k] = "live"
      BY <3>1
    <3> QED BY <3>1, <3>2, <2>4
  <2>6. CASE UNCHANGED Store /\ (driver[d].token = 0 \/ owner[node(d)] # driver[d].token)
    <3>1. fate[k] = "live" /\ k \notin foreign
      BY <2>6 DEF Store
    <3> QED BY <3>1, <2>4, <2>6
  <2> QED BY <2>2, <2>5, <2>6 DEF BladeEnds
<1> QED BY <1>6, <1>7 DEF LeaseInv, At

LEMMA LeaseStep == LockInv /\ TypeInv /\ LeaseInv /\ [Next]_vars => LeaseInv'
<1> SUFFICES ASSUME LockInv, TypeInv, LeaseInv, [Next]_vars PROVE LeaseInv'
  OBVIOUS
<1> USE TwoDrivers
<1>0. ASSUME NEW d \in Drivers, Goes(d, Idle), ~At(d, {"work"}), UNCHANGED Store, Fault \/ NoFault
      PROVE LeaseInv'
  BY <1>0, IdleIs, LeaseMoves
<1>1. ASSUME NEW d \in Drivers, NEW next \in {"want", "tick", "cleanup"}, Moves(d, next),
             ~At(d, {"work"}), UNCHANGED Store, Fault \/ NoFault
      PROVE  LeaseInv'
  <2> DEFINE r == [driver[d] EXCEPT !.at = next]
  <2>1. r \in DriverRecords /\ r.at # "work"
    BY DEF TypeInv, DriversTyped, DriverRecords, Spawning
  <2>2. Goes(d, r)
    BY <1>1 DEF Moves
  <2> HIDE DEF r
  <2> QED BY <2>1, <2>2, <1>1, LeaseMoves
<1>2. CASE Plan
  <2>1. /\ ~At("fg", {"work"}) /\ UNCHANGED Store /\ (Fault \/ NoFault)
        /\ Moves("fg", "want") \/ Goes("fg", Idle)
    BY <1>2 DEF Plan, At
  <2> QED BY <2>1, <1>0, <1>1
<1>3. CASE TakeDrive
  <2>1. ~At("fg", {"work"}) /\ UNCHANGED Store /\ NoFault /\ Moves("fg", "tick")
    BY <1>3 DEF TakeDrive, At
  <2> QED BY <2>1, <1>1
<1>4. CASE MaxTicksHit \/ NoOp
  <2>1. ~At("fg", {"work"}) /\ UNCHANGED Store /\ (Fault \/ NoFault) /\ Goes("fg", Idle)
    BY <1>4 DEF MaxTicksHit, NoOp, Ticks, Ends, At
  <2> QED BY <2>1, <1>0
<1>5. CASE StallDetected
  <2>1. UNCHANGED <<driver, foreign, faults>>
    BY <1>5 DEF StallDetected, NoFault
  <2>2. /\ \A n \in Nodes : owner'[n] = owner[n] \/ owner[n] \in aged
        /\ \A k \in Tokens : fate'[k] = IF k \in aged THEN "reaped" ELSE fate[k]
    BY <1>5, ReapTyped
  <2>3. aged \subseteq Tokens
    BY DEF TypeInv, StoreTyped
  <2>4. /\ \A n \in Nodes : \/ owner'[n] = owner[n]
                            \/ owner[n] \in Tokens /\ fate'[owner[n]] # "live"
        /\ \A k \in Tokens : fate'[k] = fate[k] \/ fate'[k] \notin {"live", "unminted"}
    BY <2>2, <2>3
  <2> QED BY <2>1, <2>4, LeaseFewer
<1>6. CASE Dispatched
  <2>1. PICK load \in {count_in_flight, none_in_flight} :
             LET batch == assign(claimable, load) IN
             IF batch = <<>> THEN Ends("fg") ELSE Dispatches("fg", batch) /\ UNCHANGED drive
    BY <1>6 DEF Dispatched
  <2>2. ~At("fg", {"work"}) /\ UNCHANGED Store /\ (Fault \/ NoFault)
    BY <1>6 DEF Dispatched, Ticks, At
  <2>3. CASE assign(claimable, load) = <<>>
    <3>1. Goes("fg", Idle)
      BY <2>1, <2>3 DEF Ends
    <3> QED BY <2>2, <3>1, <1>0
  <2>4. CASE assign(claimable, load) # <<>>
    <3>1. Dispatches("fg", assign(claimable, load)) /\ load \in Loads
      BY <2>1, <2>4, LoadsAre
    <3>2. PICK r \in DriverRecords : Goes("fg", r) /\ r.at = "claim"
      BY <2>4, <3>1, Assigning
    <3> QED BY <2>2, <3>2, LeaseMoves
  <2> QED BY <2>3, <2>4
<1>7. CASE BackgroundTick
  <2>1. /\ assign(claimable, none_in_flight) # <<>>
        /\ Dispatches("bg", assign(claimable, none_in_flight))
        /\ ~At("bg", {"work"}) /\ UNCHANGED Store /\ NoFault
    BY <1>7 DEF BackgroundTick, At
  <2>2. PICK r \in DriverRecords : Goes("bg", r) /\ r.at = "claim"
    BY <2>1, LoadsAre, Assigning
  <2> QED BY <2>1, <2>2, LeaseMoves
<1>8. ASSUME NEW d \in Drivers, NEW k \in 0 .. MaxTokens, Spawns(d, k)
      PROVE  \E r \in DriverRecords :
               /\ Goes(d, r) /\ r.at = "work" /\ r.token = k /\ r.batch = driver[d].batch
  <2> DEFINE r == [driver[d] EXCEPT !.at = "work", !.token = k]
  <2>1. r \in DriverRecords /\ r.at = "work" /\ r.token = k /\ r.batch = driver[d].batch
    BY DEF TypeInv, DriversTyped, DriverRecords, Spawning
  <2>2. Goes(d, r)
    BY <1>8 DEF Spawns
  <2> HIDE DEF r
  <2> QED BY <2>1, <2>2
<1>9. ASSUME NEW d \in Drivers, Acquired(d) PROVE LeaseInv'
  <2>1. /\ At(d, {"claim"}) /\ At(d, Spawning) /\ CanMint /\ Spawns(d, fresh_claim_token)
        /\ Leases!Grant(node(d), fresh_claim_token) /\ UNCHANGED <<aged, foreign, faults>>
    BY <1>9 DEF Acquired, At, Spawning, NoFault
  <2>2. node(d) \in Nodes /\ fresh_claim_token \in 0 .. MaxTokens
    BY <2>1, Heading, FreshToken, Bounds DEF TypeInv
  <2>3. PICK r \in DriverRecords :
          /\ Goes(d, r) /\ r.at = "work" /\ r.token = fresh_claim_token
          /\ r.batch = driver[d].batch
    BY <2>1, <2>2, <1>8
  <2> QED BY <2>1, <2>2, <2>3, LeaseGrows
<1>10. ASSUME NEW d \in Drivers, ClaimFails(d) PROVE LeaseInv'
  <2>1. ~At(d, {"work"}) /\ Spawns(d, 0) /\ Fault /\ UNCHANGED Store /\ 0 \in 0 .. MaxTokens
    BY <1>10, Bounds DEF ClaimFails, At
  <2>2. PICK r \in DriverRecords : Goes(d, r) /\ r.token = 0
    BY <2>1, <1>8
  <2> QED BY <2>1, <2>2, LeaseMoves
<1>11. ASSUME NEW d \in Drivers, AlreadyClaimed(d) \/ Cleanup(d) PROVE LeaseInv'
  <2>1. /\ At(d, Spawning) /\ ~At(d, {"work"}) /\ UNCHANGED Store /\ (Fault \/ NoFault)
        /\ TurnsToNext(d)
    BY <1>11 DEF AlreadyClaimed, Cleanup, MarkDone, At, Spawning
  <2>2. PICK r \in DriverRecords : Goes(d, r) /\ r.token = 0
    BY <2>1, Turning DEF TypeInv
  <2> QED BY <2>1, <2>2, LeaseMoves
<1>12. ASSUME NEW d \in Drivers, Merge(d) PROVE LeaseInv'
  <2>1. ~At(d, {"work"}) /\ Moves(d, "cleanup") /\ UNCHANGED Store /\ NoFault
    BY <1>12 DEF Merge, At
  <2> QED BY <2>1, <1>1
<1>13. CASE Crash
  <2>1. Fault /\ driver' = [d \in Drivers |-> Idle]
    BY <1>13 DEF Crash
  <2>2. faults' # 0
    BY <2>1, FaultTyped
  <2>3. \A e \in Drivers : driver'[e].at # "work"
    BY <2>1, IdleIs
  <2>4. NoLeakedClaim'
    BY <2>2 DEF NoLeakedClaim
  <2> QED BY <2>3, <2>4 DEF LeaseInv, At
<1>14. ASSUME NEW k \in Tokens, Age(k) PROVE LeaseInv'
  <2>1. UNCHANGED <<driver, foreign, faults, owner, fate>>
    BY <1>14 DEF Age, Outside
  <2> QED BY <2>1, LeaseFewer
<1>15. ASSUME NEW n \in Nodes, Reap(n) \/ ForeignRelease(n) PROVE LeaseInv'
  <2>1. PICK how \in {"released", "reaped"} : EndLease(n, how)
    BY <1>15 DEF Reap, ForeignRelease
  <2>2. UNCHANGED <<driver, faults>>
    BY <1>15 DEF Reap, ForeignRelease, Outside
  <2>3. /\ foreign' = foreign /\ owner[n] \in Tokens /\ fate'[owner[n]] = how
        /\ \A m \in Nodes \ {n} : owner'[m] = owner[m]
        /\ \A k \in Tokens \ {owner[n]} : fate'[k] = fate[k]
    BY <2>1, EndTyped
  <2>4. /\ \A m \in Nodes : \/ owner'[m] = owner[m]
                            \/ owner[m] \in Tokens /\ fate'[owner[m]] # "live"
        /\ \A k \in Tokens : fate'[k] = fate[k] \/ fate'[k] \notin {"live", "unminted"}
    BY <2>3
  <2> QED BY <2>2, <2>3, <2>4, LeaseFewer
<1>16. ASSUME NEW n \in Nodes, ForeignClaim(n) PROVE LeaseInv'
  <2>1. /\ CanMint /\ Leases!Grant(n, fresh_claim_token) /\ UNCHANGED <<aged, faults, driver>>
        /\ foreign' = foreign \cup {fresh_claim_token}
    BY <1>16 DEF ForeignClaim, Outside
  <2> QED BY <2>1, LeaseGrows
<1>17. CASE UNCHANGED vars
  <2>1. UNCHANGED <<driver, foreign, faults, owner, fate>>
    BY <1>17 DEF vars
  <2> QED BY <2>1, LeaseFewer
<1> QED BY <1>2, <1>3, <1>4, <1>5, <1>6, <1>7, <1>9, <1>10, <1>11, <1>12, <1>13, <1>14, <1>15,
           <1>16, <1>17, LeaseEnds DEF Next, Loop, Spawn

-----------------------------------------------------------------------------
LEMMA MeshInit == Init => MeshInv
<1> SUFFICES ASSUME Init PROVE MeshInv
  OBVIOUS
<1>1. LockInv /\ TypeInv
  BY LockInit, TypeInit
<1>2. \A d \in Drivers : driver[d].at \in {"idle", "start"} /\ driver[d].batch = <<>>
  BY TwoDrivers DEF Init, Idle
<1>3. PlanInv
  BY <1>2 DEF Init, PlanInv
<1>4. \A k \in Tokens : fate[k] = "unminted"
  BY DEF Init, Leases!Init, Leases!Tokens, Tokens
<1>5. LeaseInv
  BY <1>2, <1>4 DEF LeaseInv, NoLeakedClaim, At
<1> QED BY <1>1, <1>3, <1>5 DEF MeshInv

LEMMA MeshStep == MeshInv /\ [Next]_vars => MeshInv'
BY LockStep, TypeStep, PlanStep, LeaseStep DEF MeshInv

LEMMA MeshAlways == Spec => []MeshInv
BY MeshInit, MeshStep, PTL DEF Spec

(* Every variable keeps its type, at every step of every driver, of the    *)
(* environment and of other blades: a driver has assignments exactly while *)
(* it spawns, and only live leases age.                                    *)
THEOREM DriversTypeCorrect == Spec => []TypeOK
<1>1. MeshInv => TypeOK
  BY TypeOKFromInv DEF MeshInv
<1> QED BY <1>1, MeshAlways, PTL

(* A node is only in a driver's batch when a driver has gone through each  *)
(* of its dependencies: the order of the plan survives every interleaving  *)
(* of the drivers, other blades' claims, store errors and crashes.         *)
THEOREM PlanOrderSurvives == Spec => []DependencyOrder
<1>1. MeshInv => DependencyOrder
  BY DEF MeshInv, PlanInv, DependencyOrder
<1> QED BY <1>1, MeshAlways, PTL

(* No step claims a node that was marked done before it, whichever driver  *)
(* marked it and however old the batch is.                                 *)
THEOREM DoneStaysDone == Spec => NeverRedispatched
<1>1. MeshInv => [\A d \in Drivers : Acquired(d) => node(d) \notin done]_vars
  <2> SUFFICES ASSUME MeshInv, NEW d \in Drivers, Acquired(d) PROVE node(d) \notin done
    OBVIOUS
  <2>1. At(d, Spawning)
    BY DEF Acquired, At, Spawning
  <2>2. 1 \in DOMAIN driver[d].batch /\ node(d) = driver[d].batch[1][1]
    BY <2>1, Heading DEF MeshInv, TypeInv
  <2> QED BY <2>2 DEF MeshInv, PlanInv
<1> QED BY <1>1, MeshAlways, PTL DEF NeverRedispatched

(* Without a store error or a crash, the only live leases of the           *)
(* application are those of blades at work: nothing is left for the reaper *)
(* to find, on any path out of spawn_blade.                                *)
THEOREM NoClaimIsLeaked == Spec => []NoLeakedClaim
<1>1. MeshInv => NoLeakedClaim
  BY DEF MeshInv, LeaseInv
<1> QED BY <1>1, MeshAlways, PTL
=============================================================================
