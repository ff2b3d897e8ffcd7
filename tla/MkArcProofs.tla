---------------------------- MODULE MkArcProofs ----------------------------
(***************************************************************************)
(* mkarc for any number of commands and any value of the option parallel.  *)
(***************************************************************************)
EXTENDS MkArc, FiniteSetTheorems, TLAPS

(* Commands get their turn in order.                                       *)
InTurn ==
    /\ \A j \in Job : state[j] = "idle" <=> j >= next
    /\ main \in {"drain", "exit"} => next = N + 1

(* A permit is held by each command that has been started and not ended,   *)
(* and by main between Acquire and the go statement.                       *)
Pending == IF main = "spawn" THEN 1 ELSE 0
Accounts ==
    /\ main # "exit" => taken = Cardinality(Started) + Pending
    /\ main = "exit" => Started = {}

(* The children before the one at hand succeeded, those after it did not   *)
(* start.                                                                  *)
Behind ==
    \A j \in Job : \A s \in 1 .. Last(j) :
        /\ s < stage[j] => outcome[j][s] = "ok"
        /\ s > stage[j] => outcome[j][s] = "none"

IInv == TypeOK /\ InTurn /\ Accounts /\ Behind
----------------------------------------------------------------------------
(* The set of started commands is finite.                                  *)
LEMMA StartedFinite ==
    IsFiniteSet(Started) /\ Cardinality(Started) \in Nat
<1>1. IsFiniteSet(Job)
    BY MkArcAssumption, FS_Interval DEF Job
<1>2. Started \subseteq Job
    BY DEF Started
<1> QED
    BY <1>1, <1>2, FS_Subset, FS_CardinalityType

(* The width of the semaphore is a natural number.                         *)
LEMMA WidthType == Width \in Nat
  BY MkArcAssumption DEF Width

(* Each command has at least one child.                                    *)
LEMMA LastType == \A j \in Job : Last(j) \in Nat \ {0}
  BY MkArcAssumption DEF Last

LEMMA InitIInv == Init => IInv
<1> SUFFICES ASSUME Init PROVE IInv
    OBVIOUS
<1> USE DEF Init
<1>1. TypeOK
    BY MkArcAssumption, WidthType, LastType DEF TypeOK, Job
<1>2. InTurn
    BY MkArcAssumption DEF InTurn, Job
<1>3. Started = {}
    BY DEF Started
<1>4. Accounts
    BY <1>3, FS_EmptySet DEF Accounts, Pending
<1>5. Behind
    BY MkArcAssumption, LastType DEF Behind
<1> QED
    BY <1>1, <1>2, <1>4, <1>5 DEF IInv

(* main takes a permit.                                                    *)
LEMMA AcquireKeeps == ASSUME IInv, Acquire PROVE IInv'
<1> USE DEF IInv, Acquire, Grants
<1>1. Started' = Started
    BY DEF Started
<1>2. TypeOK'
    BY WidthType, MkArcAssumption DEF TypeOK, Job
<1>3. InTurn'
    BY DEF InTurn
<1>4. Accounts'
    BY <1>1, StartedFinite DEF Accounts, Pending, TypeOK
<1>5. Behind'
    BY DEF Behind
<1> QED
    BY <1>2, <1>3, <1>4, <1>5

(* main hands the permit to a goroutine.                                   *)
LEMMA SpawnKeeps == ASSUME IInv, Spawn PROVE IInv'
<1> USE DEF IInv, Spawn
<1>1. next \in Job /\ N \in Nat /\ state[next] = "idle"
    BY MkArcAssumption DEF TypeOK, InTurn, Job
<1>2. Started' = Started \cup {next} /\ next \notin Started
    BY <1>1 DEF Started, TypeOK
<1>3. TypeOK'
    BY <1>1 DEF TypeOK, Job
<1>4. InTurn'
  <2>1. \A j \in Job : state'[j] = "idle" <=> j # next /\ state[j] = "idle"
      BY <1>1 DEF TypeOK
  <2> QED
      BY <1>1, <2>1 DEF InTurn, TypeOK, Job
<1>5. Cardinality(Started') = Cardinality(Started) + 1
    BY <1>2, StartedFinite, FS_AddElement
<1>6. Accounts'
    BY <1>5, StartedFinite DEF Accounts, Pending
<1>7. Behind'
    BY DEF Behind
<1> QED
    BY <1>3, <1>4, <1>6, <1>7

(* A child starts.                                                         *)
LEMMA StartChildKeeps ==
    ASSUME IInv, NEW j \in Job, main # "exit", StartChild(j) PROVE IInv'
<1> USE DEF IInv, StartChild
<1>1. Started' = Started
    BY DEF Started, TypeOK
<1>2. TypeOK'
    BY DEF TypeOK
<1>3. InTurn'
    BY DEF InTurn, TypeOK
<1>4. Accounts'
    BY <1>1 DEF Accounts, Pending
<1>5. Behind'
    BY DEF Behind
<1> QED
    BY <1>2, <1>3, <1>4, <1>5

(* A child ends: what is recorded for the others stays, and the next child *)
(* has its turn only when this one succeeded.                              *)
LEMMA ChildEndsKeeps ==
    ASSUME IInv, NEW j \in Job, main # "exit", ChildEnds(j) PROVE IInv'
<1> USE DEF IInv
<1> stage[j] \in Nat \ {0}
    BY DEF TypeOK
<1>1. /\ state[j] = "child"
      /\ state' \in [Job -> {"idle", "exec", "child", "ending", "gone"}]
      /\ state'[j] \in {"exec", "ending"}
      /\ \A i \in Job \ {j} : state'[i] = state[i] /\ stage'[i] = stage[i]
      /\ stage' \in [Job -> Nat \ {0}]
      /\ UNCHANGED <<main, next, taken>>
  <2>1. CASE UNCHANGED stage
      BY <2>1 DEF ChildEnds, TypeOK
  <2>2. CASE stage' = [stage EXCEPT ![j] = @ + 1]
    <3>1. stage[j] + 1 \in Nat \ {0}
        OBVIOUS
    <3> QED
        BY <2>2, <3>1 DEF ChildEnds, TypeOK
  <2> QED
      BY <2>1, <2>2 DEF ChildEnds
<1>2. Started' = Started
    BY <1>1 DEF Started
<1>3. PICK r \in {"ok", "failed"} :
        /\ outcome' = [outcome EXCEPT ![j][stage[j]] = r]
        /\ \/ stage'[j] = stage[j]
           \/ stage'[j] = stage[j] + 1 /\ stage[j] < Last(j) /\ r = "ok"
    BY DEF ChildEnds, TypeOK
<1>4. /\ DOMAIN outcome' = Job
      /\ \A i \in Job \ {j} : outcome'[i] = outcome[i]
      /\ outcome'[j] = [outcome[j] EXCEPT ![stage[j]] = r]
    BY <1>3 DEF TypeOK
<1>5. stage[j] \in 1 .. Last(j) /\ Last(j) \in Nat \ {0}
    BY LastType DEF TypeOK
<1>6. TypeOK'
  <2>1. \A i \in Job : stage'[i] <= Last(i)
    <3>1. stage'[j] <= Last(j)
        BY <1>3, <1>5
    <3>2. \A i \in Job : stage[i] <= Last(i)
        BY DEF TypeOK
    <3> QED
        BY <1>1, <3>1, <3>2
  <2>2. \A i \in Job : outcome'[i] \in [1 .. Last(i) -> {"none", "ok", "failed"}]
    <3>1. \A i \in Job : outcome[i] \in [1 .. Last(i) -> {"none", "ok", "failed"}]
        BY DEF TypeOK
    <3>2. outcome'[j] \in [1 .. Last(j) -> {"none", "ok", "failed"}]
        BY <1>4, <3>1
    <3> QED
        BY <1>4, <3>1, <3>2
  <2> QED
      BY <1>1, <1>4, <2>1, <2>2 DEF TypeOK
<1>7. InTurn'
    BY <1>1 DEF InTurn
<1>8. Accounts'
    BY <1>1, <1>2 DEF Accounts, Pending
<1>9. Behind'
  <2> SUFFICES ASSUME NEW i \in Job, NEW s \in 1 .. Last(i)
               PROVE  /\ s < stage'[i] => outcome'[i][s] = "ok"
                      /\ s > stage'[i] => outcome'[i][s] = "none"
      BY DEF Behind
  <2>1. CASE i # j
      BY <1>1, <1>4, <2>1 DEF Behind
  <2>2. CASE i = j
    <3>1. outcome'[j][s] = IF s = stage[j] THEN r ELSE outcome[j][s]
        BY <1>4, <1>5, <2>2 DEF TypeOK
    <3>2. s \in Int /\ stage[j] \in Int
        BY <1>5
    <3> QED
        BY <1>3, <3>1, <3>2, <2>2 DEF Behind
  <2> QED
      BY <2>1, <2>2
<1> QED
    BY <1>6, <1>7, <1>8, <1>9

(* A goroutine gives its permit back, whatever the outcome.                *)
LEMMA ReleaseKeeps ==
    ASSUME IInv, NEW j \in Job, main # "exit", Release(j) PROVE IInv'
<1> USE DEF IInv, Release
<1>1. Started' = Started \ {j} /\ j \in Started
    BY DEF Started, TypeOK
<1>2. /\ Cardinality(Started') = Cardinality(Started) - 1
      /\ Cardinality(Started') \in Nat
      /\ Cardinality(Started) \in Nat
  <2>1. IsFiniteSet(Started') /\ Cardinality(Started') = Cardinality(Started) - 1
      BY <1>1, StartedFinite, FS_RemoveElement
  <2> QED
      BY <2>1, FS_CardinalityType, StartedFinite
<1>3. taken - 1 \in 0 .. Width
    BY <1>2, WidthType DEF Accounts, Pending, TypeOK
<1>4. TypeOK'
    BY <1>3 DEF TypeOK
<1>5. InTurn'
    BY DEF InTurn, TypeOK
<1>6. Accounts'
    BY <1>2 DEF Accounts, Pending
<1>7. Behind'
    BY DEF Behind
<1> QED
    BY <1>4, <1>5, <1>6, <1>7

(* main has started everything.                                            *)
LEMMA DrainKeeps == ASSUME IInv, Drain PROVE IInv'
<1> USE DEF IInv, Drain
<1>1. Started' = Started
    BY DEF Started
<1>2. TypeOK'
    BY DEF TypeOK
<1>3. InTurn'
    BY MkArcAssumption DEF InTurn, TypeOK
<1>4. Accounts'
    BY <1>1 DEF Accounts, Pending
<1>5. Behind'
    BY DEF Behind
<1> QED
    BY <1>2, <1>3, <1>4, <1>5

(* main gets all the permits only when nobody holds one.                   *)
LEMMA ExitKeeps == ASSUME IInv, Exit PROVE IInv'
<1> USE DEF IInv, Exit, Grants
<1>1. taken = 0 /\ Cardinality(Started) = 0
    BY WidthType, StartedFinite DEF TypeOK, Accounts, Pending
<1>2. Started' = {}
    BY <1>1, StartedFinite, FS_EmptySet DEF Started
<1>3. TypeOK'
    BY <1>1, WidthType DEF TypeOK
<1>4. InTurn'
    BY DEF InTurn
<1>5. Accounts'
    BY <1>2 DEF Accounts
<1>6. Behind'
    BY DEF Behind
<1> QED
    BY <1>3, <1>4, <1>5, <1>6

(* Nothing changes.                                                        *)
LEMMA StutterKeeps == ASSUME IInv, UNCHANGED vars PROVE IInv'
  BY DEF IInv, vars, TypeOK, InTurn, Accounts, Pending, Started, Behind

LEMMA Inductive == Spec => []IInv
<1>1. IInv /\ [Next]_vars => IInv'
  <2> SUFFICES ASSUME IInv, [Next]_vars PROVE IInv'
      OBVIOUS
  <2>1. CASE Acquire
      BY <2>1, AcquireKeeps
  <2>2. CASE Spawn
      BY <2>2, SpawnKeeps
  <2>3. CASE Drain
      BY <2>3, DrainKeeps
  <2>4. CASE Exit
      BY <2>4, ExitKeeps
  <2>5. CASE Ended \/ UNCHANGED vars
      BY <2>5, StutterKeeps DEF Ended
  <2>6. ASSUME NEW j \in Job, Routine(j) PROVE IInv'
      BY <2>6, StartChildKeeps, ChildEndsKeeps, ReleaseKeeps DEF Routine
  <2> QED
      BY <2>1, <2>2, <2>3, <2>4, <2>5, <2>6 DEF Next
<1> QED
    BY <1>1, InitIInv, PTL DEF Spec
----------------------------------------------------------------------------
(* The semaphore never grants more than its width.                         *)
THEOREM TypeCorrect == Spec => []TypeOK
<1>1. IInv => TypeOK
    BY DEF IInv
<1> QED
    BY <1>1, Inductive, PTL

(* At most Width commands run at a time: each of them holds a permit.      *)
THEOREM Bounded == Spec => []AtMostTask
<1>1. IInv => AtMostTask
    BY StartedFinite, WidthType, FS_EmptySet
       DEF IInv, TypeOK, Accounts, Pending, AtMostTask
<1> QED
    BY <1>1, Inductive, PTL

(* mkarc returns after all the commands: its last Acquire is granted when  *)
(* no permit is left in the hands of a goroutine.                          *)
THEOREM Waits == Spec => []ExitWaits
<1>1. IInv => ExitWaits
  <2> SUFFICES ASSUME IInv, main = "exit", NEW j \in Job
               PROVE  state[j] = "gone"
      BY DEF ExitWaits
  <2>1. state[j] # "idle"
      BY MkArcAssumption DEF IInv, InTurn, Job
  <2>2. j \notin Started
      BY DEF IInv, Accounts
  <2> QED
      BY <2>1, <2>2 DEF IInv, TypeOK, Started
<1> QED
    BY <1>1, Inductive, PTL

(* No child runs after one that failed.                                    *)
THEOREM InOrder == Spec => []StagesInOrder
<1>1. IInv => StagesInOrder
  <2> SUFFICES ASSUME IInv, NEW j \in Job, NEW s \in 1 .. Last(j),
                      outcome[j][s] # "none", NEW r \in 1 .. s - 1
               PROVE  outcome[j][r] = "ok"
      BY DEF StagesInOrder
  <2>1. stage[j] \in Int /\ s \in Int /\ Last(j) \in Int
      BY LastType DEF IInv, TypeOK
  <2>2. s <= stage[j]
      BY <2>1 DEF IInv, Behind
  <2>3. r \in 1 .. Last(j) /\ r < stage[j]
      BY <2>1, <2>2
  <2> QED
      BY <2>3 DEF IInv, Behind
<1> QED
    BY <1>1, Inductive, PTL
============================================================================
