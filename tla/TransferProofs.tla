--------------------------- MODULE TransferProofs ---------------------------
(***************************************************************************)
(* Proofs about Transfer, for any number of directories, files, jobs and   *)
(* runs: the bound on workers, and that what is skipped or removed is on   *)
(* the server.                                                             *)
(*                                                                         *)
(* The argument: a file that was not changed in haste is, while a worker   *)
(* has it at hand, as it was when visited.  A copy under way or left half  *)
(* done is shorter than the file; when it is as long, it is the file.  A   *)
(* change gives the file a time past that of every copy.  So a copy of the *)
(* same size that is not older than the file is its copy.                  *)
(***************************************************************************)
EXTENDS Transfer, FiniteSetTheorems, TLAPS

PC == {"wait", "visit", "stat", "open", "send", "rest", "stamp", "close", "end"}

(* The type of the process alone, and of what workers know.                *)
LEMMA NameType == \A d \in Dir, f \in File :
                     Dest(d, f) \in Name /\ <<Remote[d][f], FALSE>> \in Name
<1> TAKE d \in Dir, f \in File
<1>1. Compress[d] \in BOOLEAN
    BY TransferAssumption
<1> DEFINE S == {Remote[c][g] : c \in Dir, g \in File}
<1>2. Remote[d][f] \in S
    OBVIOUS
<1>3. Name = S \X BOOLEAN
    BY DEF Name
<1> HIDE DEF S
<1>4. <<Remote[d][f], FALSE>> \in Name
    BY <1>2, <1>3
<1>5. Dest(d, f) \in Name
    BY <1>1, <1>2, <1>3 DEF Dest
<1> QED
    BY <1>4, <1>5

LEMMA SizeType == \A v \in Content : Size[v] \in Nat /\ Size[v] > 0
BY TransferAssumption

LEMMA ListingType == \A d \in Dir : \A i \in DOMAIN Listing[d] :
                        Listing[d][i] \in File /\ i \in Nat \ {0}
BY TransferAssumption

LEMMA BoundType == MaxClock \in Nat /\ MaxEdits \in Nat /\ MaxRuns \in Nat /\ MaxRuns > 0
BY TransferAssumption

(* Directories share no name.                                              *)
LEMMA OwnNames ==
    ASSUME NEW c \in Dir, NEW d \in Dir, NEW f \in File, NEW g \in File,
           Dest(c, f) = Dest(d, g)
    PROVE  c = d /\ f = g
BY TransferAssumption DEF Dest

LEMMA IdleType == Idle \in Worker
<1>1. (CHOOSE v \in Content : TRUE) \in Content
    BY TransferAssumption
<1> QED
    BY <1>1, BoundType DEF Idle, Worker, Time

LEMMA IdleWaits == /\ Idle.pc = "wait" /\ ~ Idle.failed /\ Idle.found = {}
                   /\ Idle.at = 0 /\ Idle.info.mtime = 0
BY DEF Idle

LEMMA AtType ==
    ASSUME TypeOK, NEW d \in Dir, w[d].at \in w[d].found
    PROVE  At(d) \in File
BY ListingType DEF TypeOK, Worker, At
----------------------------------------------------------------------------
(* Types.                                                                  *)
LEMMA TypeInit == Init => TypeOK
<1> SUFFICES ASSUME Init
             PROVE  TypeOK
    OBVIOUS
<1> USE DEF Init
<1>1. w \in [Dir -> Worker] /\ \A d \in Dir : w[d] = Idle
    BY IdleType
<1>2. 0 \in Time /\ 0 \in 0 .. MaxEdits /\ 1 \in 1 .. MaxRuns
    BY BoundType DEF Time
<1>3. local \in [File -> [body : Content, mtime : Time]]
    BY <1>2
<1>4. 1 \in 1 .. N + 1 /\ 0 \in Int /\ {} \subseteq Dir
    BY TransferAssumption
<1>5. remote \in [Name -> [body : Content \cup {Partial, Absent}, size : Nat, mtime : Time]]
    BY <1>2
<1> QED
    BY <1>1, <1>2, <1>3, <1>4, <1>5 DEF TypeOK, Idle

(* A step of the worker d changes its record as follows.                   *)
LEMMA WorkerType ==
    ASSUME TypeOK, NEW d \in Dir, NEW r \in Worker, Becomes(d, r),
           r.found \subseteq DOMAIN Listing[d],
           r.pc \notin {"wait", "visit", "end"} => r.at \in r.found
    PROVE  /\ w' \in [Dir -> Worker]
           /\ \A c \in Dir :
                /\ w'[c].found \subseteq DOMAIN Listing[c]
                /\ w'[c].pc \notin {"wait", "visit", "end"} => w'[c].at \in w'[c].found
BY DEF TypeOK, Becomes

LEMMA RemoteType ==
    ASSUME TypeOK, NEW d \in Dir, w[d].at \in w[d].found,
           NEW b \in Content \cup {Partial, Absent}, NEW s \in Nat, Write(d, b, s)
    PROVE  remote' \in [Name -> [body : Content \cup {Partial, Absent},
                                 size : Nat, mtime : Time]]
BY AtType, NameType DEF Write, TypeOK, To

LEMMA StepType ==
    ASSUME TypeOK, NEW d \in Dir, Step(d)
    PROVE  TypeOK'
<1> USE DEF TypeOK
<1>0. /\ w[d] \in Worker /\ w[d].found \subseteq DOMAIN Listing[d]
      /\ w[d].pc \notin {"wait", "visit", "end"} => w[d].at \in w[d].found
      /\ UNCHANGED <<outside, process, pool>>
    BY DEF Step
<1> USE <1>0 DEF outside, process, pool, tree
<1> DEFINE Kept(r) == /\ r.found \subseteq DOMAIN Listing[d]
                      /\ r.pc \notin {"wait", "visit", "end"} => r.at \in r.found
<1>a. ASSUME NEW pc \in PC, pc \notin {"wait", "visit", "end"} => w[d].at \in w[d].found
      PROVE  [w[d] EXCEPT !.pc = pc] \in Worker /\ Kept([w[d] EXCEPT !.pc = pc])
    BY <1>a DEF Worker, PC
<1>b. ASSUME NEW pc \in PC, pc \notin {"wait", "visit", "end"} => w[d].at \in w[d].found,
             Goto(d, pc)
      PROVE  /\ w' \in [Dir -> Worker]
             /\ \A c \in Dir :
                  /\ w'[c].found \subseteq DOMAIN Listing[c]
                  /\ w'[c].pc \notin {"wait", "visit", "end"} => w'[c].at \in w'[c].found
    BY <1>a, <1>b, WorkerType DEF Goto
<1>c. CASE Start(d)
    <2> DEFINE r == [w[d] EXCEPT !.pc = "visit",
                                 !.found = {i \in DOMAIN Listing[d] : here[Listing[d][i]]}]
    <2>1. r \in Worker /\ Kept(r) /\ Becomes(d, r)
        BY <1>c, ListingType DEF Start, Worker
    <2>2. live' \in [Dir -> BOOLEAN]
        BY <1>c DEF Start
    <2> HIDE DEF r
    <2> QED
        BY <1>c, <2>1, <2>2, WorkerType DEF Start
<1>d. ASSUME Fail(d)
      PROVE  /\ w' \in [Dir -> Worker]
             /\ \A c \in Dir :
                  /\ w'[c].found \subseteq DOMAIN Listing[c]
                  /\ w'[c].pc \notin {"wait", "visit", "end"} => w'[c].at \in w'[c].found
    <2> DEFINE r == [w[d] EXCEPT !.pc = "end", !.failed = TRUE]
    <2>1. r \in Worker /\ Kept(r) /\ Becomes(d, r)
        BY <1>d DEF Fail, Worker
    <2> HIDE DEF r
    <2> QED
        BY <2>1, WorkerType
<1>e. CASE ConnectFails(d)
    BY <1>e, <1>d DEF ConnectFails
<1>f. CASE Visit(d)
    <2> PICK i \in Left(d) : Becomes(d, Seen(d, i))
        BY <1>f DEF Visit
    <2> DEFINE f == Listing[d][i]
    <2>1. f \in File /\ i \in w[d].found /\ i \in Nat
        BY ListingType DEF Left, Worker
    <2>2. Size[local[f].body] \in Nat /\ local[f].mtime \in Time
        BY <2>1, SizeType
    <2>3. Seen(d, i) \in Worker /\ Kept(Seen(d, i))
        BY <2>1, <2>2 DEF Seen, Worker
    <2> QED
        BY <1>f, <2>3, WorkerType DEF Visit
<1>g. CASE VisitFails(d)
    BY <1>g, <1>d DEF VisitFails
<1>h. CASE Skip(d)
    BY <1>h, <1>b DEF Skip, PC
<1>i. CASE Differs(d)
    BY <1>i, <1>b DEF Differs, PC
<1>j. CASE OpenRemote(d)
    <2>1. w[d].at \in w[d].found
        BY <1>j DEF OpenRemote
    <2> QED
        BY <1>j, <2>1, <1>b, RemoteType DEF OpenRemote, PC
<1>k. CASE SendFirst(d)
    <2>1. w[d].at \in w[d].found /\ At(d) \in File
        BY <1>k, AtType DEF SendFirst
    <2> DEFINE r == [w[d] EXCEPT !.pc = "rest", !.read = local[At(d)].body]
    <2>2. r \in Worker /\ Kept(r) /\ Becomes(d, r)
        BY <1>k, <2>1 DEF SendFirst, Worker
    <2>3. PICK n \in 0 .. Size[local[At(d)].body] - 1 :
               Write(d, Partial, IF n < remote[To(d)].size THEN remote[To(d)].size ELSE n)
        BY <1>k DEF SendFirst
    <2>4. n \in Nat
        BY <2>1, SizeType
    <2>4a. remote[To(d)].size \in Nat
        BY <2>1, NameType DEF To
    <2>5. (IF n < remote[To(d)].size THEN remote[To(d)].size ELSE n) \in Nat
        BY <2>4, <2>4a
    <2>6. remote' \in [Name -> [body : Content \cup {Partial, Absent},
                                size : Nat, mtime : Time]]
        BY <2>1, <2>3, <2>5, RemoteType
    <2> HIDE DEF r
    <2> QED
        BY <1>k, <2>2, <2>6, WorkerType DEF SendFirst
<1>l. CASE SendRest(d)
    <2>1. w[d].at \in w[d].found /\ At(d) \in File
        BY <1>l, AtType DEF SendRest
    <2> DEFINE now == local[At(d)].body
               r == [w[d] EXCEPT !.pc = "stamp",
                                 !.logged = IF Size[now] = w[d].info.size THEN @
                                            ELSE @ \cup {At(d)}]
    <2>2. r \in Worker /\ Kept(r) /\ Becomes(d, r)
        BY <1>l, <2>1 DEF SendRest, Worker
    <2>3. PICK b \in Content \cup {Partial} : Write(d, b, Size[now])
        BY <1>l, <2>1 DEF SendRest
    <2>4. Size[now] \in Nat
        BY <2>1, SizeType
    <2>5. remote' \in [Name -> [body : Content \cup {Partial, Absent},
                                size : Nat, mtime : Time]]
        BY <2>1, <2>3, <2>4, RemoteType
    <2> HIDE DEF r
    <2> QED
        BY <1>l, <2>2, <2>5, WorkerType DEF SendRest
<1>m. CASE SendFails(d)
    <2>1. w[d].at \in w[d].found /\ At(d) \in File
        BY <1>m, AtType DEF SendFails
    <2> DEFINE r == [w[d] EXCEPT !.pc = IF @ = "open" THEN "close" ELSE "stamp",
                                 !.logged = @ \cup {At(d)}]
    <2>2. r \in Worker /\ Kept(r) /\ Becomes(d, r)
        BY <1>m, <2>1 DEF SendFails, Worker
    <2> HIDE DEF r
    <2> QED
        BY <1>m, <2>2, WorkerType DEF SendFails
<1>n. CASE Stamp(d)
    <2>1. w[d].at \in w[d].found /\ At(d) \in File
        BY <1>n, AtType DEF Stamp
    <2>2. w[d].info.mtime \in Time /\ To(d) \in Name
        BY <2>1, NameType DEF Worker, To
    <2>3. remote' \in [Name -> [body : Content \cup {Partial, Absent},
                                size : Nat, mtime : Time]]
        BY <1>n, <2>2 DEF Stamp
    <2> QED
        BY <1>n, <1>b, <2>1, <2>3 DEF Stamp, PC
<1>o. CASE Close(d)
    <2>1. w[d].at \in w[d].found /\ At(d) \in File
        BY <1>o, AtType DEF Close
    <2>2. here' \in [File -> BOOLEAN]
        BY <1>o, <2>1 DEF Close
    <2> QED
        BY <1>o, <1>b, <2>2 DEF Close, PC
<1>p. CASE EndDir(d)
    BY <1>p, <1>b DEF EndDir, PC
<1> QED
    BY <1>c, <1>e, <1>f, <1>g, <1>h, <1>i, <1>j, <1>k, <1>l, <1>m, <1>n, <1>o, <1>p DEF Step

LEMMA TypeNext == TypeOK /\ [Next]_vars => TypeOK'
<1> SUFFICES ASSUME TypeOK, [Next]_vars
             PROVE  TypeOK'
    OBVIOUS
<1> USE DEF tree, outside, process, pool
<1>1. ASSUME NEW d \in Dir, Step(d)
      PROVE  TypeOK'
    BY <1>1, StepType
<1>2. ASSUME NEW d \in Dir, Breaks(d), UNCHANGED <<outside, process, pool>>
      PROVE  TypeOK'
    BY <1>2 DEF Breaks, TypeOK
<1>3. CASE Exit
    BY <1>3 DEF Exit, TypeOK
<1>4. CASE Kill
    BY <1>4 DEF Kill, TypeOK
<1>5. CASE Rerun
    <2>1. run' \in 1 .. MaxRuns
        BY <1>5, BoundType DEF Rerun, TypeOK
    <2>2. w' \in [Dir -> Worker] /\ \A d \in Dir : w'[d] = Idle
        BY <1>5, IdleType DEF Rerun
    <2> QED
        BY <1>5, <2>1, <2>2, TransferAssumption DEF Rerun, TypeOK, Idle, Worker
<1>6. CASE Tick
    BY <1>6, BoundType DEF Tick, TypeOK, Time
<1>7. ASSUME NEW f \in File, Edit(f)
      PROVE  TypeOK'
    BY <1>7, BoundType DEF Edit, TypeOK
<1>8. CASE UNCHANGED vars
    BY <1>8 DEF vars, TypeOK
<1>9. CASE Acquire
    <2>1. next \in Dir /\ next' \in 1 .. N + 1
        BY <1>9, TransferAssumption DEF Acquire, TypeOK, Dir
    <2> QED
        BY <1>9, <2>1 DEF Acquire, TypeOK
<1>10. ASSUME NEW d \in Dir, Release(d)
       PROVE  TypeOK'
    BY <1>10 DEF Release, TypeOK
<1> QED
    BY <1>1, <1>2, <1>3, <1>4, <1>5, <1>6, <1>7, <1>8, <1>9, <1>10 DEF Next

(* Type correctness, for any directories, files and runs.                  *)
THEOREM TypeCorrect == Spec => []TypeOK
BY TypeInit, TypeNext, PTL DEF Spec
----------------------------------------------------------------------------
(* The permits of multiJobs: one is taken for each goroutine that runs; a  *)
(* directory after the loop's has no worker yet, and one whose goroutine   *)
(* is gone has none any more.                                              *)
Permits ==
    /\ \A d \in Dir : d >= next => d \notin spawned /\ w[d].pc = "wait"
    /\ \A d \in Dir : d < next /\ d \notin spawned => w[d].pc = "end"
    /\ taken = Cardinality(spawned)
    /\ taken <= Jobs

(* The bound on workers.                                                   *)
Turns ==
    /\ \A d \in Dir : w[d].failed => w[d].pc = "end"
    /\ Single => \A c, d \in Dir :
         c < d /\ w[d].pc # "wait" => w[c].pc = "end" /\ ~ w[c].failed
    /\ ~ Single => Permits
    /\ main = "exited" => \/ \A d \in Dir : w[d].pc = "end"
                          \/ Single /\ \E d \in Dir : w[d].failed

(* What a worker does: it leaves the others alone, it starts when it may,  *)
(* and it does nothing more once it ended.                                 *)
LEMMA OwnStep ==
    ASSUME TypeOK, NEW d \in Dir, Step(d)
    PROVE  /\ \A c \in Dir \ {d} : w'[c] = w[c]
           /\ w[d].pc = "wait" => MayStart(d)
           /\ w[d].pc # "end" /\ w'[d].pc # "wait"
           /\ w'[d].failed => w'[d].pc = "end" \/ w[d].failed
           /\ ~ Visit(d) => w'[d].info = w[d].info /\ w'[d].at = w[d].at
           /\ ~ Start(d) => w'[d].found = w[d].found
           /\ w[d].logged \subseteq w'[d].logged
           /\ w'[d].pc = "end" /\ ~ w'[d].failed => EndDir(d)
           /\ main = "running" /\ main' = "running"
<1>1. w \in [Dir -> Worker]
    BY DEF TypeOK
<1> DEFINE Fact == /\ \A c \in Dir \ {d} : w'[c] = w[c]
                   /\ w[d].pc = "wait" => MayStart(d)
                   /\ w[d].pc # "end" /\ w'[d].pc # "wait"
                   /\ w'[d].failed => w'[d].pc = "end" \/ w[d].failed
                   /\ ~ Visit(d) => w'[d].info = w[d].info /\ w'[d].at = w[d].at
                   /\ ~ Start(d) => w'[d].found = w[d].found
                   /\ w[d].logged \subseteq w'[d].logged
                   /\ w'[d].pc = "end" /\ ~ w'[d].failed => EndDir(d)
<1>2. main = "running" /\ main' = "running"
    BY DEF Step, process
<1> SUFFICES Fact
    BY <1>2
<1> USE <1>1 DEF Becomes, Goto, Fail, Worker
<1>3. CASE Start(d)
    BY <1>3 DEF Start
<1>4. CASE ConnectFails(d)
    BY <1>4 DEF ConnectFails
<1>5. CASE Visit(d)
    <2> PICK i \in Left(d) : Becomes(d, Seen(d, i))
        BY <1>5 DEF Visit
    <2>1. /\ Seen(d, i).pc \notin {"wait", "end"} /\ Seen(d, i).failed = w[d].failed
          /\ Seen(d, i).found = w[d].found /\ Seen(d, i).logged = w[d].logged
        BY DEF Seen
    <2> HIDE DEF Goto, Fail
    <2> QED
        BY <1>5, <2>1 DEF Visit
<1>6. CASE VisitFails(d)
    BY <1>6 DEF VisitFails
<1>7. CASE Skip(d)
    BY <1>7 DEF Skip
<1>8. CASE Differs(d)
    BY <1>8 DEF Differs
<1>9. CASE OpenRemote(d)
    BY <1>9 DEF OpenRemote
<1>10. CASE SendFirst(d)
    BY <1>10 DEF SendFirst
<1>11. CASE SendRest(d)
    BY <1>11 DEF SendRest
<1>12. CASE SendFails(d)
    BY <1>12 DEF SendFails
<1>13. CASE Stamp(d)
    BY <1>13 DEF Stamp
<1>14. CASE Close(d)
    BY <1>14 DEF Close
<1>15. CASE EndDir(d)
    BY <1>15 DEF EndDir
<1> QED
    BY <1>3, <1>4, <1>5, <1>6, <1>7, <1>8, <1>9, <1>10, <1>11, <1>12, <1>13, <1>14,
       <1>15 DEF Step

LEMMA SpawnedFinite ==
    ASSUME TypeOK
    PROVE  /\ IsFiniteSet(spawned)
           /\ Cardinality(spawned) \in Nat
           /\ spawned \subseteq Dir
<1>1. IsFiniteSet(Dir)
    BY TransferAssumption, FS_Interval DEF Dir
<1>2. spawned \subseteq Dir
    BY DEF TypeOK
<1> QED
    BY <1>1, <1>2, FS_Subset, FS_CardinalityType

LEMMA TurnsInit == Init => Turns
<1> SUFFICES ASSUME Init
             PROVE  Turns
    OBVIOUS
<1>1. \A d \in Dir : w[d] = Idle
    BY DEF Init
<1>2. ASSUME ~ Single PROVE Permits
    <2>1. \A d \in Dir : w[d].pc = "wait" /\ ~ (d < 1)
        BY <1>1, IdleWaits DEF Dir
    <2>2. Jobs > 1
        BY <1>2, TransferAssumption DEF Single
    <2> QED
        BY <2>1, <2>2, FS_EmptySet, TransferAssumption DEF Init, Permits
<1> QED
    BY <1>1, <1>2, IdleWaits DEF Init, Turns

LEMMA TurnsNext == TypeOK /\ Turns /\ [Next]_vars => Turns'
<1> SUFFICES ASSUME TypeOK, Turns, [Next]_vars
             PROVE  Turns'
    OBVIOUS
<1>0. /\ next \in Int /\ taken \in Int /\ Jobs \in Int /\ N \in Nat
      /\ \A d \in Dir : d \in Int /\ 1 <= d /\ d <= N
    BY TransferAssumption DEF TypeOK, Dir
<1>1. ASSUME NEW d \in Dir, Step(d)
      PROVE  Turns'
    <2> USE <1>1, OwnStep
    <2>1. \A c \in Dir : w'[c].failed => w'[c].pc = "end"
        BY DEF Turns
    <2>2. ASSUME Single, NEW b \in Dir, NEW c \in Dir, b < c, w'[c].pc # "wait"
          PROVE  w'[b].pc = "end" /\ ~ w'[b].failed
        <3>1. CASE c = d
            <4>1. b # d /\ b \in 1 .. d - 1
                BY <2>2, <3>1 DEF Dir
            <4> QED
                BY <2>2, <3>1, <4>1 DEF Turns, MayStart
        <3>2. CASE c # d
            BY <2>2, <3>2 DEF Turns
        <3> QED
            BY <3>1, <3>2
    <2>3. ASSUME ~ Single
          PROVE  Permits'
        <3>1. UNCHANGED pool /\ Permits
            BY <2>3 DEF Step, Turns
        <3>2. d \in spawned /\ d < next
            BY <1>0, <2>3, <3>1 DEF Permits, MayStart
        <3> QED
            BY <1>0, <3>1, <3>2 DEF Permits, pool
    <2> QED
        BY <2>1, <2>2, <2>3 DEF Turns, Single
<1>2. CASE UNCHANGED <<main, pool, w>>
    BY <1>2 DEF Turns, Permits, pool, Single
<1>3. CASE Exit
    <2>1. UNCHANGED <<pool, w>>
        BY <1>3 DEF Exit
    <2>2. ASSUME ~ Single, NEW d \in Dir PROVE w[d].pc = "end"
        <3>1. next > N /\ taken <= 0 /\ Permits
            BY <1>0, <1>3, <2>2 DEF Exit, Grants, Turns
        <3>2. spawned = {}
            BY <1>0, <3>1, SpawnedFinite, FS_EmptySet DEF Permits
        <3> QED
            BY <1>0, <3>1, <3>2 DEF Permits
    <2> QED
        BY <1>3, <2>1, <2>2 DEF Exit, Turns, Permits, pool, Single
<1>4. CASE Kill
    BY <1>4 DEF Kill, Turns, Permits, pool, Single
<1>5. CASE Rerun
    <2>1. \A d \in Dir : w'[d] = Idle
        BY <1>5 DEF Rerun
    <2>2. ASSUME ~ Single PROVE Permits'
        <3>1. \A d \in Dir : w'[d].pc = "wait" /\ ~ (d < 1)
            BY <2>1, IdleWaits DEF Dir
        <3>2. Jobs > 1
            BY <2>2, TransferAssumption DEF Single
        <3> QED
            BY <1>5, <3>1, <3>2, FS_EmptySet, TransferAssumption DEF Rerun, Permits
    <2> QED
        BY <1>5, <2>1, <2>2, IdleWaits DEF Rerun, Turns, Single
<1>6. ASSUME NEW f \in File, Edit(f)
      PROVE  UNCHANGED <<main, pool, w>>
    BY <1>6 DEF Edit, process
<1>7. CASE Tick
    BY <1>7, <1>2 DEF Tick, process
<1>8. CASE Acquire
    <2>1. /\ ~ Single /\ Permits /\ next <= N /\ taken + 1 <= Jobs
          /\ taken' = taken + 1 /\ next' = next + 1
          /\ spawned' = spawned \cup {next} /\ UNCHANGED <<main, w>>
        BY <1>8 DEF Acquire, Grants, Turns, process
    <2>2. next \in Dir /\ next \notin spawned
        BY <1>0, <2>1 DEF Permits, Dir, TypeOK
    <2>3. Cardinality(spawned') = Cardinality(spawned) + 1
        BY <2>1, <2>2, SpawnedFinite, FS_AddElement
    <2>4. Permits'
        BY <1>0, <2>1, <2>2, <2>3 DEF Permits
    <2> QED
        BY <2>1, <2>4 DEF Turns, Single
<1>9. ASSUME NEW d \in Dir, Release(d)
      PROVE  Turns'
    <2>1. /\ d \in spawned /\ w[d].pc = "end" /\ taken' = taken - 1
          /\ spawned' = spawned \ {d} /\ UNCHANGED <<main, next, w>>
        BY <1>9 DEF Release, process
    <2>2. Cardinality(spawned') = Cardinality(spawned) - 1
        BY <2>1, SpawnedFinite, FS_RemoveElement
    <2>3. ~ Single => Permits'
        BY <1>0, <2>1, <2>2 DEF Permits, Turns
    <2> QED
        BY <2>1, <2>3 DEF Turns, Single
<1> QED
    BY <1>1, <1>2, <1>3, <1>4, <1>5, <1>6, <1>7, <1>8, <1>9
    DEF Next, vars, Breaks, process

(* No more workers than jobs run at a time, and none is left when secop    *)
(* returns: the workers that run hold the permits that are taken           *)
(* (multiJobs, singleJob).                                                 *)
THEOREM Bounded == Spec => []AtMostJobs
<1>1. TypeOK /\ Turns => AtMostJobs
  <2> SUFFICES ASSUME TypeOK, Turns
               PROVE  AtMostJobs
      OBVIOUS
  <2>1. ASSUME Single
        PROVE  Cardinality(Active) <= 1
    <3>1. \A c, d \in Active : c = d
        BY <2>1 DEF Turns, Active, Dir
    <3>2. CASE Active = {}
        BY <3>2, FS_EmptySet
    <3>3. CASE Active # {}
        <4> PICK d \in Active : TRUE
            BY <3>3
        <4>1. Active = {d}
            BY <3>1
        <4> QED
            BY <4>1, FS_Singleton
    <3> QED
        BY <3>2, <3>3
  <2>2. ASSUME main = "exited"
        PROVE  Active = {}
    <3>1. CASE \A d \in Dir : w[d].pc = "end"
        BY <3>1 DEF Active
    <3>2. ASSUME Single, NEW d \in Dir, w[d].failed
          PROVE  Active = {}
      <4>1. \A c \in Dir : c < d \/ c = d \/ d < c
          BY DEF Dir
      <4> QED
          BY <3>2, <4>1 DEF Turns, Active
    <3> QED
        BY <2>2, <3>1, <3>2 DEF Turns
  <2>3. ASSUME ~ Single
        PROVE  Cardinality(Active) <= Jobs
    <3>1. /\ Jobs \in Int /\ next \in Int /\ taken \in Int
          /\ \A d \in Dir : d \in Int
        BY TransferAssumption DEF TypeOK, Dir
    <3>2. Active \subseteq spawned
        BY <2>3, <3>1 DEF Active, Turns, Permits
    <3>3. Cardinality(Active) <= Cardinality(spawned) /\ Cardinality(Active) \in Nat
        BY <3>2, SpawnedFinite, FS_Subset, FS_CardinalityType
    <3> QED
        BY <2>3, <3>1, <3>3, SpawnedFinite DEF Turns, Permits
  <2> QED
      BY <2>1, <2>2, <2>3 DEF AtMostJobs, Turns
<1> QED
    BY <1>1, TypeInit, TypeNext, TurnsInit, TurnsNext, PTL DEF Spec
----------------------------------------------------------------------------
(* What is on the server.  Whole: the copy is the file as it is; Short: it *)
(* is not as long.                                                         *)
Whole(d, f) == remote[Dest(d, f)].body = local[f].body
Short(d, f) == remote[Dest(d, f)].size # Size[local[f].body]

Busy == {"stat", "open", "send", "rest", "stamp", "close"}

(* No time is ahead of the clock.                                          *)
Clocked ==
    /\ \A f \in File : local[f].mtime <= clock
    /\ \A n \in Name : remote[n].mtime <= clock
    /\ \A d \in Dir : w[d].info.mtime <= clock

(* A copy as long as the file and not older is the file.                   *)
Twin(d, f) ==
    /\ f \notin hasty /\ ~ Compress[d]
    /\ remote[Dest(d, f)].body # Absent /\ ~ Short(d, f)
    /\ local[f].mtime <= remote[Dest(d, f)].mtime
    => Whole(d, f)

(* What is known of the file at hand, step by step.                        *)
InHand(d, f) ==
    main = "running" /\ w[d].pc \in Busy /\ At(d) = f /\ f \notin hasty =>
        /\ w[d].info = [size |-> Size[local[f].body], mtime |-> local[f].mtime]
        /\ ~ Compress[d] =>
             /\ w[d].pc = "send" => remote[Dest(d, f)].size = 0
             /\ w[d].pc = "rest" => w[d].read = local[f].body /\ Short(d, f)
             /\ w[d].pc = "stamp" => Whole(d, f) \/ Short(d, f)
             /\ w[d].pc \in {"stamp", "close"} => f \in w[d].logged \/ Whole(d, f)

(* What the walk has been through is on the server, or was logged.         *)
Behind(d, i) ==
    \/ i < w[d].at
    \/ i = w[d].at /\ w[d].pc \in {"visit", "end"}

Done(d, i) ==
    main # "killed" /\ i \in w[d].found /\ Behind(d, i) /\ ~ Compress[d] =>
        \/ Listing[d][i] \in w[d].logged \cup hasty \cup touched
        \/ Whole(d, Listing[d][i])

(* A walk begins before the first file, and ends without error behind the  *)
(* last.                                                                   *)
Walk(d) ==
    /\ w[d].pc = "wait" => w[d].at = 0
    /\ w[d].pc = "end" /\ ~ w[d].failed => \A i \in w[d].found : i <= w[d].at

Part(d) ==
    /\ \A f \in File : Twin(d, f) /\ InHand(d, f)
    /\ \A i \in DOMAIN Listing[d] : Done(d, i)
    /\ Walk(d)

Good == Clocked /\ \A d \in Dir : Part(d)

(* The only copy that a worker touches is that of the file at hand.        *)
LEMMA Touches ==
    ASSUME TypeOK, NEW d \in Dir, Step(d)
    PROVE  /\ \A n \in Name : remote'[n] # remote[n] => n = To(d) /\ w[d].at \in w[d].found
           /\ UNCHANGED <<local, clock, edits, hasty, touched, main, run>>
<1>1. remote \in [Name -> [body : Content \cup {Partial, Absent}, size : Nat, mtime : Time]]
    BY DEF TypeOK
<1>2. /\ UNCHANGED <<clock, edits, hasty, touched, main, run>>
    BY DEF Step, outside, process
<1>3. w[d].pc \notin {"wait", "visit", "end"} => w[d].at \in w[d].found
    BY DEF TypeOK
<1>4. CASE UNCHANGED <<remote, local>>
    BY <1>2, <1>4
<1>5. CASE OpenRemote(d) \/ SendFirst(d) \/ SendRest(d) \/ Stamp(d)
    <2>1. UNCHANGED local /\ w[d].at \in w[d].found
        BY <1>5, <1>3 DEF OpenRemote, SendFirst, SendRest, Stamp, tree
    <2>2. \A n \in Name : remote'[n] # remote[n] => n = To(d)
        BY <1>5, <1>1 DEF OpenRemote, SendFirst, SendRest, Stamp, Write
    <2> QED
        BY <1>2, <2>1, <2>2
<1> QED
    BY <1>4, <1>5 DEF Step, Start, ConnectFails, Visit, VisitFails, Skip, Differs, SendFails, Close,
                      EndDir, tree

LEMMA Elsewhere ==
    ASSUME TypeOK, NEW d \in Dir, Step(d), NEW c \in Dir \ {d}, Part(c)
    PROVE  Part(c)'
<1>1. /\ w'[c] = w[c] /\ UNCHANGED <<local, hasty, touched, main>>
      /\ main = "running"
    BY OwnStep, Touches
<1>2. \A g \in File : remote'[Dest(c, g)] = remote[Dest(c, g)]
    <2> SUFFICES ASSUME NEW g \in File, remote'[Dest(c, g)] # remote[Dest(c, g)]
                 PROVE  FALSE
        OBVIOUS
    <2>1. Dest(c, g) = To(d) /\ At(d) \in File
        BY NameType, Touches, AtType
    <2> QED
        BY <2>1, OwnNames DEF To
<1>3. \A i \in DOMAIN Listing[c] : Listing[c][i] \in File
    BY ListingType
<1>4. ASSUME NEW f \in File
      PROVE  Twin(c, f)' /\ InHand(c, f)'
    BY <1>1, <1>2 DEF Part, Twin, InHand, Whole, Short, At, Dest
<1>5. ASSUME NEW i \in DOMAIN Listing[c]
      PROVE  Done(c, i)'
    BY <1>1, <1>2, <1>3 DEF Part, Done, Whole, Behind, Dest
<1>6. Walk(c)'
    BY <1>1 DEF Part, Walk
<1> QED
    BY <1>4, <1>5, <1>6 DEF Part

(* The times of what a worker writes.                                      *)
LEMMA ClockStep ==
    ASSUME TypeOK, Clocked, NEW d \in Dir, Step(d)
    PROVE  Clocked'
<1>1. clock \in Int /\ clock' = clock /\ local' = local
    BY BoundType, Touches DEF TypeOK, Time
<1>2. \A n \in Name : remote[n].mtime \in Int
    BY BoundType DEF TypeOK, Time
<1>3. ASSUME NEW n \in Name
      PROVE  remote'[n].mtime <= clock
    <2>1. CASE remote'[n] = remote[n]
        BY <2>1 DEF Clocked
    <2>2. CASE OpenRemote(d) \/ SendFirst(d) \/ SendRest(d)
        <3>1. \/ remote'[n] = remote[n]
              \/ remote'[n].mtime = clock
            BY <2>2 DEF OpenRemote, SendFirst, SendRest, Write, TypeOK
        <3> QED
            BY <3>1, <1>1 DEF Clocked
    <2>3. CASE Stamp(d)
        <3>1. \/ remote'[n] = remote[n]
              \/ remote'[n].mtime = w[d].info.mtime
            BY <2>3 DEF Stamp, TypeOK
        <3> QED
            BY <3>1 DEF Clocked
    <2> QED
        BY <2>1, <2>2, <2>3 DEF Step, Start, ConnectFails, Visit, VisitFails, Skip, Differs,
                                SendFails, Close, EndDir, tree
<1>4. ASSUME NEW c \in Dir
      PROVE  w'[c].info.mtime <= clock
    <2>1. CASE w'[c].info = w[c].info
        BY <2>1 DEF Clocked
    <2>2. CASE c = d /\ Visit(d)
        <3> PICK i \in Left(d) : Becomes(d, Seen(d, i))
            BY <2>2 DEF Visit
        <3>1. w'[d].info.mtime = local[Listing[d][i]].mtime /\ Listing[d][i] \in File
            <4>1. w[d] \in Worker /\ w'[d] = Seen(d, i)
                BY DEF TypeOK, Becomes
            <4>2. Seen(d, i).info.mtime = local[Listing[d][i]].mtime
                BY <4>1 DEF Seen, Worker
            <4>3. i \in DOMAIN Listing[d]
                BY DEF Left, TypeOK
            <4> QED
                BY <4>1, <4>2, <4>3, ListingType
        <3> QED
            BY <2>2, <3>1 DEF Clocked
    <2>3. CASE c = d /\ ~ Visit(d)
        BY <2>1, <2>3, OwnStep
    <2> QED
        BY <2>1, <2>2, <2>3, OwnStep
<1> QED
    BY <1>1, <1>3, <1>4 DEF Clocked

(* How the steps of a transfer change the copy.                            *)
LEMMA Transfers ==
    ASSUME TypeOK, Good, NEW d \in Dir, Step(d), At(d) \notin hasty, ~ Compress[d]
    PROVE  /\ OpenRemote(d) => /\ remote'[To(d)].size = 0
                               /\ w'[d].pc = "send"
           /\ SendFirst(d) => /\ remote'[To(d)].size # Size[local[At(d)].body]
                              /\ w'[d].pc = "rest" /\ w'[d].read = local[At(d)].body
           /\ SendRest(d) => /\ remote'[To(d)].body = local[At(d)].body
                             /\ w'[d].pc = "stamp"
           /\ Stamp(d) => /\ remote'[To(d)].size = remote[To(d)].size
                          /\ remote'[To(d)].body = remote[To(d)].body
                          /\ w'[d].pc = "close"
<1>1. /\ w[d] \in Worker /\ w \in [Dir -> Worker] /\ main = "running"
      /\ remote \in [Name -> [body : Content \cup {Partial, Absent}, size : Nat, mtime : Time]]
      /\ w[d].pc \notin {"wait", "visit", "end"} => w[d].at \in w[d].found
    BY OwnStep DEF TypeOK
<1>2. w[d].at \in w[d].found => At(d) \in File /\ To(d) \in Name
    BY AtType, NameType DEF To
<1> USE <1>1, <1>2
<1>3. ASSUME OpenRemote(d)
      PROVE  remote'[To(d)].size = 0 /\ w'[d].pc = "send"
    BY <1>3 DEF OpenRemote, Write, Goto, Becomes, Worker
<1>4. ASSUME SendFirst(d)
      PROVE  /\ remote'[To(d)].size # Size[local[At(d)].body]
             /\ w'[d].pc = "rest" /\ w'[d].read = local[At(d)].body
    <2>1. w[d].pc = "send" /\ At(d) \in File /\ To(d) \in Name
        BY <1>4 DEF SendFirst
    <2>2. remote[To(d)].size = 0
        BY <2>1 DEF Good, Part, InHand, Busy, To
    <2>3. PICK n \in 0 .. Size[local[At(d)].body] - 1 :
               Write(d, Partial, IF n < remote[To(d)].size THEN remote[To(d)].size ELSE n)
        BY <1>4 DEF SendFirst
    <2>4. Size[local[At(d)].body] \in Nat
        BY <2>1, SizeType DEF TypeOK
    <2>5. remote'[To(d)].size = n
        BY <2>1, <2>2, <2>3, <2>4 DEF Write
    <2>6. w'[d].pc = "rest" /\ w'[d].read = local[At(d)].body
        BY <1>4 DEF SendFirst, Becomes, Worker
    <2> QED
        BY <2>4, <2>5, <2>6
<1>5. ASSUME SendRest(d)
      PROVE  remote'[To(d)].body = local[At(d)].body /\ w'[d].pc = "stamp"
    <2>1. w[d].pc = "rest" /\ At(d) \in File /\ To(d) \in Name
        BY <1>5 DEF SendRest
    <2>2. w[d].read = local[At(d)].body
        BY <2>1 DEF Good, Part, InHand, Busy
    <2>3. Write(d, local[At(d)].body, Size[local[At(d)].body])
        BY <1>5, <2>2 DEF SendRest
    <2>4. remote'[To(d)].body = local[At(d)].body
        BY <2>1, <2>3 DEF Write
    <2>5. w'[d].pc = "stamp"
        BY <1>5 DEF SendRest, Becomes, Worker
    <2> QED
        BY <2>4, <2>5
<1>6. ASSUME Stamp(d)
      PROVE  /\ remote'[To(d)].size = remote[To(d)].size
             /\ remote'[To(d)].body = remote[To(d)].body
             /\ w'[d].pc = "close"
    <2>1. w'[d].pc = "close" /\ To(d) \in Name
        BY <1>6 DEF Stamp, Goto, Becomes, Worker
    <2> QED
        BY <1>6, <2>1 DEF Stamp
<1> QED
    BY <1>3, <1>4, <1>5, <1>6

LEMMA OwnTwin ==
    ASSUME TypeOK, Good, NEW d \in Dir, Step(d), NEW f \in File
    PROVE  Twin(d, f)'
<1>1. Twin(d, f)
    BY DEF Good, Part
<1>2. UNCHANGED <<local, hasty>> /\ Dest(d, f) \in Name
    BY Touches, NameType
<1>3. CASE remote'[Dest(d, f)] = remote[Dest(d, f)]
    BY <1>1, <1>2, <1>3 DEF Twin, Whole, Short, Dest
<1>4. CASE remote'[Dest(d, f)] # remote[Dest(d, f)]
    <2> SUFFICES ASSUME f \notin hasty, ~ Compress[d]
                 PROVE  Whole(d, f)' \/ Short(d, f)'
        BY <1>2 DEF Twin
    <2>1. Dest(d, f) = To(d) /\ At(d) = f
        BY <1>2, <1>4, Touches, AtType, OwnNames DEF To
    <2>2. Size[local[f].body] # 0
        BY SizeType DEF TypeOK
    <2>3. CASE OpenRemote(d) \/ SendFirst(d)
        BY <1>2, <2>1, <2>2, <2>3, Transfers DEF Short, Dest
    <2>4. CASE SendRest(d)
        BY <1>2, <2>1, <2>4, Transfers DEF Whole, Dest
    <2>5. CASE Stamp(d)
        <3>1. w[d].pc = "stamp" /\ main = "running"
            BY <2>5, OwnStep DEF Stamp
        <3>2. Whole(d, f) \/ Short(d, f)
            BY <3>1, <2>1 DEF Good, Part, InHand, Busy
        <3> QED
            BY <1>2, <2>1, <2>5, <3>2, Transfers DEF Whole, Short, Dest
    <2> QED
        BY <1>4, <2>3, <2>4, <2>5 DEF Step, Start, ConnectFails, Visit, VisitFails, Skip, Differs,
                                     SendFails, Close, EndDir, tree
<1> QED
    BY <1>3, <1>4

LEMMA OwnHand ==
    ASSUME TypeOK, Good, NEW d \in Dir, Step(d), NEW f \in File
    PROVE  InHand(d, f)'
<1> SUFFICES ASSUME w'[d].pc \in Busy, Listing[d][w'[d].at] = f, f \notin hasty
             PROVE  /\ w'[d].info = [size |-> Size[local[f].body], mtime |-> local[f].mtime]
                    /\ ~ Compress[d] =>
                         /\ w'[d].pc = "send" => remote'[Dest(d, f)].size = 0
                         /\ w'[d].pc = "rest" =>
                              w'[d].read = local[f].body /\ Short(d, f)'
                         /\ w'[d].pc = "stamp" => Whole(d, f)' \/ Short(d, f)'
                         /\ w'[d].pc \in {"stamp", "close"} =>
                              f \in w'[d].logged \/ Whole(d, f)'
    BY Touches DEF InHand, At, Dest
<1>1. /\ w[d] \in Worker /\ w \in [Dir -> Worker] /\ UNCHANGED local
      /\ main = "running" /\ w[d].logged \subseteq w'[d].logged
    BY OwnStep, Touches DEF TypeOK
<1>2. CASE Visit(d)
    <2> PICK i \in Left(d) : Becomes(d, Seen(d, i))
        BY <1>2 DEF Visit
    <2>1. w'[d] = Seen(d, i)
        BY <1>1 DEF Becomes
    <2>2. /\ w'[d].at = i /\ w'[d].pc \in {"open", "stat"}
          /\ w'[d].info = [size |-> Size[local[Listing[d][i]].body],
                           mtime |-> local[Listing[d][i]].mtime]
        BY <1>1, <2>1 DEF Seen, Worker
    <2> QED
        BY <2>2
<1>3. ASSUME ~ Visit(d), w[d].pc \in Busy
      PROVE  /\ At(d) = f /\ To(d) = Dest(d, f) /\ w'[d].info = w[d].info
             /\ InHand(d, f) /\ Twin(d, f)
             /\ w[d].info = [size |-> Size[local[f].body], mtime |-> local[f].mtime]
    BY <1>1, <1>3, OwnStep DEF At, To, Good, Part, InHand
<1>4. CASE Skip(d)
    <2>1. w[d].pc = "stat" /\ w'[d].pc = "close" /\ UNCHANGED remote
        BY <1>1, <1>4 DEF Skip, Goto, Becomes, Worker
    <2>2. ~ Visit(d)
        BY <2>1 DEF Visit
    <2>3. ASSUME ~ Compress[d]
          PROVE  Whole(d, f)
        <3>1. Compress[d] = FALSE
            BY <2>3, TransferAssumption
        <3>2. Dest(d, f) = <<Remote[d][f], FALSE>> /\ Dest(d, f) \in Name
            BY <3>1, NameType DEF Dest
        <3>3. LET r == remote[Dest(d, f)]
              IN  /\ r.body # Absent /\ Size[local[f].body] = r.size
                  /\ local[f].mtime = r.mtime
            BY <1>3, <1>4, <2>1, <2>2, <3>2 DEF Skip, Same, Busy
        <3>4. local[f].mtime \in Int
            BY BoundType DEF TypeOK, Time
        <3> QED
            BY <1>3, <2>1, <2>2, <2>3, <3>3, <3>4 DEF Twin, Short, Busy
    <2> QED
        BY <1>1, <1>3, <2>1, <2>2, <2>3 DEF Busy, Whole, Dest
<1>5. CASE Differs(d)
    <2>1. w[d].pc = "stat" /\ w'[d].pc = "open"
        BY <1>1, <1>5 DEF Differs, Goto, Becomes, Worker
    <2> QED
        BY <1>3, <2>1 DEF Busy, Visit
<1>6. CASE OpenRemote(d)
    <2>1. w[d].pc = "open"
        BY <1>6 DEF OpenRemote
    <2>2. w'[d].pc = "send"
        BY <1>1, <1>6 DEF OpenRemote, Goto, Becomes, Worker
    <2> QED
        BY <1>3, <1>6, <2>1, <2>2, Transfers DEF Busy, Visit
<1>7. CASE SendFirst(d)
    <2>1. w[d].pc = "send"
        BY <1>7 DEF SendFirst
    <2>2. w'[d].pc = "rest"
        BY <1>1, <1>7 DEF SendFirst, Becomes, Worker
    <2> QED
        BY <1>1, <1>3, <1>7, <2>1, <2>2, Transfers DEF Busy, Visit, Short, Dest
<1>8. CASE SendRest(d)
    <2>1. w[d].pc = "rest"
        BY <1>8 DEF SendRest
    <2>2. w'[d].pc = "stamp"
        BY <1>1, <1>8 DEF SendRest, Becomes, Worker
    <2> QED
        BY <1>1, <1>3, <1>8, <2>1, <2>2, Transfers DEF Busy, Visit, Whole, Dest
<1>9. CASE SendFails(d)
    <2>1. w[d].pc \in {"open", "send", "rest"} /\ UNCHANGED remote
        BY <1>9 DEF SendFails
    <2>2. /\ w'[d].pc = IF w[d].pc = "open" THEN "close" ELSE "stamp"
          /\ At(d) \in w'[d].logged
        BY <1>1, <1>9 DEF SendFails, Becomes, Worker
    <2>3. ~ Visit(d) /\ w[d].pc \in Busy
        BY <2>1 DEF Visit, Busy
    <2>4. Size[local[f].body] # 0
        BY SizeType DEF TypeOK
    <2>5. w'[d].pc = "stamp" /\ ~ Compress[d] => Short(d, f)
        BY <1>1, <1>3, <2>1, <2>2, <2>3, <2>4 DEF InHand, Short
    <2> QED
        BY <1>1, <1>3, <2>1, <2>2, <2>3, <2>5 DEF Short, Dest
<1>10. CASE Stamp(d)
    <2>1. w[d].pc = "stamp"
        BY <1>10 DEF Stamp
    <2>2. w'[d].pc = "close"
        BY <1>1, <1>10 DEF Stamp, Goto, Becomes, Worker
    <2>3. ~ Visit(d) /\ w[d].pc \in Busy
        BY <2>1 DEF Visit, Busy
    <2>4. ~ Compress[d] => f \in w[d].logged \/ Whole(d, f)
        BY <1>1, <1>3, <2>1, <2>3 DEF InHand
    <2> QED
        BY <1>1, <1>3, <1>10, <2>2, <2>3, <2>4, Transfers DEF Whole, Dest
<1>11. CASE Start(d) \/ ConnectFails(d) \/ VisitFails(d) \/ Close(d) \/ EndDir(d)
    <2>1. CASE Start(d)
        BY <1>1, <2>1 DEF Start, Becomes, Worker, Busy
    <2>2. CASE Fail(d)
        BY <1>1, <2>2 DEF Fail, Becomes, Worker, Busy
    <2>3. CASE Close(d) \/ EndDir(d)
        BY <1>1, <2>3 DEF Close, EndDir, Goto, Becomes, Worker, Busy
    <2> QED
        BY <1>11, <2>1, <2>2, <2>3 DEF ConnectFails, VisitFails
<1> QED
    BY <1>2, <1>4, <1>5, <1>6, <1>7, <1>8, <1>9, <1>10, <1>11 DEF Step

LEMMA OwnWalk ==
    ASSUME TypeOK, Good, NEW d \in Dir, Step(d)
    PROVE  Walk(d)'
<1>1. w[d] \in Worker /\ w \in [Dir -> Worker] /\ Walk(d)
    BY DEF TypeOK, Good, Part
<1>2. w'[d].pc # "wait"
    BY OwnStep
<1>3. ASSUME w'[d].pc = "end", ~ w'[d].failed
      PROVE  \A i \in w'[d].found : i <= w'[d].at
    <2>1. EndDir(d)
        BY <1>3, OwnStep
    <2>2. w'[d].found = w[d].found /\ w'[d].at = w[d].at /\ Left(d) = {}
        BY <1>1, <2>1 DEF EndDir, Goto, Becomes, Worker
    <2>3. \A i \in w[d].found : i \in Nat /\ w[d].at \in Nat
        BY <1>1 DEF Worker
    <2> QED
        BY <2>2, <2>3 DEF Left
<1> QED
    BY <1>2, <1>3 DEF Walk

LEMMA OwnDone ==
    ASSUME TypeOK, Good, NEW d \in Dir, Step(d), NEW i \in DOMAIN Listing[d]
    PROVE  Done(d, i)'
<1> DEFINE f == Listing[d][i]
<1> SUFFICES ASSUME i \in w'[d].found, Behind(d, i)', ~ Compress[d],
                    f \notin w'[d].logged \cup hasty \cup touched
             PROVE  Whole(d, f)'
    BY Touches DEF Done
<1>1. /\ w[d] \in Worker /\ w'[d] \in Worker /\ w \in [Dir -> Worker]
      /\ f \in File /\ i \in Nat \ {0}
      /\ UNCHANGED <<local, hasty, touched, main>> /\ main = "running"
      /\ w[d].logged \subseteq w'[d].logged
    BY OwnStep, Touches, ListingType, StepType DEF TypeOK
<1>2. w[d].at \in Nat /\ w'[d].at \in Nat
    BY <1>1 DEF Worker
<1>3. ASSUME Behind(d, i), i \in w[d].found, w[d].pc \in Busy => i # w[d].at
      PROVE  Whole(d, f)'
    <2>1. Whole(d, f)
        BY <1>1, <1>3 DEF Good, Part, Done
    <2>2. remote'[Dest(d, f)] = remote[Dest(d, f)]
        <3> SUFFICES ASSUME remote'[Dest(d, f)] # remote[Dest(d, f)]
                     PROVE  FALSE
            OBVIOUS
        <3>1. Dest(d, f) = To(d) /\ w[d].at \in w[d].found /\ At(d) \in File
            BY <1>1, NameType, Touches, AtType
        <3>2. At(d) = f
            BY <1>1, <3>1, OwnNames DEF To
        <3>3. w[d].at = i
            BY <3>1, <3>2, TransferAssumption DEF At, TypeOK
        <3>4. w[d].pc \in {"open", "send", "rest", "stamp"} \/ UNCHANGED remote
            BY DEF Step, Start, ConnectFails, Visit, VisitFails, Skip, Differs, OpenRemote,
                   SendFirst, SendRest, SendFails, Stamp, Close, EndDir
        <3> QED
            BY <1>3, <3>3, <3>4 DEF Busy
    <2> QED
        BY <1>1, <2>1, <2>2 DEF Whole, Dest
<1>4. CASE Start(d)
    <2>1. w[d].at = 0 /\ w'[d].at = 0
        BY <1>1, <1>4, OwnStep DEF Start, Good, Part, Walk, Visit
    <2> QED
        BY <1>1, <2>1 DEF Behind
<1>5. CASE Visit(d)
    <2> PICK k \in Left(d) : /\ \A j \in Left(d) : k <= j
                             /\ Becomes(d, Seen(d, k))
        BY <1>5 DEF Visit
    <2>1. /\ w'[d].at = k /\ w'[d].pc \in {"open", "stat"} /\ w'[d].found = w[d].found
          /\ w[d].pc = "visit" /\ k \in Nat
        BY <1>1, <1>5 DEF Seen, Becomes, Worker, Visit, Left
    <2>2. i < k
        BY <2>1 DEF Behind
    <2>3. ~ (i > w[d].at)
        BY <1>1, <1>2, <2>1, <2>2 DEF Left
    <2>4. Behind(d, i)
        BY <1>1, <1>2, <2>1, <2>3 DEF Behind
    <2> QED
        BY <1>3, <2>1, <2>4 DEF Busy
<1>6. CASE Close(d)
    <2>1. /\ w[d].pc = "close" /\ w'[d].at = w[d].at /\ w'[d].found = w[d].found
          /\ UNCHANGED remote
        BY <1>6, OwnStep DEF Close, Visit, Start
    <2>2. CASE i = w[d].at
        <3>1. InHand(d, f) /\ At(d) = f
            BY <1>1, <2>2 DEF Good, Part, At
        <3> QED
            BY <1>1, <2>1, <3>1 DEF InHand, Busy, Whole, Dest
    <2>3. CASE i # w[d].at
        BY <1>3, <2>1, <2>3 DEF Behind
    <2> QED
        BY <2>2, <2>3
<1>7. CASE ConnectFails(d) \/ VisitFails(d) \/ EndDir(d)
    <2>1. /\ w[d].pc \in {"wait", "visit"} /\ w'[d].at = w[d].at /\ w'[d].found = w[d].found
        <3>1. CASE Fail(d)
            BY <1>1, <1>7, <3>1 DEF ConnectFails, VisitFails, EndDir, Fail, Becomes, Worker
        <3>2. CASE Goto(d, "end")
            BY <1>1, <1>7, <3>2 DEF ConnectFails, VisitFails, EndDir, Goto, Becomes, Worker
        <3> QED
            BY <1>7, <3>1, <3>2 DEF ConnectFails, VisitFails, EndDir
    <2>2. w[d].pc = "wait" => w[d].at = 0
        BY DEF Good, Part, Walk
    <2>3. Behind(d, i)
        BY <1>1, <2>1, <2>2 DEF Behind
    <2> QED
        BY <1>3, <2>1, <2>3 DEF Busy
<1>8. CASE Skip(d) \/ Differs(d) \/ OpenRemote(d) \/ SendFirst(d) \/ SendRest(d)
             \/ SendFails(d) \/ Stamp(d)
    <2>1. w[d].pc \in Busy /\ w'[d].pc \in Busy
        <3>1. CASE Skip(d) \/ Differs(d) \/ OpenRemote(d) \/ Stamp(d)
            BY <1>1, <3>1 DEF Skip, Differs, OpenRemote, Stamp, Goto, Becomes, Worker, Busy
        <3>2. CASE SendFirst(d) \/ SendRest(d)
            <4>1. CASE SendFirst(d)
                BY <1>1, <4>1 DEF SendFirst, Becomes, Worker, Busy
            <4>2. CASE SendRest(d)
                BY <1>1, <4>2 DEF SendRest, Becomes, Worker, Busy
            <4> QED
                BY <3>2, <4>1, <4>2
        <3>3. CASE SendFails(d)
            BY <1>1, <3>3 DEF SendFails, Becomes, Worker, Busy
        <3> QED
            BY <1>8, <3>1, <3>2, <3>3
    <2>2. w'[d].at = w[d].at /\ w'[d].found = w[d].found
        BY <2>1, OwnStep DEF Visit, Start, Busy
    <2>3. i < w[d].at
        BY <2>1, <2>2 DEF Behind, Busy
    <2> QED
        BY <1>2, <1>1, <1>3, <2>2, <2>3 DEF Behind
<1> QED
    BY <1>4, <1>5, <1>6, <1>7, <1>8 DEF Step

(* Workers that begin know nothing yet.                                    *)
LEMMA Begins ==
    ASSUME NEW d \in Dir, w[d] = Idle
    PROVE  /\ \A f \in File : InHand(d, f)
           /\ \A i \in DOMAIN Listing[d] : Done(d, i)
           /\ Walk(d) /\ w[d].info.mtime = 0
BY IdleWaits DEF InHand, Done, Walk, Busy

LEMMA GoodInit == Init => Good
<1> SUFFICES ASSUME Init
             PROVE  Good
    OBVIOUS
<1>1. \A d \in Dir : w[d] = Idle
    BY DEF Init
<1>2. \A n \in Name : remote[n].body = Absent /\ remote[n].mtime = 0
    BY DEF Init
<1>3. \A f \in File : local[f].mtime = 0
    BY DEF Init
<1>4. Clocked
    BY <1>1, <1>2, <1>3, Begins DEF Clocked, Init
<1>5. \A d \in Dir, f \in File : Twin(d, f)
    BY <1>2, NameType DEF Twin
<1> QED
    BY <1>1, <1>4, <1>5, Begins DEF Good, Part

LEMMA EditGood ==
    ASSUME TypeOK, Good, NEW e \in File, Edit(e)
    PROVE  Good'
<1>1. PICK v \in Content : local' = [local EXCEPT ![e] = [body |-> v, mtime |-> clock]]
    BY DEF Edit
<1>2. /\ UNCHANGED <<remote, clock, main, w>> /\ hasty \subseteq hasty' /\ touched' = touched \cup {e}
      /\ local'[e].mtime = clock /\ \A f \in File \ {e} : local'[f] = local[f]
    BY <1>1 DEF Edit, process, TypeOK
<1>3. clock \in Int /\ \A n \in Name : remote[n].mtime \in Int
    BY BoundType DEF TypeOK, Time
<1>4. Clocked'
    BY <1>2, <1>3 DEF Good, Clocked
<1>5. ASSUME NEW d \in Dir, NEW f \in File
      PROVE  Twin(d, f)'
    <2>1. CASE f # e
        BY <1>2, <2>1 DEF Good, Part, Twin, Whole, Short, Dest
    <2>2. CASE f = e /\ e \in hasty'
        BY <2>2 DEF Twin
    <2>3. CASE f = e /\ e \notin hasty'
        <3>1. remote[Dest(d, e)].body = Absent \/ remote[Dest(d, e)].mtime # clock
            BY <2>3 DEF Edit
        <3>2. remote[Dest(d, e)].mtime <= clock /\ Dest(d, e) \in Name
            BY NameType DEF Good, Clocked
        <3>3. remote[Dest(d, e)].mtime \in Int
            BY <1>3, <3>2
        <3>4. remote[Dest(d, e)].body = Absent \/ ~ (clock <= remote[Dest(d, e)].mtime)
            BY <1>3, <3>1, <3>2, <3>3
        <3> QED
            BY <1>2, <2>3, <3>4 DEF Twin, Dest
    <2> QED
        BY <2>1, <2>2, <2>3
<1>6. ASSUME NEW d \in Dir, NEW f \in File
      PROVE  InHand(d, f)'
    <2>1. CASE f # e
        BY <1>2, <2>1 DEF Good, Part, InHand, Whole, Short, Dest, At
    <2>2. CASE f = e
        <3> SUFFICES ASSUME main = "running", w[d].pc \in Busy, At(d) = e
                     PROVE  e \in hasty'
            BY <1>2, <2>2 DEF InHand, At
        <3>1. d \in Active /\ w[d].pc # "visit"
            BY DEF Active, Busy
        <3> QED
            BY <3>1 DEF Edit
    <2> QED
        BY <2>1, <2>2
<1>7. ASSUME NEW d \in Dir, NEW i \in DOMAIN Listing[d]
      PROVE  Done(d, i)'
    <2>1. CASE Listing[d][i] = e
        BY <1>2, <2>1 DEF Done
    <2>2. CASE Listing[d][i] # e
        <3>1. Listing[d][i] \in File \ {e}
            BY <2>2, ListingType
        <3> QED
            BY <1>2, <3>1 DEF Good, Part, Done, Behind, Whole, Dest
    <2> QED
        BY <2>1, <2>2
<1>8. \A d \in Dir : Walk(d)'
    BY <1>2 DEF Good, Part, Walk
<1> QED
    BY <1>4, <1>5, <1>6, <1>7, <1>8 DEF Good, Part

LEMMA GoodNext == TypeOK /\ Good /\ [Next]_vars => Good'
<1> SUFFICES ASSUME TypeOK, Good, [Next]_vars
             PROVE  Good'
    OBVIOUS
<1>1. ASSUME NEW d \in Dir, Step(d)
      PROVE  Good'
    <2>1. Clocked'
        BY <1>1, ClockStep DEF Good
    <2>2. Part(d)'
        BY <1>1, OwnTwin, OwnHand, OwnDone, OwnWalk DEF Part
    <2>3. \A c \in Dir \ {d} : Part(c)'
        BY <1>1, Elsewhere DEF Good
    <2> QED
        BY <2>1, <2>2, <2>3 DEF Good
<1>2. CASE UNCHANGED <<local, remote, clock, hasty, touched, main, w>>
    BY <1>2 DEF Good, Clocked, Part, Twin, InHand, Done, Behind, Walk, Whole, Short, At, Dest
<1>3. CASE Exit \/ Kill
    <2>1. UNCHANGED <<local, remote, clock, hasty, touched, w>> /\ main = "running"
          /\ main' \in {"exited", "killed"}
        BY <1>3 DEF Exit, Kill, tree, outside
    <2> QED
        BY <2>1 DEF Good, Clocked, Part, Twin, InHand, Done, Behind, Walk, Whole, Short, At, Dest
<1>4. CASE Rerun
    <2>1. UNCHANGED <<local, remote, clock, hasty>> /\ \A d \in Dir : w'[d] = Idle
        BY <1>4 DEF Rerun, tree
    <2>2. \A d \in Dir : /\ \A f \in File : InHand(d, f)'
                         /\ \A i \in DOMAIN Listing[d] : Done(d, i)'
                         /\ Walk(d)' /\ w'[d].info.mtime = 0
        BY <2>1, IdleWaits DEF InHand, Done, Walk, Busy
    <2>3. \A d \in Dir, f \in File : Twin(d, f)'
        BY <2>1 DEF Good, Part, Twin, Whole, Short, Dest
    <2>4. Clocked'
        BY <2>1, <2>2, BoundType DEF Good, Clocked, TypeOK, Time
    <2> QED
        BY <2>2, <2>3, <2>4 DEF Good, Part
<1>5. CASE Tick
    <2>1. UNCHANGED <<local, remote, hasty, touched, main, w>> /\ clock' = clock + 1
        BY <1>5 DEF Tick, tree, process
    <2>2. \A d \in Dir : Part(d)'
        BY <2>1 DEF Good, Part, Twin, InHand, Done, Behind, Walk, Whole, Short, At, Dest
    <2>3. /\ clock \in Int /\ \A f \in File : local[f].mtime \in Int
          /\ \A n \in Name : remote[n].mtime \in Int
          /\ \A d \in Dir : w[d].info.mtime \in Int
        BY BoundType DEF TypeOK, Time, Worker
    <2>4. Clocked'
        BY <2>1, <2>3 DEF Good, Clocked
    <2> QED
        BY <2>2, <2>4 DEF Good
<1> QED
    BY <1>1, <1>2, <1>3, <1>4, <1>5, EditGood
    DEF Next, vars, Breaks, Acquire, Release, tree, outside, process

LEMMA Always == Spec => [](TypeOK /\ Turns /\ Good)
BY TypeInit, TypeNext, TurnsInit, TurnsNext, GoodInit, GoodNext, PTL DEF Spec

(* A copy with the size and the time of a file holds the same (Client.Copy *)
(* skips the file for that).                                               *)
THEOREM Twins == Spec => []TwinsAreEqual
<1>1. TypeOK /\ Good => TwinsAreEqual
  <2> SUFFICES ASSUME TypeOK, Good, NEW d \in Dir, NEW f \in File \ hasty, ~ Compress[d],
                      remote[Dest(d, f)].body # Absent,
                      remote[Dest(d, f)].size = Size[local[f].body],
                      remote[Dest(d, f)].mtime = local[f].mtime
               PROVE  Whole(d, f)
      BY DEF TwinsAreEqual, Whole
  <2>1. local[f].mtime \in Int
      BY BoundType DEF TypeOK, Time
  <2> QED
      BY <2>1 DEF Good, Part, Twin, Short
<1> QED
    BY <1>1, Always, PTL

(* A file is removed only when the server has it or its transfer was       *)
(* logged, but for hasty changes and compressed copies.                    *)
THEOREM Removed == Spec => RemovedIsStored
<1>1. TypeOK /\ Good /\ [Next]_vars =>
        [\A f \in File : here[f] /\ ~ here'[f] =>
            \E d \in Dir :
                /\ w[d].pc = "close" /\ At(d) = f /\ ~ Keep[d]
                /\ \/ Stored(d, f) \/ f \in w[d].logged
                   \/ f \in hasty \/ Compress[d]]_vars
  <2> SUFFICES ASSUME TypeOK, Good, Next, NEW f \in File, here[f], ~ here'[f]
               PROVE  \E d \in Dir :
                        /\ w[d].pc = "close" /\ At(d) = f /\ ~ Keep[d]
                        /\ \/ Stored(d, f) \/ f \in w[d].logged
                           \/ f \in hasty \/ Compress[d]
      OBVIOUS
  <2>1. ASSUME NEW d \in Dir, Step(d)
        PROVE  /\ w[d].pc = "close" /\ At(d) = f /\ ~ Keep[d]
               /\ \/ Stored(d, f) \/ f \in w[d].logged
                  \/ f \in hasty \/ Compress[d]
    <3>1. Close(d)
        BY <2>1 DEF Step, Start, ConnectFails, Visit, VisitFails, Skip, Differs, OpenRemote,
                    SendFirst, SendRest, SendFails, Stamp, EndDir, tree
    <3>2. w[d].pc = "close" /\ At(d) = f /\ ~ Keep[d]
        BY <3>1 DEF Close, Removes, TypeOK
    <3>3. InHand(d, f) /\ main = "running"
        BY <2>1, OwnStep DEF Good, Part
    <3> QED
        BY <3>2, <3>3 DEF InHand, Busy, Whole, Stored
  <2>2. CASE \E d \in Dir : Step(d)
      BY <2>1, <2>2
  <2> QED
      BY <2>2 DEF Next, Breaks, Acquire, Release, Exit, Kill, Rerun, Tick, Edit, tree
<1> QED
    BY <1>1, Always, PTL DEF Spec, RemovedIsStored

(* A run that logs nothing and ends without error has brought all that it  *)
(* listed to the server (Client.Copy, copy).                               *)
THEOREM Quiet == Spec => []QuietRunStores
<1>1. TypeOK /\ Turns /\ Good => QuietRunStores
  <2> SUFFICES ASSUME TypeOK, Turns, Good, main = "exited", \A d \in Dir : ~ w[d].failed,
                      NEW d \in Dir, NEW f \in File \ (w[d].logged \cup touched \cup hasty),
                      ~ Compress[d], NEW i \in w[d].found, Listing[d][i] = f
               PROVE  Stored(d, f)
      BY DEF QuietRunStores
  <2>1. w[d].pc = "end" /\ ~ w[d].failed
      BY DEF Turns
  <2>2. i <= w[d].at /\ i \in DOMAIN Listing[d] /\ i \in Nat /\ w[d].at \in Nat
      BY <2>1, ListingType DEF Good, Part, Walk, TypeOK, Worker
  <2>3. Behind(d, i)
      BY <2>1, <2>2 DEF Behind
  <2>4. Done(d, i)
      BY <2>2 DEF Good, Part
  <2> QED
      BY <2>3, <2>4 DEF Done, Whole, Stored
<1> QED
    BY <1>1, Always, PTL
============================================================================
