------------------------ MODULE ArchiveConsistency -------------------------
(***************************************************************************)
(* What the archive holds when items have places of their own: the          *)
(* documents of a first run are right, and a run without an error leaves a *)
(* consistent archive.                                                     *)
(***************************************************************************)
EXTENDS ArchiveProofs

(* What the archive should hold for the item.                              *)
Held(i) == IF i \in Linked THEN body[Original(Origin[i])]
                           ELSE body[<<Target[i], 0>>]

(* What is at a place is what its item put there: a link to its source, or *)
(* a file of its own; and only the latter is ever written.                 *)
OwnEntry(i) ==
    entry[Target[i]].kind # "none" =>
        /\ i \in Created =>
             entry[Target[i]] = [kind |-> "file", ino |-> <<Target[i], 0>>]
        /\ i \in Linked /\ LinkKind[i] = "hard" =>
             /\ entry[Target[i]].kind = "file"
             /\ \E g \in 0 .. gen[Origin[i]] :
                  entry[Target[i]].ino = <<Origin[i], g>>
        /\ i \in Linked /\ LinkKind[i] = "soft" =>
             entry[Target[i]] = [kind |-> "sym", ino |-> <<Origin[i], 0>>]

OwnFile(c) ==
    pc[c] = "fill" => Here(c) \in Created /\ fd[c] = <<Place(c), 0>>

Owned ==
    /\ \A i \in Item : OwnEntry(i)
    /\ \A c \in Command : OwnFile(c)

LEMMA SteadyHolds ==
    ASSUME TypeOK, Owned, NEW i \in Item, entry[Target[i]].kind # "none",
           Steady(i)
    PROVE  Holds(Target[i], Held(i))
<1>0. OwnEntry(i)
  BY DEF Owned
<1>1. CASE i \in Created
  <2>1. entry[Target[i]].kind = "file" /\ entry[Target[i]].ino = <<Target[i], 0>>
    BY <1>0, <1>1 DEF OwnEntry
  <2>2. i \notin Linked
    BY <1>1, Kinds
  <2>3. QED
    BY <2>1, <2>2 DEF Holds, Held, Readable, Opened
<1>2. CASE i \in Linked /\ LinkKind[i] = "soft"
  <2>1. entry[Target[i]].kind = "sym" /\ entry[Target[i]].ino = <<Origin[i], 0>>
    BY <1>0, <1>2 DEF OwnEntry
  <2>2. QED
    BY <1>2, <2>1 DEF Holds, Held, Readable, Opened
<1>3. CASE i \in Linked /\ LinkKind[i] = "hard" /\ gen[Origin[i]] = 0
  <2>1. entry[Target[i]].kind = "file" /\ entry[Target[i]].ino = <<Origin[i], 0>>
    BY <1>0, <1>3 DEF OwnEntry
  <2>2. QED
    BY <1>3, <2>1 DEF Holds, Held, Readable, Opened, Original
<1>4. QED
  BY <1>1, <1>2, <1>3, Kinds DEF Steady

LEMMA TruncateOwn ==
    ASSUME TypeOK, Owned, NEW d \in Command, Truncate(d)
    PROVE  /\ Here(d) \in Item
           /\ Here(d) \in Created
           /\ Place(d) \in Path
           /\ body' = [body EXCEPT ![<<Place(d), 0>>] = Partial]
           /\ fd' = [fd EXCEPT ![d] = <<Place(d), 0>>]
<1>1. /\ Here(d) \in Item
      /\ Here(d) \in Created
      /\ Place(d) \in Path
  BY HereType DEF Truncate, Busy
<1>2. Readable(Place(d)) => Opened(Place(d)) = <<Place(d), 0>>
  <2>1. OwnEntry(Here(d))
    BY <1>1 DEF Owned
  <2>2. Readable(Place(d)) =>
          entry[Place(d)].kind = "file" /\ entry[Place(d)].ino = <<Place(d), 0>>
    BY <1>1, <2>1 DEF OwnEntry, Readable, Place
  <2>3. QED
    BY <2>2 DEF Opened
<1>3. QED
  BY <1>1, <1>2 DEF Truncate

LEMMA OwnedInit == Init => Owned
BY ItemAssumption DEF Init, Owned, OwnEntry, OwnFile

LEMMA OwnedNext ==
    ASSUME OwnPlaces
    PROVE  TypeOK /\ Owned /\ [Next]_vars => Owned'
<1> SUFFICES ASSUME TypeOK, Owned, [Next]_vars PROVE Owned'
  OBVIOUS
<1>1. ASSUME NEW c \in Command PROVE OwnFile(c)'
  <2>1. CASE pc'[c] = pc[c] /\ turn'[c] = turn[c] /\ step'[c] = step[c]
             /\ fd'[c] = fd[c]
    BY <2>1 DEF Owned, OwnFile, Place, Here, Current
  <2>2. CASE Truncate(c)
    <3>1. Here(c)' = Here(c) /\ Place(c)' = Place(c)
      BY <2>2 DEF Truncate, Place, Here, Current
    <3>2. Here(c) \in Created /\ fd' = [fd EXCEPT ![c] = <<Place(c), 0>>]
      BY <2>2, TruncateOwn
    <3>3. fd'[c] = <<Place(c), 0>>
      BY <3>2 DEF TypeOK
    <3>4. QED
      BY <3>1, <3>2, <3>3 DEF OwnFile
  <2>3. CASE Link(c) \/ Fill(c) \/ CreateMeta(c)
    BY <2>3 DEF OwnFile, Link, Fill, CreateMeta, TypeOK
  <2>4. CASE Encode(c)
    BY <2>4, AdvanceType DEF OwnFile, Encode, Busy
  <2>5. CASE Local(c)
    BY <2>5, LocalSteps DEF OwnFile
  <2>6. QED
    BY <2>1, <2>2, <2>3, <2>4, <2>5, NextCases, FileSteps, OthersSame,
       NothingGained DEF Same
<1>2. ASSUME NEW i \in Item PROVE OwnEntry(i)'
  <2>0. Target[i] \in Path /\ (i \in Linked => Origin[i] \in Source)
    BY ItemAssumption
  <2>1. \A s \in Source : gen[s] \in Nat /\ gen'[s] \in Nat /\ gen[s] <= gen'[s]
    <3>1. CASE gen' = gen
      BY <3>1, BoundsAssumption DEF TypeOK
    <3>2. ASSUME NEW s \in Source, Replace(s)
          PROVE  \A r \in Source : /\ gen[r] \in Nat
                                   /\ gen'[r] \in Nat
                                   /\ gen[r] <= gen'[r]
      BY <3>2, BoundsAssumption DEF TypeOK, Replace
    <3>3. QED
      BY <3>1, <3>2, NextCases, FileSteps, LocalSteps
      DEF Edit, Link, Truncate, Fill, CreateMeta, Encode, files, vars
  <2>2. CASE entry[Target[i]].kind # "none"
    <3>1. entry'[Target[i]] = entry[Target[i]]
      BY <2>0, <2>2, NothingLost
    <3>2. QED
      BY <2>0, <2>1, <2>2, <3>1 DEF Owned, OwnEntry
  <2>3. CASE entry'[Target[i]].kind # "none" /\ entry[Target[i]].kind = "none"
    <3>1. PICK d \in Command : Link(d) \/ Truncate(d)
      BY <2>3, NothingGained, FileSteps, LocalSteps
      DEF Fill, CreateMeta, Encode, files
    <3>2. Place(d) = Target[i] /\ pc[d] \in Busy
      BY <2>0, <2>3, <3>1 DEF Link, Truncate, TypeOK, Busy
    <3>3. Here(d) = i
      BY <3>2, HereType DEF OwnPlaces, Place
    <3>4. CASE Link(d)
      <4>1. i \in Linked /\ i \notin Created /\ LinkKind[i] # "other"
        BY <3>3, <3>4, Kinds DEF Link
      <4>2. entry'[Target[i]] = NewLink(i) /\ gen' = gen
        BY <2>0, <2>3, <3>2, <3>3, <3>4 DEF Link, TypeOK
      <4>3. LinkKind[i] = "hard" =>
              entry'[Target[i]] = [kind |-> "file", ino |-> Original(Origin[i])]
        BY <4>1, <4>2 DEF NewLink
      <4>4. LinkKind[i] = "soft" =>
              entry'[Target[i]] = [kind |-> "sym", ino |-> <<Origin[i], 0>>]
        BY <4>1, <4>2 DEF NewLink
      <4>5. QED
        BY <2>0, <2>1, <4>1, <4>2, <4>3, <4>4 DEF OwnEntry, Original
    <3>5. CASE Truncate(d)
      <4>1. i \in Created /\ i \notin Linked
        BY <3>3, <3>5, Kinds DEF Truncate
      <4>2. entry'[Target[i]] = [kind |-> "file", ino |-> <<Target[i], 0>>]
        BY <2>0, <2>3, <3>2, <3>5 DEF Truncate, TypeOK, Readable
      <4>3. QED
        BY <4>1, <4>2 DEF OwnEntry
    <3>6. QED
      BY <3>1, <3>4, <3>5
  <2>4. QED
    BY <2>2, <2>3 DEF OwnEntry
<1>3. QED
  BY <1>1, <1>2 DEF Owned
----------------------------------------------------------------------------
(* The checksum at hand is that of what is stored, unless a source changed *)
(* while the command ran.                                                  *)
SumOK(c) ==
    quiet[c] =>
        /\ pc[c] \in Busy => sum[c] = Held(Current(c))
        /\ pc[c] \in {"place", "fill", "meta", "text"} /\ Here(c) \in Linked
             => cur[c] = Held(Here(c))
        /\ pc[c] \in {"meta", "text"} => cur[c] = Held(Here(c))

(* Between two products a command is at the first step, at the end it has  *)
(* been through its walk.                                                  *)
TurnOK(c) ==
    /\ pc[c] = "walk" => step[c] = 1
    /\ pc[c] = "done" => turn[c] \notin DOMAIN Todo[c]

Good(i) == meta[Target[i]].state = "doc" /\ meta[Target[i]].sum = Held(i)

(* The place f is that of an item derived from p before the step n, it has *)
(* its document, and links back.                                           *)
Derived(p, n, f) ==
    \E j \in DOMAIN Plan[p] :
        /\ j < n
        /\ Plan[p][j] \notin Product
        /\ f = Target[Plan[p][j]]
        /\ Good(Plan[p][j])
        /\ Target[p] \in meta[f].links

Complete(p) ==
    /\ Good(p)
    /\ \A f \in Collected(p) : Derived(p, Len(Plan[p]), f)

(* The products that a clean run has been through are complete, and what   *)
(* it collected for the current one is.                                    *)
DoneOK(c) ==
    Clean(c) =>
        /\ \A k \in DOMAIN Todo[c] : k < turn[c] =>
             Optional(Todo[c][k]) \/ Complete(Todo[c][k])
        /\ pc[c] \in Busy =>
             /\ \A f \in links[c] : Derived(Current(c), step[c], f)
             /\ \A j \in DOMAIN Plan[Current(c)] :
                  j < step[c] /\ Kind[Plan[Current(c)][j]] = "table"
                      => Target[Plan[Current(c)][j]] \in links[c]

(* In a first run, what is still to be created has no document, and the    *)
(* documents that are there are right.                                     *)
Pending(c, k, j) ==
    \/ k > turn[c]
    \/ k = turn[c] /\ j > step[c]
    \/ k = turn[c] /\ j = step[c] /\ pc[c] \in {"walk", "step", "place", "fill"}

FirstOK(c) ==
    run[c] = 1 =>
        \A k \in DOMAIN Todo[c] : \A j \in DOMAIN Plan[Todo[c][k]] :
            LET i == Plan[Todo[c][k]][j]
            IN  /\ Pending(c, k, j) /\ i \in Created
                       => meta[Target[i]].state # "doc"
                /\ quiet[c] /\ meta[Target[i]].state = "doc" => Good(i)
----------------------------------------------------------------------------
(* A command only touches the item at hand.                                *)
LEMMA ItemSame ==
    ASSUME OwnPlaces, TypeOK, Owned, NEW d \in Command, Act(d),
           NEW i \in Item, pc[d] \in Busy => Here(d) # i
    PROVE  /\ meta'[Target[i]] = meta[Target[i]]
           /\ Held(i)' = Held(i)
<1>0. Target[i] \in Path /\ (i \in Linked => Origin[i] \in Source)
  BY ItemAssumption
<1>1. CASE Local(d) \/ Link(d)
  <2>1. body' = body /\ gen' = gen /\ meta' = meta
    BY <1>1, LocalSteps DEF Link, files
  <2>2. QED
    BY <2>1 DEF Held, Original
<1>2. CASE Truncate(d) \/ Fill(d)
  <2>1. /\ Here(d) \in Created
        /\ pc[d] \in Busy
        /\ meta' = meta /\ gen' = gen
        /\ \E v : body' = [body EXCEPT ![<<Place(d), 0>>] = v]
    BY <1>2, TruncateOwn DEF Truncate, Fill, Owned, OwnFile, Busy
  <2>2. Place(d) \in Path /\ Place(d) # Target[i]
    BY <2>1, HereType DEF OwnPlaces, Place
  <2>3. ASSUME NEW n \in Inode, n # <<Place(d), 0>>
        PROVE  body'[n] = body[n]
    BY <2>1, <2>3 DEF TypeOK
  <2>4. CASE i \in Linked
    <3>1. Original(Origin[i]) \in Inode /\ Original(Origin[i])[1] \in Source
      BY <1>0, <2>4 DEF TypeOK, Original, Inode
    <3>2. Original(Origin[i]) # <<Place(d), 0>>
      BY <2>2, <3>1, DataAssumption DEF Original
    <3>3. body'[Original(Origin[i])] = body[Original(Origin[i])]
      BY <2>3, <3>1, <3>2
    <3>4. Original(Origin[i])' = Original(Origin[i])
      BY <2>1 DEF Original
    <3>5. QED
      BY <2>1, <2>4, <3>3, <3>4 DEF Held
  <2>5. CASE i \notin Linked
    <3>1. <<Target[i], 0>> \in Inode
      BY <1>0, BoundsAssumption DEF Inode
    <3>2. body'[<<Target[i], 0>>] = body[<<Target[i], 0>>]
      BY <2>2, <2>3, <3>1
    <3>3. QED
      BY <2>1, <2>5, <3>2 DEF Held
  <2>6. QED
    BY <2>4, <2>5
<1>3. CASE CreateMeta(d) \/ Encode(d)
  <2>1. /\ pc[d] \in Busy
        /\ body' = body /\ gen' = gen
        /\ \E m : meta' = [meta EXCEPT ![Place(d)] = m]
    BY <1>3 DEF CreateMeta, Encode, Busy
  <2>2. Place(d) # Target[i]
    BY <2>1, HereType DEF OwnPlaces, Place
  <2>3. QED
    BY <1>0, <2>1, <2>2 DEF TypeOK, Held, Original
<1>4. QED
  BY <1>1, <1>2, <1>3, FileSteps

(* An item of a walk is at hand only when its turn and its step have come. *)
LEMMA Apart ==
    ASSUME Distinct, TypeOK, NEW c \in Command, NEW d \in Command,
           pc[d] \in Busy, NEW k \in DOMAIN Todo[c],
           NEW j \in DOMAIN Plan[Todo[c][k]], Plan[Todo[c][k]][j] = Here(d)
    PROVE  /\ c = d
           /\ k = turn[d]
           /\ Here(d) \notin Product => j = step[d]
<1>1. /\ Todo[c][k] \in Product
      /\ Current(d) \in Product
      /\ turn[d] \in DOMAIN Todo[d]
      /\ step[d] \in DOMAIN Plan[Current(d)]
  BY HereType, PlanAssumption
<1>2. CASE Here(d) \in Product
  <2>1. Todo[c][k] = Current(d)
    BY <1>1, <1>2, HereType, PlanAssumption
  <2>2. QED
    BY <1>1, <1>2, <2>1 DEF Distinct, OwnTurns, Current
<1>3. CASE Here(d) \notin Product
  <2>1. Todo[c][k] = Current(d) /\ j = step[d]
    BY <1>1, <1>3 DEF Distinct, OwnSteps, Here
  <2>2. QED
    BY <1>1, <2>1 DEF Distinct, OwnTurns, Current
<1>4. QED
  BY <1>2, <1>3

LEMMA SlotType ==
    ASSUME NEW c \in Command, NEW k \in DOMAIN Todo[c],
           NEW j \in DOMAIN Plan[Todo[c][k]]
    PROVE  /\ Todo[c][k] \in Product
           /\ Plan[Todo[c][k]][j] \in Item
           /\ Plan[Todo[c][k]] \in Seq(Item)
           /\ k \in Nat \ {0}
           /\ j \in Nat \ {0}
<1>1. Todo[c] \in Seq(Product)
  BY PlanAssumption
<1>2. Todo[c][k] \in Product /\ k \in Nat \ {0}
  BY <1>1
<1>3. Plan[Todo[c][k]] \in Seq(Item)
  BY <1>2, PlanAssumption
<1>4. QED
  BY <1>2, <1>3

(* What was derived before the item at hand stays as it is.                *)
LEMMA DerivedSame ==
    ASSUME Distinct, TypeOK, Owned, NEW d \in Command, Act(d),
           NEW c \in Command, NEW k \in DOMAIN Todo[c], NEW n \in Nat,
           c = d /\ k = turn[d] => n <= step[d],
           NEW f, Derived(Todo[c][k], n, f)
    PROVE  Derived(Todo[c][k], n, f)'
<1> DEFINE p == Todo[c][k]
<1>1. PICK j \in DOMAIN Plan[p] : /\ j < n
                                  /\ Plan[p][j] \notin Product
                                  /\ f = Target[Plan[p][j]]
                                  /\ Good(Plan[p][j])
                                  /\ Target[p] \in meta[f].links
  BY DEF Derived
<1>2. Plan[p][j] \in Item /\ j \in Nat
  BY SlotType
<1>3. pc[d] \in Busy => Here(d) # Plan[p][j]
  <2>1. SUFFICES ASSUME pc[d] \in Busy, Here(d) = Plan[p][j] PROVE FALSE
    OBVIOUS
  <2>2. c = d /\ k = turn[d] /\ j = step[d]
    BY <1>1, <2>1, Apart
  <2>3. step[d] \in Nat
    BY DEF TypeOK
  <2>4. j < n
    BY <1>1
  <2>5. n <= step[d]
    BY <2>2
  <2>6. QED
    BY <1>2, <2>2, <2>3, <2>4, <2>5
<1>4. /\ meta'[f] = meta[f]
      /\ Held(Plan[p][j])' = Held(Plan[p][j])
  BY <1>1, <1>2, <1>3, ItemSame DEF Distinct
<1>5. Good(Plan[p][j])'
  BY <1>1, <1>4 DEF Good
<1>6. QED
  BY <1>1, <1>4, <1>5 DEF Derived

LEMMA CompleteSame ==
    ASSUME Distinct, TypeOK, Owned, NEW d \in Command, Act(d),
           NEW c \in Command, NEW k \in DOMAIN Todo[c],
           ~ (c = d /\ k = turn[d]), Complete(Todo[c][k])
    PROVE  Complete(Todo[c][k])'
<1> DEFINE p == Todo[c][k]
<1>1. /\ p \in Product /\ p \in Item
      /\ Len(Plan[p]) \in DOMAIN Plan[p]
      /\ Len(Plan[p]) \in Nat
      /\ p = Plan[p][Len(Plan[p])]
  BY PlanAssumption, ProductIsItem
<1>2. pc[d] \in Busy => Here(d) # p
  BY <1>1, Apart
<1>3. meta'[Target[p]] = meta[Target[p]] /\ Held(p)' = Held(p)
  BY <1>1, <1>2, ItemSame DEF Distinct
<1>4. \A f \in Collected(p) : Derived(p, Len(Plan[p]), f)'
  BY <1>1, DerivedSame DEF Complete
<1>5. QED
  BY <1>3, <1>4 DEF Complete, Collected, Good
----------------------------------------------------------------------------
LEMMA ItemFailsMoves ==
    ASSUME TypeOK, NEW c \in Command, ItemFails(c)
    PROVE  /\ pc[c] \in Busy
           /\ \/ /\ pc'[c] = "walk"
                 /\ turn'[c] = turn[c] + 1
                 /\ step'[c] = 1
                 /\ Here(c) \in Product \/ step[c] = Len(Plan[Current(c)])
              \/ /\ pc'[c] = "step"
                 /\ turn'[c] = turn[c]
                 /\ step'[c] = step[c] + 1
                 /\ Here(c) \notin Product
           /\ Here(c) \in Linked => reported'[c]
<1>1. pc[c] \in Busy
  BY DEF ItemFails, Busy
<1>2. ASSUME Here(c) \in Linked PROVE reported'[c]
  <2>1. Verdicts(Here(c), pc[c]) = {TRUE}
    BY <1>1, <1>2, HereType, Kinds DEF Verdicts
  <2>2. \E v \in {TRUE} : reported' = [reported EXCEPT ![c] = @ \/ v]
    BY <2>1 DEF ItemFails
  <2>3. reported' = [reported EXCEPT ![c] = TRUE]
    BY <2>2
  <2>4. QED
    BY <2>3 DEF TypeOK
<1>3. CASE Here(c) \in Product
  BY <1>1, <1>2, <1>3, LeaveType DEF ItemFails
<1>4. CASE Here(c) \notin Product
  BY <1>1, <1>2, <1>4, AdvanceType DEF ItemFails
<1>5. QED
  BY <1>3, <1>4

LEMMA TurnNext ==
    ASSUME TypeOK, NEW c \in Command, TurnOK(c), Act(c)
    PROVE  TurnOK(c)'
<1>1. CASE ReadSource(c) \/ Prepare(c) \/ Link(c) \/ Truncate(c) \/ Fill(c)
           \/ CreateMeta(c) \/ Kill(c)
  BY <1>1 DEF ReadSource, Prepare, Link, Truncate, Fill, CreateMeta, Kill,
              TypeOK, TurnOK
<1>2. CASE ReadFails(c) \/ SkipNote(c)
  BY <1>2, LeaveType DEF ReadFails, SkipNote, TurnOK
<1>3. CASE WalkAborts(c) \/ EndRun(c) \/ Rerun(c)
  BY <1>3 DEF WalkAborts, EndRun, Rerun, TypeOK, TurnOK
<1>4. CASE ItemFails(c)
  BY <1>4, ItemFailsMoves DEF TurnOK
<1>5. CASE Encode(c)
  BY <1>5, AdvanceType DEF Encode, Busy, TurnOK
<1>6. QED
  BY <1>1, <1>2, <1>3, <1>4, <1>5 DEF Act, Work

LEMMA SumNext ==
    ASSUME OwnPlaces, TypeOK, Owned, NEW c \in Command, SumOK(c), Act(c)
    PROVE  SumOK(c)'
<1>1. CASE ReadSource(c)
  <2>1. Current(c) \in Product /\ Current(c)' = Current(c)
    BY <1>1, PlanAssumption DEF ReadSource, Current
  <2>2. body' = body /\ gen' = gen /\ pc'[c] = "step"
    BY <1>1 DEF ReadSource, files, TypeOK
  <2>3. sum'[c] = body[Original(Origin[Current(c)])]
    BY <1>1 DEF ReadSource, TypeOK
  <2>4. Current(c) \in Linked
    BY <2>1, ProductIsItem, Kinds
  <2>5. sum'[c] = Held(Current(c))'
    BY <2>1, <2>2, <2>3, <2>4 DEF Held, Original
  <2>6. QED
    BY <2>1, <2>2, <2>5 DEF SumOK
<1>2. CASE ReadFails(c) \/ SkipNote(c) \/ WalkAborts(c) \/ EndRun(c)
           \/ Kill(c) \/ Rerun(c)
  <2>1. pc'[c] \notin Busy
    BY <1>2, LeaveType DEF ReadFails, SkipNote, WalkAborts, EndRun, Kill,
                           Rerun, TypeOK, Busy
  <2>2. QED
    BY <2>1 DEF SumOK, Busy
<1>3. CASE Prepare(c)
  <2>0. pc[c] \in Busy
    BY <1>3 DEF Prepare, Busy
  <2>1. /\ Here(c) \in Item
        /\ Here(c)' = Here(c) /\ Current(c)' = Current(c)
        /\ body' = body /\ gen' = gen /\ pc'[c] = "place"
        /\ sum' = sum /\ quiet' = quiet
    BY <1>3, <2>0, HereType DEF Prepare, files, TypeOK, Here, Current
  <2>2. cur'[c] \in Sums(c)
    BY <1>3 DEF Prepare, TypeOK
  <2>3. ASSUME quiet[c], Here(c) \in Linked PROVE cur'[c] = Held(Here(c))
    <3>1. CASE Here(c) \in Product
      <4>1. Kind[Here(c)] # "table" /\ Here(c) \notin Created
        BY <2>1, <3>1, Kinds
      <4>2. cur'[c] = sum[c]
        BY <2>2, <3>1, <4>1 DEF Sums
      <4>3. QED
        BY <2>0, <2>3, <3>1, <4>2, HereType DEF SumOK
    <3>2. CASE Here(c) \notin Product
      <4>1. Kind[Here(c)] = "table" /\ Here(c) \notin Created
        BY <2>1, <2>3, <3>2, Kinds
      <4>2. cur'[c] = body[Original(Origin[Here(c)])]
        BY <2>2, <3>2, <4>1 DEF Sums
      <4>3. QED
        BY <2>3, <4>2 DEF Held
    <3>3. QED
      BY <3>1, <3>2
  <2>4. \A i : Held(i)' = Held(i)
    BY <2>1 DEF Held, Original
  <2>5. quiet[c] => sum[c] = Held(Current(c))
    BY <2>0 DEF SumOK
  <2>6. QED
    BY <2>1, <2>3, <2>4, <2>5 DEF SumOK
<1>4. CASE Link(c) \/ CreateMeta(c)
  <2>1. /\ Here(c)' = Here(c) /\ Current(c)' = Current(c)
        /\ body' = body /\ gen' = gen /\ sum' = sum /\ cur' = cur
        /\ quiet' = quiet
    BY <1>4 DEF Link, CreateMeta, Here, Current
  <2>2. pc[c] \in Busy /\ pc'[c] \in {"meta", "text"}
    BY <1>4 DEF Link, CreateMeta, TypeOK, Busy
  <2>3. quiet[c] => cur[c] = Held(Here(c))
    BY <1>4 DEF Link, CreateMeta, SumOK
  <2>4. \A i : Held(i)' = Held(i)
    BY <2>1 DEF Held, Original
  <2>5. QED
    BY <2>1, <2>2, <2>3, <2>4 DEF SumOK
<1>5. CASE Truncate(c) \/ Fill(c)
  <2>1. /\ pc[c] \in Busy
        /\ Here(c) \in Created
        /\ Here(c)' = Here(c) /\ Current(c)' = Current(c)
        /\ sum' = sum /\ cur' = cur /\ quiet' = quiet
    BY <1>5 DEF Truncate, Fill, Here, Current, Busy, Owned, OwnFile
  <2>2. /\ Here(c) \in Item /\ Here(c) \notin Linked
        /\ Current(c) \in Item /\ Current(c) \in Linked
    BY <2>1, HereType, ProductIsItem, Kinds
  <2>3. Held(Current(c))' = Held(Current(c))
    BY <2>1, <2>2, ItemSame
  <2>4. ASSUME pc'[c] \in {"meta", "text"} PROVE cur[c] = Held(Here(c))'
    <3>1. Fill(c)
      BY <1>5, <2>4 DEF Truncate, TypeOK
    <3>2. body' = [body EXCEPT ![<<Place(c), 0>>] = cur[c]]
      BY <3>1 DEF Fill, Owned, OwnFile
    <3>3. <<Place(c), 0>> \in Inode
      BY <2>1, HereType, BoundsAssumption DEF Inode
    <3>4. body'[<<Place(c), 0>>] = cur[c]
      BY <3>2, <3>3 DEF TypeOK
    <3>5. QED
      BY <2>1, <2>2, <3>4 DEF Held, Place
  <2>5. QED
    BY <2>1, <2>2, <2>3, <2>4 DEF SumOK
<1>6. CASE Encode(c) \/ ItemFails(c)
  <2>1. /\ pc[c] \in Busy
        /\ \/ pc'[c] = "walk"
           \/ pc'[c] = "step" /\ turn'[c] = turn[c]
    BY <1>6, AdvanceType, ItemFailsMoves DEF Encode, Busy
  <2>2. body' = body /\ gen' = gen /\ sum' = sum /\ quiet' = quiet
    BY <1>6 DEF Encode, ItemFails, files
  <2>3. \A i : Held(i)' = Held(i)
    BY <2>2 DEF Held, Original
  <2>4. QED
    BY <2>1, <2>2, <2>3 DEF SumOK, Current, Busy
<1>7. QED
  BY <1>1, <1>2, <1>3, <1>4, <1>5, <1>6 DEF Act, Work
----------------------------------------------------------------------------
(* What a clean run has completed and collected is kept by its own steps,  *)
(* and added to by Encode.                                                 *)
Past(c) == \A k \in DOMAIN Todo[c] : k < turn[c] =>
             Optional(Todo[c][k]) \/ Complete(Todo[c][k])
Links(c) == \A f \in links[c] : Derived(Current(c), step[c], f)
Tables(c) == \A j \in DOMAIN Plan[Current(c)] :
                j < step[c] /\ Kind[Plan[Current(c)][j]] = "table"
                    => Target[Plan[Current(c)][j]] \in links[c]

LEMMA DoneParts ==
    ASSUME NEW c \in Command
    PROVE  DoneOK(c) <=> (Clean(c) => /\ Past(c)
                                      /\ pc[c] \in Busy => Links(c) /\ Tables(c))
BY DEF DoneOK, Past, Links, Tables

LEMMA PastKept ==
    ASSUME Distinct, TypeOK, Owned, NEW c \in Command, Act(c), Past(c)
    PROVE  \A k \in DOMAIN Todo[c] : k < turn[c] =>
             Optional(Todo[c][k]) \/ Complete(Todo[c][k])'
<1> SUFFICES ASSUME NEW k \in DOMAIN Todo[c], k < turn[c],
                    Complete(Todo[c][k])
             PROVE  Complete(Todo[c][k])'
  BY DEF Past
<1>1. k # turn[c]
  BY PlanAssumption DEF TypeOK
<1>2. QED
  BY <1>1, CompleteSame

LEMMA LinksKept ==
    ASSUME Distinct, TypeOK, Owned, NEW c \in Command, Act(c), pc[c] \in Busy,
           Links(c), NEW p, p = Current(c), NEW n, n = step[c]
    PROVE  \A f \in links[c] : Derived(p, n, f)'
<1>1. turn[c] \in DOMAIN Todo[c] /\ n \in Nat
  BY HereType DEF TypeOK
<1>2. PICK k \in DOMAIN Todo[c] : k = turn[c]
  BY <1>1
<1>3. p = Todo[c][k]
  BY <1>2 DEF Current
<1>4. ASSUME NEW f \in links[c] PROVE Derived(p, n, f)'
  <2>1. Derived(p, n, f)
    BY <1>4 DEF Links
  <2>2. QED
    BY <1>1, <1>2, <1>3, <2>1, DerivedSame, SMTT(30)
<1>5. QED
  BY <1>4

LEMMA DoneNext ==
    ASSUME Distinct, TypeOK, Owned, NEW c \in Command, SumOK(c), DoneOK(c),
           Act(c)
    PROVE  DoneOK(c)'
<1>1. CASE ReadFails(c) \/ WalkAborts(c)
  <2>1. ~ Clean(c)'
    BY <1>1 DEF ReadFails, WalkAborts, Clean, TypeOK
  <2>2. QED
    BY <2>1 DEF DoneOK
<1>2. CASE Rerun(c)
  <2>1. turn'[c] = 1 /\ pc'[c] = "walk"
    BY <1>2 DEF Rerun, TypeOK
  <2>2. \A k \in DOMAIN Todo[c] : ~ (k < 1)
    BY PlanAssumption
  <2>3. QED
    BY <2>1, <2>2 DEF DoneOK, Busy
<1>3. CASE EndRun(c) \/ Kill(c)
  <2>1. turn' = turn /\ pc'[c] \notin Busy /\ (Clean(c)' => Clean(c))
    BY <1>3 DEF EndRun, Kill, Clean, TypeOK, Busy
  <2>2. QED
    BY <2>1, DoneParts, PastKept DEF DoneOK
<1>4. CASE ReadSource(c)
  <2>1. turn' = turn /\ (Clean(c)' => Clean(c))
    BY <1>4 DEF ReadSource, Clean
  <2>2. links'[c] = {} /\ step'[c] = 1
    BY <1>4 DEF ReadSource, TypeOK
  <2>3. Current(c)' = Current(c) /\ Current(c) \in Product
    BY <1>4, <2>1, PlanAssumption DEF Current, ReadSource
  <2>4. \A j \in DOMAIN Plan[Current(c)] : ~ (j < 1)
    BY <2>3, PlanAssumption
  <2>5. QED
    BY <2>1, <2>2, <2>3, <2>4, DoneParts, PastKept DEF DoneOK
<1>5. CASE Prepare(c) \/ Link(c) \/ Truncate(c) \/ Fill(c) \/ CreateMeta(c)
  <2>1. /\ pc[c] \in Busy
        /\ turn' = turn /\ step' = step /\ links' = links
        /\ Clean(c)' => Clean(c)
    BY <1>5 DEF Prepare, Link, Truncate, Fill, CreateMeta, Clean, Busy
  <2>2. PICK p, n : p = Current(c) /\ n = step[c]
    OBVIOUS
  <2>3. Current(c)' = p /\ step'[c] = n
    BY <2>1, <2>2 DEF Current
  <2>4. SUFFICES ASSUME Clean(c)' PROVE DoneOK(c)'
    BY DEF DoneOK
  <2>5. Past(c) /\ Links(c) /\ Tables(c)
    BY <2>1, <2>4, DoneParts
  <2>6. \A f \in links[c] : Derived(p, n, f)'
    BY <2>1, <2>2, <2>5, LinksKept
  <2>7. Past(c)'
    BY <2>1, <2>5, PastKept DEF Past
  <2>8. Links(c)'
    BY <2>1, <2>3, <2>6 DEF Links, Derived
  <2>9. Tables(c)'
    BY <2>1, <2>2, <2>3, <2>5 DEF Tables
  <2>10. QED
    BY <2>7, <2>8, <2>9 DEF DoneOK, Past, Links, Tables
<1>6. CASE SkipNote(c)
  <2>1. /\ pc'[c] = "walk" /\ pc[c] \in Busy
        /\ turn'[c] = turn[c] + 1
        /\ Clean(c)' => Clean(c)
    BY <1>6, LeaveType DEF SkipNote, Clean, Busy
  <2>2. ASSUME Clean(c)' PROVE Optional(Current(c))
    <3>1. Past(c) /\ Links(c) /\ Tables(c)
      BY <2>1, <2>2, DoneParts
    <3> DEFINE p == Current(c)
    <3>2. /\ p \in Product /\ Plan[p] \in Seq(Item)
          /\ step[c] \in DOMAIN Plan[p]
          /\ Here(c) \in Item
      BY <2>1, HereType
    <3>3. Kind[Here(c)] = "note"
      BY <1>6 DEF SkipNote
    <3>4. Here(c) \in Product /\ Here(c) = p
      BY <2>1, <3>2, <3>3, HereType DEF Product
    <3>5. step[c] = Len(Plan[p])
      <4>1. SUFFICES ASSUME step[c] # Len(Plan[p]) PROVE FALSE
        OBVIOUS
      <4>2. step[c] \in 1 .. Len(Plan[p]) - 1
        BY <3>2, <4>1
      <4>3. Kind[p] = "note"
        BY <3>3, <3>4
      <4>4. Kind[Plan[p][step[c]]] = "table"
        BY <3>2, <4>2, <4>3, PlanAssumption
      <4>5. QED
        BY <3>3, <4>4 DEF Here
    <3>6. CASE Len(Plan[p]) = 1
      BY <3>3, <3>4, <3>6 DEF Optional
    <3>7. CASE Len(Plan[p]) # 1
      <4>1. 1 \in DOMAIN Plan[p] /\ 1 < step[c] /\ 1 \in 1 .. Len(Plan[p]) - 1
        <5>1. PICK m \in Nat : m = Len(Plan[p])
          BY <3>2
        <5>2. DOMAIN Plan[p] = 1 .. m
          BY <3>2, <5>1
        <5>3. step[c] = m /\ m \in 1 .. m /\ m # 1
          BY <3>2, <3>5, <3>7, <5>1, <5>2
        <5>4. 1 \in 1 .. m /\ 1 < m /\ 1 \in 1 .. m - 1
          BY <5>3
        <5>5. QED
          BY <5>1, <5>2, <5>3, <5>4
      <4>2. Kind[Plan[p][1]] = "table"
        BY <3>2, <3>3, <3>4, <4>1, PlanAssumption
      <4>3. Target[Plan[p][1]] \in links[c]
        BY <3>1, <4>1, <4>2 DEF Tables
      <4>4. QED
        BY <1>6, <4>3 DEF SkipNote
    <3>8. QED
      BY <3>6, <3>7
  <2>3. ASSUME Clean(c)', NEW k \in DOMAIN Todo[c], k < turn'[c]
        PROVE  Optional(Todo[c][k]) \/ Complete(Todo[c][k])'
    <3>1. k \in Nat /\ turn[c] \in Nat
      BY PlanAssumption DEF TypeOK
    <3>2. k < turn[c] \/ k = turn[c]
      BY <2>1, <2>3, <3>1
    <3>3. Past(c)
      BY <2>1, <2>3, DoneParts
    <3>4. QED
      BY <2>2, <2>3, <3>2, <3>3, PastKept DEF Current
  <2>4. QED
    BY <2>1, <2>3 DEF DoneOK, Busy
<1>7. CASE ItemFails(c)
  <2>1. SUFFICES ASSUME Clean(c)' PROVE DoneOK(c)'
    BY DEF DoneOK
  <2>2. /\ pc[c] \in Busy /\ Here(c) \notin Linked /\ Clean(c)
        /\ links' = links
    BY <1>7, <2>1, ItemFailsMoves DEF Clean, ItemFails, TypeOK
  <2>3. /\ Here(c) \in Item /\ Kind[Here(c)] # "table"
        /\ Here(c) \notin Product
        /\ Current(c) \in Product /\ Plan[Current(c)] \in Seq(Item)
        /\ step[c] \in Nat
    BY <2>2, HereType, Kinds DEF TypeOK
  <2>4. step[c] # Len(Plan[Current(c)])
    BY <2>3, PlanAssumption DEF Here
  <2>5. turn'[c] = turn[c] /\ step'[c] = step[c] + 1
    BY <1>7, <2>3, <2>4, ItemFailsMoves
  <2>6. PICK p, n : p = Current(c) /\ n = step[c]
    OBVIOUS
  <2>7. Current(c)' = p /\ step'[c] = n + 1 /\ n \in Nat
    BY <2>3, <2>5, <2>6 DEF Current
  <2>8. Past(c) /\ Links(c) /\ Tables(c)
    BY <2>2, DoneParts
  <2>9. \A f \in links[c] : Derived(p, n, f)'
    BY <2>2, <2>6, <2>8, LinksKept
  <2>10. \A j \in DOMAIN Plan[p] : j \in Nat
    BY <2>3, <2>6
  <2>11. Past(c)'
    BY <2>5, <2>8, PastKept DEF Past
  <2>12. Links(c)'
    BY <2>2, <2>7, <2>9, <2>10 DEF Links, Derived
  <2>13. Tables(c)'
    BY <2>2, <2>3, <2>6, <2>7, <2>8, <2>10 DEF Tables, Here
  <2>14. QED
    BY <2>11, <2>12, <2>13 DEF DoneOK, Past, Links, Tables
<1>8. CASE Encode(c)
  <2>1. SUFFICES ASSUME Clean(c)' PROVE DoneOK(c)'
    BY DEF DoneOK
  <2>2. /\ pc[c] \in Busy /\ Clean(c) /\ quiet[c] /\ pc[c] = "text"
        /\ body' = body /\ gen' = gen
    BY <1>8, <2>1 DEF Encode, Clean, Busy
  <2>3. PICK p, n, i, f : /\ p = Current(c) /\ n = step[c]
                          /\ i = Here(c) /\ f = Place(c)
    OBVIOUS
  <2>4. /\ i \in Item /\ f \in Path /\ p \in Product
        /\ i = Plan[p][n] /\ f = Target[i]
        /\ Plan[p] \in Seq(Item) /\ n \in DOMAIN Plan[p] /\ n \in Nat
        /\ turn[c] \in Nat /\ turn[c] \in DOMAIN Todo[c]
        /\ i \in Product => i = p
    BY <2>2, <2>3, HereType DEF TypeOK, Here, Place
  <2>5. Past(c) /\ Links(c) /\ Tables(c)
    BY <2>2, DoneParts
  <2>6. \A g \in links[c] : Derived(p, n, g)'
    BY <2>2, <2>3, <2>5, LinksKept
  <2>7. \A k \in DOMAIN Todo[c] : k < turn[c] =>
            Optional(Todo[c][k]) \/ Complete(Todo[c][k])'
    BY <2>5, PastKept
  <2>8. /\ meta'[f].state = "doc"
        /\ meta'[f].sum = cur[c]
        /\ meta'[f].links = LinksOf(c)
    BY <1>8, <2>3, <2>4 DEF Encode, TypeOK
  <2>9. Good(i)'
    <3>1. cur[c] = Held(i)
      BY <2>2, <2>3 DEF SumOK
    <3>2. Held(i)' = Held(i)
      BY <2>2 DEF Held, Original
    <3>3. QED
      BY <2>4, <2>8, <3>1, <3>2 DEF Good
  <2>10. CASE /\ pc'[c] = "walk"
              /\ turn'[c] = turn[c] + 1
              /\ n = Len(Plan[p])
    <3>1. i = p
      BY <2>4, <2>10, PlanAssumption
    <3>2. meta'[f].links \ Given[p] \subseteq links[c]
      BY <2>3, <2>4, <2>8, <3>1 DEF LinksOf, Inherited
    <3>3. Complete(p)'
      BY <2>4, <2>6, <2>9, <2>10, <3>1, <3>2 DEF Complete, Collected
    <3>4. \A k \in DOMAIN Todo[c] : k < turn[c] + 1 => k < turn[c] \/ k = turn[c]
      BY <2>4, PlanAssumption
    <3>5. \A k \in DOMAIN Todo[c] : k = turn[c] => Todo[c][k] = p
      BY <2>3 DEF Current
    <3>6. Past(c)'
      BY <2>7, <2>10, <3>3, <3>4, <3>5 DEF Past
    <3>7. QED
      BY <2>10, <3>6 DEF DoneOK, Past, Busy
  <2>11. CASE /\ turn'[c] = turn[c]
              /\ step'[c] = n + 1
    <3>1. Current(c)' = p
      BY <2>3, <2>11 DEF Current
    <3>2. \A j \in DOMAIN Plan[p] : j \in Nat
      BY <2>4
    <3>3. \A g \in links[c] : Derived(p, n + 1, g)'
      BY <2>4, <2>6, <3>2 DEF Derived
    <3>4. Past(c)'
      BY <2>7, <2>11 DEF Past
    <3>5. CASE i \in Product
      <4>1. links'[c] = links[c]
        BY <1>8, <2>3, <3>5 DEF Encode
      <4>2. Kind[i] # "table"
        BY <2>4, <3>5, Kinds
      <4>3. Links(c)'
        BY <2>11, <3>1, <3>3, <4>1 DEF Links, Derived
      <4>4. Tables(c)'
        BY <2>3, <2>4, <2>5, <2>11, <3>1, <3>2, <4>1, <4>2 DEF Tables
      <4>5. QED
        BY <3>4, <4>3, <4>4 DEF DoneOK, Past, Links, Tables
    <3>6. CASE i \notin Product
      <4>1. links'[c] = links[c] \cup {f}
        BY <1>8, <2>3, <3>6 DEF Encode, TypeOK
      <4>2. Target[p] \in meta'[f].links
        BY <2>3, <2>8, <3>6 DEF LinksOf
      <4>3. Derived(p, n + 1, f)'
        BY <2>4, <2>9, <3>6, <4>2 DEF Derived
      <4>4. Links(c)'
        BY <2>11, <3>1, <3>3, <4>1, <4>3 DEF Links, Derived
      <4>5. Tables(c)'
        BY <2>3, <2>4, <2>5, <2>11, <3>1, <3>2, <4>1 DEF Tables
      <4>6. QED
        BY <3>4, <4>4, <4>5 DEF DoneOK, Past, Links, Tables
    <3>7. QED
      BY <3>5, <3>6
  <2>12. QED
    BY <1>8, <2>2, <2>3, <2>10, <2>11, AdvanceType DEF Encode
<1>9. QED
  BY <1>1, <1>2, <1>3, <1>4, <1>5, <1>6, <1>7, <1>8 DEF Act, Work
----------------------------------------------------------------------------
(* A slot of the walk that is pending after a step was pending before it.  *)
LEMMA PendingShrinks ==
    ASSUME TypeOK, NEW c \in Command, TurnOK(c), Act(c), ~ Rerun(c),
           NEW k \in Nat \ {0}, NEW j \in Nat \ {0}, Pending(c, k, j)'
    PROVE  Pending(c, k, j)
<1>0. turn[c] \in Nat /\ step[c] \in Nat
  BY DEF TypeOK
<1>1. CASE ReadSource(c) \/ EndRun(c) \/ Prepare(c) \/ Link(c) \/ Truncate(c)
           \/ Fill(c) \/ CreateMeta(c) \/ Kill(c)
  <2>1. turn'[c] = turn[c] /\ step'[c] = step[c]
    BY <1>1 DEF ReadSource, EndRun, Prepare, Link, Truncate, Fill, CreateMeta,
                Kill, TypeOK, TurnOK
  <2>2. pc'[c] \in {"walk", "step", "place", "fill"}
          => pc[c] \in {"walk", "step", "place", "fill"}
    BY <1>1 DEF ReadSource, EndRun, Prepare, Link, Truncate, Fill, CreateMeta,
                Kill, TypeOK
  <2>3. QED
    BY <2>1, <2>2 DEF Pending
<1>2. CASE \/ turn'[c] > turn[c]
           \/ turn'[c] = turn[c] /\ step'[c] = step[c] + 1
  <2>1. turn'[c] \in Nat /\ step'[c] \in Nat
    BY TypeNext DEF TypeOK, Act, Next
  <2>2. QED
    BY <1>0, <1>2, <2>1 DEF Pending
<1>3. CASE ReadFails(c) \/ SkipNote(c) \/ WalkAborts(c) \/ ItemFails(c)
           \/ Encode(c)
  <2>1. CASE ReadFails(c) \/ SkipNote(c)
    BY <1>0, <1>2, <2>1, LeaveType DEF ReadFails, SkipNote
  <2>2. CASE WalkAborts(c)
    <3>1. Len(Todo[c]) \in Nat
      BY PlanAssumption
    <3>2. turn'[c] > turn[c]
      BY <1>0, <2>2, <3>1 DEF WalkAborts, TypeOK
    <3>3. QED
      BY <1>2, <3>2
  <2>3. CASE ItemFails(c)
    BY <1>0, <1>2, <2>3, ItemFailsMoves
  <2>4. CASE Encode(c)
    BY <1>0, <1>2, <2>4, AdvanceType DEF Encode, Busy
  <2>5. QED
    BY <1>3, <2>1, <2>2, <2>3, <2>4
<1>4. QED
  BY <1>1, <1>3 DEF Act, Work

LEMMA FirstNext ==
    ASSUME Distinct, TypeOK, Owned, NEW c \in Command, TurnOK(c), SumOK(c),
           FirstOK(c), Act(c)
    PROVE  FirstOK(c)'
<1>1. CASE Rerun(c)
  <2>1. run'[c] # 1
    BY <1>1 DEF Rerun, TypeOK
  <2>2. QED
    BY <2>1 DEF FirstOK
<1>2. CASE ~ Rerun(c)
  <2>1. SUFFICES ASSUME run'[c] = 1,
                        NEW k \in DOMAIN Todo[c],
                        NEW j \in DOMAIN Plan[Todo[c][k]],
                        NEW i, i = Plan[Todo[c][k]][j]
                 PROVE  /\ Pending(c, k, j)' /\ i \in Created
                              => meta'[Target[i]].state # "doc"
                        /\ quiet'[c] /\ meta'[Target[i]].state = "doc"
                              => Good(i)'
    BY DEF FirstOK
  <2>2. /\ k \in Nat \ {0} /\ j \in Nat \ {0}
        /\ i \in Item /\ Target[i] \in Path
    BY <2>1, SlotType, ItemAssumption
  <2>3. run[c] = 1 /\ quiet'[c] = quiet[c]
    BY <1>2, <2>1 DEF Act, Work, ReadSource, ReadFails, WalkAborts, EndRun,
       SkipNote, Prepare, Link, Truncate, Fill, CreateMeta, Encode, ItemFails,
       Kill
  <2>4. /\ Pending(c, k, j) /\ i \in Created => meta[Target[i]].state # "doc"
        /\ quiet[c] /\ meta[Target[i]].state = "doc" => Good(i)
    BY <2>1, <2>3 DEF FirstOK
  <2>5. Pending(c, k, j)' => Pending(c, k, j)
    BY <1>2, <2>2, PendingShrinks
  <2>6. CASE meta'[Target[i]] = meta[Target[i]] /\ Held(i)' = Held(i)
    BY <2>3, <2>4, <2>5, <2>6 DEF Good
  <2>7. CASE ~ (meta'[Target[i]] = meta[Target[i]] /\ Held(i)' = Held(i))
    <3>1. pc[c] \in Busy /\ Here(c) = i
      BY <2>2, <2>7, ItemSame DEF Distinct
    <3>2. k = turn[c] /\ (i \in Created => j = step[c])
      BY <2>1, <2>2, <3>1, Apart, Kinds
    <3>3. CASE Truncate(c) \/ Fill(c)
      <4>1. /\ i \in Created /\ meta' = meta
            /\ pc[c] \in {"place", "fill"}
        BY <3>1, <3>3 DEF Truncate, Fill, Owned, OwnFile
      <4>2. Pending(c, k, j)
        BY <3>2, <4>1 DEF Pending
      <4>3. QED
        BY <2>4, <4>1, <4>2
    <3>4. CASE CreateMeta(c)
      <4>1. meta'[Target[i]].state = "blank"
        BY <2>2, <3>1, <3>4 DEF CreateMeta, TypeOK, Blank, Place
      <4>2. QED
        BY <4>1
    <3>5. CASE Encode(c)
      <4>1. meta'[Target[i]].sum = cur[c] /\ body' = body /\ gen' = gen
        BY <2>2, <3>1, <3>5 DEF Encode, TypeOK, Place
      <4>2. ASSUME quiet[c], meta'[Target[i]].state = "doc" PROVE Good(i)'
        <5>1. cur[c] = Held(i)
          BY <3>1, <3>5, <4>2 DEF Encode, SumOK
        <5>2. Held(i)' = Held(i)
          BY <4>1 DEF Held, Original
        <5>3. QED
          BY <4>1, <4>2, <5>1, <5>2 DEF Good
      <4>3. ~ (Pending(c, k, j)' /\ i \in Created)
        <5>1. \/ turn'[c] = turn[c] + 1
              \/ turn'[c] = turn[c] /\ step'[c] = step[c] + 1
          BY <3>1, <3>5, AdvanceType DEF Encode
        <5>2. turn[c] \in Nat /\ step[c] \in Nat
          BY DEF TypeOK
        <5>3. QED
          BY <3>2, <5>1, <5>2 DEF Pending
      <4>4. QED
        BY <2>3, <4>2, <4>3
    <3>6. CASE Local(c) \/ Link(c)
      <4>1. body' = body /\ gen' = gen /\ meta' = meta
        BY <3>6, LocalSteps DEF Link, files
      <4>2. QED
        BY <2>7, <4>1 DEF Held, Original
    <3>7. QED
      BY <3>3, <3>4, <3>5, <3>6, FileSteps
  <2>8. QED
    BY <2>6, <2>7
<1>3. QED
  BY <1>1, <1>2
----------------------------------------------------------------------------
Consistent ==
    \A c \in Command : SumOK(c) /\ TurnOK(c) /\ DoneOK(c) /\ FirstOK(c)

LEMMA ConsistentInit == Init => Consistent
<1> SUFFICES ASSUME Init, NEW c \in Command
             PROVE  SumOK(c) /\ TurnOK(c) /\ DoneOK(c) /\ FirstOK(c)
  BY DEF Consistent
<1>1. pc[c] = "walk" /\ turn[c] = 1 /\ step[c] = 1
  BY DEF Init
<1>2. \A k \in DOMAIN Todo[c] : ~ (k < 1)
  BY PlanAssumption
<1>3. \A f \in Path : meta[f].state = "none"
  BY DEF Init
<1>4. FirstOK(c)
  BY <1>3, SlotType, ItemAssumption DEF FirstOK
<1>5. QED
  BY <1>1, <1>2, <1>4 DEF SumOK, TurnOK, DoneOK, Busy

(* A step of another command leaves all of it as it is.                    *)
LEMMA OtherConsistent ==
    ASSUME Distinct, TypeOK, Owned, NEW c \in Command, NEW d \in Command,
           c # d, Act(d), SumOK(c), TurnOK(c), DoneOK(c), FirstOK(c)
    PROVE  (SumOK(c) /\ TurnOK(c) /\ DoneOK(c) /\ FirstOK(c))'
<1>1. Same(c)
  BY OthersSame
<1>2. Current(c)' = Current(c) /\ Here(c)' = Here(c)
  BY <1>1 DEF Same, Current, Here
<1>3. ASSUME NEW k \in DOMAIN Todo[c], NEW j \in DOMAIN Plan[Todo[c][k]]
      PROVE  /\ meta'[Target[Plan[Todo[c][k]][j]]]
                   = meta[Target[Plan[Todo[c][k]][j]]]
             /\ Held(Plan[Todo[c][k]][j])' = Held(Plan[Todo[c][k]][j])
  <2>1. Plan[Todo[c][k]][j] \in Item
    BY SlotType
  <2>2. pc[d] \in Busy => Here(d) # Plan[Todo[c][k]][j]
    BY Apart
  <2>3. QED
    BY <2>1, <2>2, ItemSame DEF Distinct
<1>4. pc[c] \in Busy =>
        /\ Held(Here(c))' = Held(Here(c))
        /\ Held(Current(c))' = Held(Current(c))
  <2>1. SUFFICES ASSUME pc[c] \in Busy
                 PROVE  /\ Held(Here(c))' = Held(Here(c))
                        /\ Held(Current(c))' = Held(Current(c))
    OBVIOUS
  <2>2. PICK k, j, p : k = turn[c] /\ j = step[c] /\ p = Current(c)
    OBVIOUS
  <2>3. /\ k \in DOMAIN Todo[c] /\ j \in DOMAIN Plan[Todo[c][k]]
        /\ p = Todo[c][k] /\ p \in Product
        /\ Here(c) = Plan[Todo[c][k]][j]
    BY <2>1, <2>2, HereType DEF Current, Here
  <2>4. Len(Plan[p]) \in DOMAIN Plan[p] /\ p = Plan[p][Len(Plan[p])]
    BY <2>3, PlanAssumption
  <2>5. /\ Held(Plan[Todo[c][k]][j])' = Held(Plan[Todo[c][k]][j])
        /\ Held(p)' = Held(p)
    BY <1>3, <2>3, <2>4
  <2>6. QED
    BY <1>2, <2>2, <2>3, <2>5 DEF Held, Original
<1>5. SumOK(c)'
  BY <1>1, <1>2, <1>4 DEF SumOK, Same, Busy
<1>6. TurnOK(c)'
  BY <1>1 DEF TurnOK, Same
<1>7. FirstOK(c)'
  <2>1. SUFFICES ASSUME run[c] = 1,
                        NEW k \in DOMAIN Todo[c],
                        NEW j \in DOMAIN Plan[Todo[c][k]],
                        NEW i, i = Plan[Todo[c][k]][j]
                 PROVE  /\ Pending(c, k, j)' /\ i \in Created
                              => meta'[Target[i]].state # "doc"
                        /\ quiet'[c] /\ meta'[Target[i]].state = "doc"
                              => Good(i)'
    BY <1>1 DEF FirstOK, Same
  <2>2. meta'[Target[i]] = meta[Target[i]] /\ Held(i)' = Held(i)
    BY <1>3, <2>1
  <2>3. Pending(c, k, j)' = Pending(c, k, j) /\ quiet'[c] = quiet[c]
    BY <1>1 DEF Pending, Same
  <2>4. QED
    BY <2>1, <2>2, <2>3 DEF FirstOK, Good
<1>8. DoneOK(c)'
  <2>1. SUFFICES ASSUME Clean(c)' PROVE DoneOK(c)'
    BY DEF DoneOK
  <2>2. Clean(c)
    BY <1>1, <2>1 DEF Clean, Same
  <2>3. \A k \in DOMAIN Todo[c] : k < turn[c] =>
            Optional(Todo[c][k]) \/ Complete(Todo[c][k])'
    BY <2>2, CompleteSame DEF DoneOK
  <2>4. Past(c)'
    BY <1>1, <2>3 DEF Past, Same
  <2>5. ASSUME pc[c] \in Busy PROVE Links(c)' /\ Tables(c)'
    <3>1. PICK k, p, n : k = turn[c] /\ p = Current(c) /\ n = step[c]
      OBVIOUS
    <3>2. k \in DOMAIN Todo[c] /\ p = Todo[c][k] /\ n \in Nat
      BY <2>5, <3>1, HereType DEF TypeOK, Current
    <3>3. \A f \in links[c] : Derived(p, n, f)
      BY <2>2, <2>5, <3>1 DEF DoneOK
    <3>4. \A f \in links[c] : Derived(p, n, f)'
      BY <3>2, <3>3, DerivedSame
    <3>5. Links(c)'
      BY <1>1, <1>2, <3>1, <3>4 DEF Links, Derived, Same
    <3>6. Tables(c)'
      BY <1>1, <1>2, <2>2, <2>5 DEF DoneOK, Tables, Same
    <3>7. QED
      BY <3>5, <3>6
  <2>6. QED
    BY <1>1, <2>4, <2>5 DEF DoneOK, Past, Links, Tables, Same
<1>9. QED
  BY <1>5, <1>6, <1>7, <1>8

LEMMA ConsistentNext ==
    ASSUME Distinct
    PROVE  TypeOK /\ Owned /\ Consistent /\ [Next]_vars => Consistent'
<1> SUFFICES ASSUME TypeOK, Owned, Consistent, [Next]_vars, NEW c \in Command
             PROVE  (SumOK(c) /\ TurnOK(c) /\ DoneOK(c) /\ FirstOK(c))'
  BY DEF Consistent
<1>0. SumOK(c) /\ TurnOK(c) /\ DoneOK(c) /\ FirstOK(c)
  BY DEF Consistent
<1>1. CASE Act(c)
  BY <1>0, <1>1, SumNext, TurnNext, DoneNext, FirstNext DEF Distinct
<1>2. ASSUME NEW d \in Command, d # c, Act(d)
      PROVE  (SumOK(c) /\ TurnOK(c) /\ DoneOK(c) /\ FirstOK(c))'
  BY <1>0, <1>2, OtherConsistent
<1>3. ASSUME NEW s \in Source, Edit(s) \/ Replace(s)
      PROVE  (SumOK(c) /\ TurnOK(c) /\ DoneOK(c) /\ FirstOK(c))'
  <2>1. /\ quiet'[c] = FALSE
        /\ meta' = meta /\ pc' = pc /\ turn' = turn /\ step' = step
        /\ run' = run
    BY <1>3 DEF Edit, Replace, Changed
  <2>2. FirstOK(c)'
    BY <1>0, <2>1 DEF FirstOK, Pending
  <2>3. QED
    BY <1>0, <2>1, <2>2 DEF SumOK, TurnOK, DoneOK, Clean
<1>4. CASE UNCHANGED vars
  <2>1. /\ body' = body /\ gen' = gen /\ meta' = meta /\ pc' = pc
        /\ turn' = turn /\ step' = step /\ sum' = sum /\ cur' = cur
        /\ links' = links /\ run' = run /\ reported' = reported
        /\ aborted' = aborted /\ quiet' = quiet
    BY <1>4 DEF vars, files, procs
  <2>2. SumOK(c)' /\ TurnOK(c)'
    BY <1>0, <2>1 DEF SumOK, TurnOK, Held, Original, Current, Here
  <2>3. FirstOK(c)'
    BY <1>0, <2>1 DEF FirstOK, Pending, Good, Held, Original
  <2>4. DoneOK(c)'
    <3>1. \A p, n, f : Derived(p, n, f)' <=> Derived(p, n, f)
      BY <2>1 DEF Derived, Good, Held, Original
    <3>2. \A p : Complete(p)' <=> Complete(p)
      BY <2>1, <3>1 DEF Complete, Collected, Good, Held, Original
    <3>3. Current(c)' = Current(c)
      BY <2>1 DEF Current
    <3>4. QED
      BY <1>0, <2>1, <3>1, <3>2, <3>3 DEF DoneOK, Clean
  <2>5. QED
    BY <2>2, <2>3, <2>4
<1>5. QED
  BY <1>1, <1>2, <1>3, <1>4, NextCases

LEMMA GoodIsDescribed ==
    ASSUME TypeOK, Owned, NoOrphanMetadata, NEW i \in Item, Good(i)
    PROVE  Described(i)
<1>1. Target[i] \in Path
  BY ItemAssumption
<1>2. entry[Target[i]].kind # "none"
  BY <1>1 DEF Good, NoOrphanMetadata
<1>3. QED
  BY <1>2, SteadyHolds DEF Good, Described

(* A run without an error leaves a consistent archive, whatever the runs   *)
(* before it left, and whatever the other commands do.                     *)
THEOREM CleanRuns ==
    ASSUME Distinct
    PROVE  Spec => []CleanRunIsConsistent
<1>1. TypeOK /\ Owned /\ NoOrphanMetadata /\ Consistent => CleanRunIsConsistent
  <2> SUFFICES ASSUME TypeOK, Owned, NoOrphanMetadata, Consistent,
                      NEW c \in Command, pc[c] = "done", Clean(c),
                      NEW k \in DOMAIN Todo[c], ~ Optional(Todo[c][k])
               PROVE  Filed(Todo[c][k])
    BY DEF CleanRunIsConsistent
  <2> DEFINE p == Todo[c][k]
  <2>1. k < turn[c]
    BY PlanAssumption DEF TypeOK, Consistent, TurnOK
  <2>2. Complete(p)
    BY <2>1 DEF Consistent, DoneOK
  <2>3. p \in Product /\ p \in Item
    BY PlanAssumption, ProductIsItem
  <2>4. Described(p)
    BY <2>2, <2>3, GoodIsDescribed DEF Complete
  <2>5. ASSUME NEW i \in Item, Target[i] \in Collected(p)
        PROVE  Described(i) /\ Target[p] \in meta[Target[i]].links
    <3>1. PICK j \in DOMAIN Plan[p] : /\ Target[i] = Target[Plan[p][j]]
                                      /\ Good(Plan[p][j])
                                      /\ Target[p] \in meta[Target[i]].links
      BY <2>2, <2>5 DEF Complete, Derived
    <3>2. i = Plan[p][j]
      BY <3>1, SlotType DEF Distinct, OwnPlaces
    <3>3. QED
      BY <3>1, <3>2, GoodIsDescribed
  <2>6. QED
    BY <2>4, <2>5 DEF Filed
<1>2. Init => NoOrphanMetadata
  BY DEF Init, NoOrphanMetadata
<1>3. OwnPlaces
  BY DEF Distinct
<1>4. QED
  BY <1>1, <1>2, <1>3, TypeInit, TypeNext, InHandInit, InHandNext, OrphanNext,
     OwnedInit, OwnedNext, ConsistentInit, ConsistentNext, PTL DEF Spec

(* The documents that a first run writes are right, even when it fails or  *)
(* is killed.                                                              *)
THEOREM FirstRuns ==
    ASSUME Distinct
    PROVE  Spec => []FirstRunIsTrue
<1>1. TypeOK /\ Owned /\ NoOrphanMetadata /\ Consistent => FirstRunIsTrue
  <2> SUFFICES ASSUME TypeOK, Owned, NoOrphanMetadata, Consistent,
                      NEW c \in Command, run[c] = 1, quiet[c],
                      NEW k \in DOMAIN Todo[c],
                      NEW j \in DOMAIN Plan[Todo[c][k]],
                      meta[Target[Plan[Todo[c][k]][j]]].state = "doc"
               PROVE  Described(Plan[Todo[c][k]][j])
    BY DEF FirstRunIsTrue
  <2>1. Good(Plan[Todo[c][k]][j])
    BY DEF Consistent, FirstOK
  <2>2. QED
    BY <2>1, SlotType, GoodIsDescribed
<1>2. Init => NoOrphanMetadata
  BY DEF Init, NoOrphanMetadata
<1>3. OwnPlaces
  BY DEF Distinct
<1>4. QED
  BY <1>1, <1>2, <1>3, TypeInit, TypeNext, InHandInit, InHandNext, OrphanNext,
     OwnedInit, OwnedNext, ConsistentInit, ConsistentNext, PTL DEF Spec
============================================================================
