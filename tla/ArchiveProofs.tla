--------------------------- MODULE ArchiveProofs ---------------------------
(***************************************************************************)
(* What holds of the archive for every number of commands, items, runs and *)
(* changes of the sources, and that it implements the catalogue.           *)
(***************************************************************************)
EXTENDS Archive, TLAPS

Busy == {"step", "place", "fill", "meta", "text"}

LEMMA Kinds ==
    ASSUME NEW i \in Item
    PROVE  /\ i \in Product => i \in Linked
           /\ i \in Linked \/ i \in Created
           /\ ~ (i \in Linked /\ i \in Created)
           /\ Kind[i] = "table" => i \in Linked \ Product
           /\ i \in Linked \ Product => Kind[i] = "table"
           /\ i \in Created <=> Kind[i] \in {"output", "image"}
BY ItemAssumption DEF Product, Linked, Created

LEMMA ProductIsItem == Product \subseteq Item
BY DEF Product

LEMMA OpenedType ==
    ASSUME TypeOK, NEW f \in Path
    PROVE  Opened(f) \in Inode
BY DataAssumption DEF TypeOK, Opened, Original, Inode, Entry

LEMMA HereType ==
    ASSUME TypeOK, NEW c \in Command, pc[c] \in Busy
    PROVE  /\ Current(c) \in Product
           /\ Here(c) \in Item
           /\ Place(c) \in Path
           /\ Here(c) \in Product => Here(c) = Current(c)
           /\ step[c] \in DOMAIN Plan[Current(c)]
           /\ turn[c] \in DOMAIN Todo[c]
           /\ Plan[Current(c)] \in Seq(Item)
<1>1. turn[c] \in DOMAIN Todo[c] /\ step[c] \in DOMAIN Plan[Todo[c][turn[c]]]
  BY DEF TypeOK, Busy
<1>2. Current(c) \in Product
  BY <1>1, PlanAssumption DEF Current
<1>3. Here(c) \in Item
  BY <1>1, <1>2, PlanAssumption DEF Current, Here
<1>4. QED
  BY <1>1, <1>2, <1>3, PlanAssumption, ItemAssumption, ProductIsItem
     DEF Current, Here, Place
----------------------------------------------------------------------------
(* Moving on leaves the command in its plan or between two products.       *)
LEMMA LeaveType ==
    ASSUME TypeOK, NEW c \in Command, Leave(c)
    PROVE  /\ pc' \in [Command -> {"walk", "step", "place", "fill", "meta",
                                   "text", "done", "down"}]
           /\ turn' \in [Command -> Nat \ {0}]
           /\ step' \in [Command -> Nat \ {0}]
           /\ pc'[c] = "walk"
           /\ turn'[c] = turn[c] + 1
           /\ step'[c] = 1
           /\ \A d \in Command \ {c} : /\ pc'[d] = pc[d]
                                       /\ turn'[d] = turn[d]
                                       /\ step'[d] = step[d]
BY DEF TypeOK, Leave

LEMMA AdvanceType ==
    ASSUME TypeOK, NEW c \in Command, pc[c] \in Busy, Advance(c)
    PROVE  /\ pc' \in [Command -> {"walk", "step", "place", "fill", "meta",
                                   "text", "done", "down"}]
           /\ turn' \in [Command -> Nat \ {0}]
           /\ step' \in [Command -> Nat \ {0}]
           /\ \/ /\ pc'[c] = "walk"
                 /\ turn'[c] = turn[c] + 1
                 /\ step'[c] = 1
                 /\ step[c] = Len(Plan[Current(c)])
              \/ /\ pc'[c] = "step"
                 /\ turn'[c] = turn[c]
                 /\ step'[c] = step[c] + 1
                 /\ step'[c] \in DOMAIN Plan[Todo[c][turn[c]]]
           /\ \A d \in Command \ {c} : /\ pc'[d] = pc[d]
                                       /\ turn'[d] = turn[d]
                                       /\ step'[d] = step[d]
<1>1. CASE Leave(c) /\ step[c] = Len(Plan[Current(c)])
  BY <1>1, LeaveType
<1>2. CASE /\ step[c] < Len(Plan[Current(c)])
           /\ pc' = [pc EXCEPT ![c] = "step"]
           /\ step' = [step EXCEPT ![c] = @ + 1]
           /\ UNCHANGED turn
  <2>1. step[c] + 1 \in DOMAIN Plan[Current(c)]
    BY <1>2, HereType
  <2>2. QED
    BY <1>2, <2>1 DEF TypeOK, Current
<1>3. QED
  BY <1>1, <1>2 DEF Advance

LEMMA TypeInit == Init => TypeOK
<1> SUFFICES ASSUME Init PROVE TypeOK
  OBVIOUS
<1>1. PICK first \in [Source -> Content] :
         body = [n \in Inode |-> IF n[1] \in Source /\ n[2] = 0
                                 THEN first[n[1]] ELSE Partial]
  BY DEF Init
<1>2. body \in [Inode -> Bytes]
  BY <1>1 DEF Bytes
<1>3. (CHOOSE n \in Inode : TRUE) \in Inode
  <2>1. PICK f \in Path : TRUE
    BY DataAssumption
  <2>2. <<f, 0>> \in Inode
    BY <2>1, BoundsAssumption DEF Inode
  <2>3. QED
    BY <2>2
<1>4. entry \in [Path -> Entry]
  BY BoundsAssumption DEF Init, Entry, Inode
<1>5. QED
  BY <1>2, <1>3, <1>4, BoundsAssumption DEF Init, TypeOK, Meta, Bytes

LEMMA NewLinkType ==
    ASSUME TypeOK, NEW i \in Linked, LinkKind[i] # "other"
    PROVE  /\ NewLink(i) \in Entry
           /\ NewLink(i).kind # "none"
           /\ NewLink(i).kind = "sym" => NewLink(i).ino[1] \in Source
<1>1. /\ Origin[i] \in Source
      /\ LinkKind[i] \in {"hard", "soft", "relative"}
  BY ItemAssumption
<1>2. /\ Original(Origin[i]) \in Inode
      /\ <<Origin[i], 0>> \in Inode
  BY <1>1, BoundsAssumption DEF TypeOK, Original, Inode
<1>3. QED
  BY <1>1, <1>2 DEF NewLink, Entry

LEMMA SumsType ==
    ASSUME TypeOK, NEW c \in Command, pc[c] \in Busy
    PROVE  Sums(c) \subseteq Bytes
<1>1. Here(c) \in Item
  BY HereType
<1>2. CASE Here(c) \in Product
  <2>1. Kind[Here(c)] # "table" /\ Here(c) \notin Created
    BY <1>1, <1>2, Kinds
  <2>2. Sums(c) = {sum[c]}
    BY <1>2, <2>1 DEF Sums
  <2>3. QED
    BY <2>2 DEF TypeOK
<1>3. CASE Kind[Here(c)] = "table"
  <2>1. /\ Here(c) \notin Product
        /\ Here(c) \in Linked
    BY <1>1, <1>3, Kinds
  <2>2. Original(Origin[Here(c)]) \in Inode
    BY <2>1, ItemAssumption DEF TypeOK, Original, Inode
  <2>3. Sums(c) = {body[Original(Origin[Here(c)])]}
    BY <1>1, <1>3, <2>1, Kinds DEF Sums
  <2>4. QED
    BY <2>2, <2>3 DEF TypeOK
<1>4. CASE Here(c) \in Created
  BY <1>1, <1>4, Kinds DEF Sums, Bytes
<1>5. QED
  BY <1>1, <1>2, <1>3, <1>4, Kinds

(* Every step keeps the types, and every busy command within its plan.     *)
LEMMA TypeNext == TypeOK /\ [Next]_vars => TypeOK'
<1> SUFFICES ASSUME TypeOK, [Next]_vars PROVE TypeOK'
  OBVIOUS
<1>1. ASSUME NEW c \in Command, ReadSource(c) PROVE TypeOK'
  <2>1. Current(c) \in Product
    BY <1>1, PlanAssumption DEF ReadSource, Current
  <2>2. Original(Origin[Current(c)]) \in Inode
    BY <2>1, ProductIsItem, Kinds, ItemAssumption
    DEF TypeOK, Original, Inode
  <2>3. 1 \in DOMAIN Plan[Current(c)]
    BY <2>1, PlanAssumption
  <2>4. QED
    BY <1>1, <2>2, <2>3 DEF TypeOK, ReadSource, files, Current
<1>2. ASSUME NEW c \in Command, ReadFails(c) PROVE TypeOK'
  BY <1>2, LeaveType DEF TypeOK, ReadFails, files
<1>3. ASSUME NEW c \in Command, WalkAborts(c) PROVE TypeOK'
  <2>1. Len(Todo[c]) \in Nat
    BY PlanAssumption
  <2>2. turn' \in [Command -> Nat \ {0}]
    BY <1>3, <2>1 DEF TypeOK, WalkAborts
  <2>3. \A d \in Command : pc[d] \in Busy => turn'[d] = turn[d]
    BY <1>3 DEF TypeOK, WalkAborts, Busy
  <2>4. QED
    BY <1>3, <2>2, <2>3 DEF TypeOK, WalkAborts, files, Busy
<1>4. ASSUME NEW c \in Command, EndRun(c) PROVE TypeOK'
  BY <1>4 DEF TypeOK, EndRun, files
<1>5. ASSUME NEW c \in Command, SkipNote(c) PROVE TypeOK'
  BY <1>5, LeaveType DEF TypeOK, SkipNote, files
<1>6. ASSUME NEW c \in Command, Prepare(c) PROVE TypeOK'
  BY <1>6, SumsType DEF TypeOK, Prepare, files, Busy
<1>7. ASSUME NEW c \in Command, Link(c) PROVE TypeOK'
  <2>1. Place(c) \in Path /\ Here(c) \in Linked
    BY <1>7, HereType DEF Link, Busy
  <2>2. /\ NewLink(Here(c)) \in Entry
        /\ NewLink(Here(c)).kind = "sym" => NewLink(Here(c)).ino[1] \in Source
    BY <1>7, <2>1, NewLinkType DEF Link
  <2>3. /\ entry' \in [Path -> Entry]
        /\ \A f \in Path : entry'[f].kind = "sym" => entry'[f].ino[1] \in Source
    BY <1>7, <2>1, <2>2 DEF TypeOK, Link
  <2>4. QED
    BY <1>7, <2>3 DEF TypeOK, Link
<1>8. ASSUME NEW c \in Command, Truncate(c) PROVE TypeOK'
  <2>1. Place(c) \in Path
    BY <1>8, HereType DEF Truncate, Busy
  <2>2. <<Place(c), 0>> \in Inode /\ Opened(Place(c)) \in Inode
    BY <2>1, OpenedType, BoundsAssumption DEF Inode
  <2>3. [kind |-> "file", ino |-> <<Place(c), 0>>] \in Entry
    BY <2>2 DEF Entry
  <2>4. entry' \in [Path -> Entry]
    BY <1>8, <2>1, <2>3 DEF TypeOK, Truncate
  <2>5. body' \in [Inode -> Bytes] /\ fd' \in [Command -> Inode]
    BY <1>8, <2>2 DEF TypeOK, Truncate, Bytes
  <2>6. QED
    BY <1>8, <2>1, <2>4, <2>5 DEF TypeOK, Truncate
<1>9. ASSUME NEW c \in Command, Fill(c) PROVE TypeOK'
  BY <1>9 DEF TypeOK, Fill
<1>10. ASSUME NEW c \in Command, CreateMeta(c) PROVE TypeOK'
  BY <1>10, HereType DEF TypeOK, CreateMeta, Blank, Meta, Bytes, Busy
<1>11. ASSUME NEW c \in Command, Encode(c) PROVE TypeOK'
  <2>1. Place(c) \in Path /\ Current(c) \in Product /\ pc[c] \in Busy
    BY <1>11, HereType DEF Encode, Busy
  <2>2. LinksOf(c) \subseteq Path
    BY <2>1, ItemAssumption, PlanAssumption, ProductIsItem
    DEF LinksOf, Inherited, TypeOK
  <2>3. links' \in [Command -> SUBSET Path]
    BY <1>11, <2>1 DEF TypeOK, Encode
  <2>4. meta' \in [Path -> Meta]
    BY <1>11, <2>1, <2>2 DEF TypeOK, Encode, Meta
  <2>5. QED
    BY <1>11, <2>1, <2>3, <2>4, AdvanceType DEF TypeOK, Encode
<1>12. ASSUME NEW c \in Command, ItemFails(c) PROVE TypeOK'
  <2>1. pc[c] \in Busy
    BY <1>12 DEF ItemFails, Busy
  <2>2. \A v \in Verdicts(Here(c), pc[c]) : v \in BOOLEAN
    BY <2>1, HereType, Kinds DEF Verdicts
  <2>3. reported' \in [Command -> BOOLEAN]
    BY <1>12, <2>2 DEF TypeOK, ItemFails
  <2>4. Leave(c) \/ Advance(c)
    BY <1>12 DEF ItemFails
  <2>5. QED
    BY <1>12, <2>1, <2>3, <2>4, LeaveType, AdvanceType
    DEF TypeOK, ItemFails, files
<1>13. ASSUME NEW c \in Command, Kill(c) PROVE TypeOK'
  BY <1>13 DEF TypeOK, Kill, files
<1>14. ASSUME NEW c \in Command, Rerun(c) PROVE TypeOK'
  BY <1>14, BoundsAssumption DEF TypeOK, Rerun, files
<1>15. ASSUME NEW s \in Source, Edit(s) PROVE TypeOK'
  <2>1. body' \in [Inode -> Bytes]
    BY <1>15 DEF TypeOK, Edit, Bytes
  <2>2. edits' \in 0 .. MaxEdits
    BY <1>15, BoundsAssumption DEF TypeOK, Edit, Changed
  <2>3. QED
    BY <1>15, <2>1, <2>2 DEF TypeOK, Edit, Changed
<1>16. ASSUME NEW s \in Source, Replace(s) PROVE TypeOK'
  <2>1. body' \in [Inode -> Bytes]
    BY <1>16 DEF TypeOK, Replace, Bytes
  <2>2. edits' \in 0 .. MaxEdits /\ gen' \in [Source -> 0 .. MaxReplaces]
    BY <1>16, BoundsAssumption DEF TypeOK, Replace, Changed
  <2>3. QED
    BY <1>16, <2>1, <2>2 DEF TypeOK, Replace, Changed
<1>17. CASE UNCHANGED vars
  BY <1>17 DEF TypeOK, vars, files, procs
<1>18. QED
  BY <1>1, <1>2, <1>3, <1>4, <1>5, <1>6, <1>7, <1>8, <1>9, <1>10, <1>11,
     <1>12, <1>13, <1>14, <1>15, <1>16, <1>17 DEF Next, Work

(* The state stays well formed; the last part says that no command ever    *)
(* runs past the end of a plan or of its walk.                             *)
THEOREM TypeCorrect == Spec => []TypeOK
BY TypeInit, TypeNext, PTL DEF Spec
----------------------------------------------------------------------------
(* What a step of one command leaves alone.                                *)

Same(c) ==
    /\ pc'[c] = pc[c]
    /\ turn'[c] = turn[c]
    /\ step'[c] = step[c]
    /\ sum'[c] = sum[c]
    /\ cur'[c] = cur[c]
    /\ fd'[c] = fd[c]
    /\ links'[c] = links[c]
    /\ run'[c] = run[c]
    /\ reported'[c] = reported[c]
    /\ aborted'[c] = aborted[c]
    /\ quiet'[c] = quiet[c]

Act(c) == Work(c) \/ Kill(c) \/ Rerun(c)

LEMMA NextCases ==
    ASSUME [Next]_vars
    PROVE  \/ \E c \in Command : Act(c)
           \/ \E s \in Source : Edit(s) \/ Replace(s)
           \/ UNCHANGED vars
BY DEF Next, Act

(* A command does not touch the local state of another one.                *)
LEMMA OthersSame ==
    ASSUME TypeOK, NEW d \in Command, Act(d), NEW c \in Command, c # d
    PROVE  Same(c)
<1>1. CASE ReadSource(d)
  BY <1>1 DEF TypeOK, ReadSource, Same
<1>2. CASE ReadFails(d)
  BY <1>2, LeaveType DEF TypeOK, ReadFails, Same
<1>3. CASE WalkAborts(d)
  BY <1>3 DEF TypeOK, WalkAborts, Same
<1>4. CASE EndRun(d)
  BY <1>4 DEF TypeOK, EndRun, Same
<1>5. CASE SkipNote(d)
  BY <1>5, LeaveType DEF TypeOK, SkipNote, Same
<1>6. CASE Prepare(d)
  BY <1>6 DEF TypeOK, Prepare, Same
<1>7. CASE Link(d)
  BY <1>7 DEF TypeOK, Link, Same
<1>8. CASE Truncate(d)
  BY <1>8 DEF TypeOK, Truncate, Same
<1>9. CASE Fill(d)
  BY <1>9 DEF TypeOK, Fill, Same
<1>10. CASE CreateMeta(d)
  BY <1>10 DEF TypeOK, CreateMeta, Same
<1>11. CASE Encode(d)
  BY <1>11, AdvanceType DEF TypeOK, Encode, Same, Busy
<1>12. CASE ItemFails(d)
  <2>1. Leave(d) \/ (pc[d] \in Busy /\ Advance(d))
    BY <1>12 DEF ItemFails, Busy
  <2>2. QED
    BY <1>12, <2>1, LeaveType, AdvanceType DEF TypeOK, ItemFails, Same
<1>13. CASE Kill(d)
  BY <1>13 DEF TypeOK, Kill, Same
<1>14. CASE Rerun(d)
  BY <1>14 DEF TypeOK, Rerun, Same
<1>15. QED
  BY <1>1, <1>2, <1>3, <1>4, <1>5, <1>6, <1>7, <1>8, <1>9, <1>10, <1>11,
     <1>12, <1>13, <1>14 DEF Act, Work

(* The steps of a command that do not touch the files.                     *)
Local(c) ==
    \/ ReadSource(c) \/ ReadFails(c) \/ WalkAborts(c) \/ EndRun(c)
    \/ SkipNote(c) \/ Prepare(c) \/ ItemFails(c) \/ Kill(c) \/ Rerun(c)

LEMMA FileSteps ==
    ASSUME NEW d \in Command, Act(d)
    PROVE  \/ Local(d)
           \/ Link(d) \/ Truncate(d) \/ Fill(d) \/ CreateMeta(d) \/ Encode(d)
BY DEF Act, Work, Local

LEMMA LocalSteps ==
    ASSUME TypeOK, NEW d \in Command, Local(d)
    PROVE  /\ UNCHANGED files
           /\ pc'[d] \in {"walk", "step", "place", "done", "down"}
           /\ links'[d] \subseteq links[d]
<1>1. UNCHANGED files
  BY DEF Local, ReadSource, ReadFails, WalkAborts, EndRun, SkipNote, Prepare,
         ItemFails, Kill, Rerun
<1>2. CASE ReadSource(d)
  BY <1>1, <1>2 DEF TypeOK, ReadSource
<1>3. CASE ReadFails(d) \/ SkipNote(d)
  BY <1>1, <1>3, LeaveType DEF ReadFails, SkipNote
<1>4. CASE WalkAborts(d) \/ EndRun(d) \/ Prepare(d) \/ Kill(d) \/ Rerun(d)
  BY <1>1, <1>4 DEF TypeOK, WalkAborts, EndRun, Prepare, Kill, Rerun
<1>5. CASE ItemFails(d)
  <2>1. Leave(d) \/ (pc[d] \in Busy /\ Advance(d))
    BY <1>5 DEF ItemFails, Busy
  <2>2. QED
    BY <1>1, <1>5, <2>1, LeaveType, AdvanceType DEF ItemFails
<1>6. QED
  BY <1>2, <1>3, <1>4, <1>5 DEF Local

(* What is in the archive stays there; the commands leave the names of the *)
(* sources and the counter of changes alone.                               *)
LEMMA NothingLost ==
    ASSUME TypeOK, [Next]_vars, NEW f \in Path
    PROVE  /\ entry[f].kind # "none" => entry'[f] = entry[f]
           /\ meta[f].state # "none" => meta'[f].state # "none"
<1>1. ASSUME NEW d \in Command, Act(d)
      PROVE  /\ entry[f].kind # "none" => entry'[f] = entry[f]
             /\ meta[f].state # "none" => meta'[f].state # "none"
  <2>1. CASE Local(d)
    BY <2>1, LocalSteps DEF files
  <2>2. CASE Link(d)
    BY <2>2 DEF TypeOK, Link
  <2>3. CASE Truncate(d)
    BY <2>3 DEF TypeOK, Truncate, Readable, Entry
  <2>4. CASE Fill(d)
    BY <2>4 DEF Fill
  <2>5. CASE CreateMeta(d)
    BY <2>5 DEF TypeOK, CreateMeta, Blank
  <2>6. CASE Encode(d)
    BY <2>6 DEF TypeOK, Encode
  <2>7. QED
    BY <1>1, <2>1, <2>2, <2>3, <2>4, <2>5, <2>6, FileSteps
<1>2. ASSUME NEW s \in Source, Edit(s) \/ Replace(s)
      PROVE  entry' = entry /\ meta' = meta
  BY <1>2 DEF Edit, Replace
<1>3. QED
  BY <1>1, <1>2, NextCases DEF vars, files

LEMMA NothingGained ==
    ASSUME [Next]_vars, ~ \E d \in Command : Act(d)
    PROVE  /\ entry' = entry
           /\ meta' = meta
           /\ \A c \in Command : /\ pc'[c] = pc[c]
                                 /\ turn'[c] = turn[c]
                                 /\ step'[c] = step[c]
                                 /\ sum'[c] = sum[c]
                                 /\ cur'[c] = cur[c]
                                 /\ fd'[c] = fd[c]
                                 /\ links'[c] = links[c]
                                 /\ run'[c] = run[c]
                                 /\ reported'[c] = reported[c]
                                 /\ aborted'[c] = aborted[c]
BY NextCases DEF Edit, Replace, Changed, vars, files, procs
----------------------------------------------------------------------------
(* An item gets its document after its data file: whoever is about to fill *)
(* or describe a place has put a file there, and so has whoever collected  *)
(* a link to it.                                                           *)
InHand ==
    \A c \in Command :
        /\ pc[c] \in {"fill", "meta", "text"} => entry[Place(c)].kind # "none"
        /\ \A f \in links[c] : entry[f].kind # "none" /\ meta[f].state # "none"

LEMMA InHandNext == TypeOK /\ InHand /\ [Next]_vars => InHand'
<1> SUFFICES ASSUME TypeOK, InHand, [Next]_vars, NEW c \in Command
             PROVE  InHand!(c)'
  BY DEF InHand
<1>1. links[c] \subseteq Path
  BY DEF TypeOK
<1>2. pc[c] \in Busy => Place(c) \in Path
  BY HereType
<1>3. CASE /\ pc'[c] = pc[c]
           /\ turn'[c] = turn[c]
           /\ step'[c] = step[c]
           /\ links'[c] = links[c]
  BY <1>1, <1>2, <1>3, NothingLost DEF InHand, Place, Here, Current, Busy
<1>4. CASE Act(c)
  <2>1. TypeOK'
    BY TypeNext
  <2>2. CASE Link(c)
    <3>1. entry'[Place(c)].kind # "none"
      BY <1>2, <2>2, NewLinkType DEF Link, TypeOK, Busy
    <3>2. Place(c)' = Place(c) /\ links' = links
      BY <2>2 DEF Link, Place, Here, Current
    <3>3. QED
      BY <1>1, <3>1, <3>2, NothingLost DEF InHand
  <2>3. CASE Truncate(c)
    <3>1. entry'[Place(c)].kind # "none"
      BY <1>2, <2>3 DEF Truncate, TypeOK, Readable, Busy
    <3>2. Place(c)' = Place(c) /\ links' = links
      BY <2>3 DEF Truncate, Place, Here, Current
    <3>3. QED
      BY <1>1, <3>1, <3>2, NothingLost DEF InHand
  <2>4. CASE Fill(c) \/ CreateMeta(c)
    <3>1. Place(c)' = Place(c) /\ links' = links /\ entry' = entry
      BY <2>4 DEF Fill, CreateMeta, Place, Here, Current
    <3>2. pc[c] \in {"fill", "meta"}
      BY <2>4 DEF Fill, CreateMeta
    <3>3. QED
      BY <1>1, <3>1, <3>2, NothingLost DEF InHand
  <2>5. CASE Encode(c)
    <3>1. pc'[c] \in {"walk", "step"}
      BY <2>5, AdvanceType DEF Encode, Busy
    <3>2. entry' = entry /\ entry[Place(c)].kind # "none"
      BY <2>5 DEF Encode, InHand
    <3>3. meta'[Place(c)].state # "none"
      BY <1>2, <2>5 DEF Encode, TypeOK, Busy
    <3>4. links'[c] \subseteq links[c] \cup {Place(c)}
      BY <2>5 DEF Encode, TypeOK
    <3>5. QED
      BY <1>1, <3>1, <3>2, <3>3, <3>4, NothingLost DEF InHand
  <2>6. CASE Local(c)
    BY <1>1, <2>6, LocalSteps, NothingLost DEF InHand
  <2>7. QED
    BY <1>4, <2>2, <2>3, <2>4, <2>5, <2>6, FileSteps
<1>5. QED
  BY <1>3, <1>4, NextCases, OthersSame, NothingGained DEF Same

LEMMA InHandInit == Init => InHand
BY DEF Init, InHand

LEMMA OrphanNext ==
    TypeOK /\ InHand /\ NoOrphanMetadata /\ [Next]_vars => NoOrphanMetadata'
<1> SUFFICES ASSUME TypeOK, InHand, NoOrphanMetadata, [Next]_vars,
                    NEW f \in Path, meta'[f].state # "none"
             PROVE  entry'[f].kind # "none"
  BY DEF NoOrphanMetadata
<1>1. CASE meta[f].state # "none"
  BY <1>1, NothingLost DEF NoOrphanMetadata
<1>2. CASE meta[f].state = "none"
  <2>1. PICK d \in Command : Act(d)
    BY <1>2, NothingGained
  <2>2. CreateMeta(d) \/ Encode(d)
    BY <1>2, <2>1, FileSteps, LocalSteps DEF Link, Truncate, Fill, files
  <2>3. f = Place(d) /\ entry' = entry /\ pc[d] \in {"meta", "text"}
    BY <1>2, <2>2 DEF CreateMeta, Encode, TypeOK
  <2>4. QED
    BY <2>3 DEF InHand
<1>3. QED
  BY <1>1, <1>2

(* No document without its data file: for any plans, patterns, link kinds, *)
(* failures and crashes, and any number of commands on the same places.    *)
THEOREM NoOrphan == Spec => []NoOrphanMetadata
<1>1. Init => NoOrphanMetadata
  BY DEF Init, NoOrphanMetadata
<1>2. QED
  BY <1>1, TypeInit, TypeNext, InHandInit, InHandNext, OrphanNext, PTL DEF Spec
----------------------------------------------------------------------------
(* Where a place, or a file that WriteFile has open, leads to a source, a  *)
(* linked item with that place comes from the source.                      *)
Leads(f, s) == \E j \in Linked : Origin[j] = s /\ Target[j] = f

Traced ==
    /\ \A f \in Path : entry[f].ino[1] \in Source => Leads(f, entry[f].ino[1])
    /\ \A c \in Command : pc[c] = "fill" =>
         /\ Here(c) \in Created
         /\ fd[c][1] \in Source => Leads(Place(c), fd[c][1])

LEMMA TracedInit == Init => Traced
BY DataAssumption DEF Init, Traced

(* What a command truncates belongs to the place, or the place is a link.  *)
LEMMA TruncateTraced ==
    ASSUME TypeOK, Traced, NEW c \in Command, Truncate(c)
    PROVE  \E n \in Inode :
              /\ body' = [body EXCEPT ![n] = Partial]
              /\ fd' = [fd EXCEPT ![c] = n]
              /\ n[1] \in Source => Leads(Place(c), n[1])
<1>1. Place(c) \in Path
  BY HereType DEF Truncate, Busy
<1>2. CASE Readable(Place(c))
  <2>1. Opened(Place(c)) \in Inode
    BY <1>1, OpenedType
  <2>2. Opened(Place(c))[1] = entry[Place(c)].ino[1]
    BY DEF Opened, Original
  <2>3. QED
    BY <1>1, <1>2, <2>1, <2>2 DEF Truncate, Traced
<1>3. CASE ~ Readable(Place(c))
  <2>1. <<Place(c), 0>> \in Inode /\ Place(c) \notin Source
    BY <1>1, BoundsAssumption, DataAssumption DEF Inode
  <2>2. QED
    BY <1>3, <2>1 DEF Truncate
<1>4. QED
  BY <1>2, <1>3

LEMMA TracedNext == TypeOK /\ Traced /\ [Next]_vars => Traced'
<1> SUFFICES ASSUME TypeOK, Traced, [Next]_vars PROVE Traced'
  OBVIOUS
<1>1. ASSUME NEW f \in Path, entry'[f].ino[1] \in Source
      PROVE  Leads(f, entry'[f].ino[1])
  <2>1. CASE entry'[f] = entry[f]
    BY <1>1, <2>1 DEF Traced
  <2>2. CASE entry'[f] # entry[f]
    <3>1. PICK d \in Command : Link(d) \/ Truncate(d)
      BY <2>2, NothingGained, FileSteps, LocalSteps
      DEF Fill, CreateMeta, Encode, files
    <3>2. Place(d) = f /\ Here(d) \in Item
      BY <2>2, <3>1, HereType DEF Link, Truncate, TypeOK, Busy
    <3>3. CASE Link(d)
      <4>1. /\ entry'[f] = NewLink(Here(d))
            /\ Here(d) \in Linked /\ LinkKind[Here(d)] # "other"
        BY <1>1, <2>2, <3>2, <3>3 DEF Link, TypeOK
      <4>2. NewLink(Here(d)).ino[1] = Origin[Here(d)]
        BY <4>1, ItemAssumption DEF NewLink, Original
      <4>3. QED
        BY <3>2, <4>1, <4>2 DEF Leads, Place
    <3>4. CASE Truncate(d)
      <4>1. entry'[f].ino = <<f, 0>>
        BY <1>1, <2>2, <3>2, <3>4 DEF Truncate, TypeOK
      <4>2. QED
        BY <1>1, <4>1, DataAssumption
    <3>5. QED
      BY <3>1, <3>3, <3>4
  <2>3. QED
    BY <2>1, <2>2
<1>2. ASSUME NEW c \in Command, pc'[c] = "fill"
      PROVE  Here(c)' \in Created /\ (fd'[c][1] \in Source => Leads(Place(c)', fd'[c][1]))
  <2>1. CASE pc'[c] = pc[c] /\ turn'[c] = turn[c] /\ step'[c] = step[c]
             /\ fd'[c] = fd[c]
    BY <1>2, <2>1 DEF Traced, Place, Here, Current
  <2>2. CASE Truncate(c)
    <3>1. Here(c)' = Here(c) /\ Place(c)' = Place(c) /\ Here(c) \in Created
      BY <2>2 DEF Truncate, Place, Here, Current
    <3>2. fd'[c][1] \in Source => Leads(Place(c), fd'[c][1])
      BY <2>2, TruncateTraced DEF TypeOK
    <3>3. QED
      BY <3>1, <3>2
  <2>3. CASE Link(c) \/ Fill(c) \/ CreateMeta(c)
    BY <1>2, <2>3 DEF Link, Fill, CreateMeta, TypeOK
  <2>4. CASE Encode(c)
    BY <1>2, <2>4, AdvanceType DEF Encode, Busy
  <2>5. CASE Local(c)
    BY <1>2, <2>5, LocalSteps
  <2>6. QED
    BY <2>1, <2>2, <2>3, <2>4, <2>5, NextCases, FileSteps, OthersSame,
       NothingGained DEF Same
<1>3. QED
  BY <1>1, <1>2 DEF Traced

(* A command that writes to a source has an output or an image in hand to  *)
(* which the patterns gave the place of a link to that source; this for    *)
(* every configuration, whether or not items have places of their own.     *)
LEMMA SourcesStep ==
    ASSUME TypeOK, Traced, [Next]_vars, NEW n \in Inode,
           n[1] \in Source, body'[n] # body[n]
    PROVE  edits' = edits + 1 \/ \E c \in Command : Clash(c, n[1])
<1>1. ASSUME NEW d \in Command, Truncate(d) \/ Fill(d)
      PROVE  Clash(d, n[1])
  <2>1. Leads(Place(d), n[1])
    <3>1. CASE Truncate(d)
      BY <3>1, TruncateTraced DEF TypeOK
    <3>2. CASE Fill(d)
      BY <3>2 DEF Fill, Traced, TypeOK
    <3>3. QED
      BY <1>1, <3>1, <3>2
  <2>2. Here(d) \in Created /\ pc[d] \in {"place", "fill"}
    BY <1>1 DEF Truncate, Fill, Traced
  <2>3. QED
    BY <2>1, <2>2 DEF Clash, Leads, Place
<1>2. QED
  BY <1>1, NextCases, FileSteps, LocalSteps
  DEF Link, CreateMeta, Encode, Edit, Replace, Changed, vars, files

THEOREM SourcesSafe == Spec => SourcesPreserved
<1>1. TypeOK /\ Traced /\ [Next]_vars
        => [\A n \in Inode : n[1] \in Source /\ body'[n] # body[n]
                => edits' = edits + 1 \/ \E c \in Command : Clash(c, n[1])]_vars
  BY SourcesStep
<1>2. QED
  BY <1>1, TypeInit, TypeNext, TracedInit, TracedNext, PTL
  DEF Spec, SourcesPreserved
----------------------------------------------------------------------------
(* The archive implements the catalogue (Catalog.tla) whenever no two      *)
(* items share a place.                                                    *)

(* The links that a product's document collected lead to items that are    *)
(* there, and an incomplete document has no links.                         *)
Resolved ==
    /\ \A f \in Path : meta[f].state # "doc" => meta[f].links = {}
    /\ \A p \in Product : \A f \in Collected(p) :
           entry[f].kind # "none" /\ meta[f].state # "none"

LEMMA ProductPlace ==
    ASSUME TypeOK, OwnPlaces, NEW c \in Command, pc[c] \in Busy,
           NEW p \in Product, Target[p] = Place(c)
    PROVE  Here(c) = p
BY HereType, ProductIsItem DEF OwnPlaces, Place

LEMMA ResolvedInit == Init => Resolved
BY ItemAssumption, ProductIsItem DEF Init, Resolved, Collected

LEMMA ResolvedNext ==
    ASSUME OwnPlaces
    PROVE  TypeOK /\ InHand /\ Resolved /\ [Next]_vars => Resolved'
<1> SUFFICES ASSUME TypeOK, InHand, Resolved, [Next]_vars PROVE Resolved'
  OBVIOUS
<1>0. /\ \A f \in Path : meta[f].links \subseteq Path
      /\ \A p \in Product : Target[p] \in Path
  BY ItemAssumption, ProductIsItem DEF TypeOK, Meta
<1>1. CASE meta' = meta
  BY <1>0, <1>1, NothingLost DEF Resolved, Collected
<1>2. ASSUME NEW d \in Command, CreateMeta(d)
      PROVE  Resolved'
  BY <1>0, <1>2, NothingLost DEF Resolved, Collected, CreateMeta, TypeOK, Blank
<1>3. ASSUME NEW d \in Command, Encode(d)
      PROVE  Resolved'
  <2>1. pc[d] \in Busy
    BY <1>3 DEF Encode, Busy
  <2>2. \A f \in Path : meta'[f].state # "doc" => meta'[f].links = {}
    BY <1>3 DEF Encode, TypeOK, Resolved
  <2>3. ASSUME NEW p \in Product, NEW f \in meta'[Target[p]].links,
               f \notin Given[p]
        PROVE  entry'[f].kind # "none" /\ meta'[f].state # "none"
    <3>1. CASE Target[p] = Place(d)
      <4>1. Here(d) = p /\ Current(d) = p
        BY <2>1, <3>1, ProductPlace, HereType
      <4>2. f \in links[d]
        BY <1>0, <1>3, <2>3, <3>1, <4>1 DEF Encode, TypeOK, LinksOf, Inherited
      <4>3. f \in Path /\ entry[f].kind # "none" /\ meta[f].state # "none"
        BY <4>2 DEF InHand, TypeOK
      <4>4. QED
        BY <4>3, NothingLost
    <3>2. CASE Target[p] # Place(d)
      <4>1. f \in meta[Target[p]].links
        BY <1>0, <1>3, <2>3, <3>2 DEF Encode, TypeOK
      <4>2. QED
        BY <1>0, <2>3, <4>1, NothingLost DEF Resolved, Collected
    <3>3. QED
      BY <3>1, <3>2
  <2>4. QED
    BY <2>2, <2>3 DEF Resolved, Collected
<1>4. QED
  <2>1. meta' = meta \/ \E d \in Command : CreateMeta(d) \/ Encode(d)
    BY NothingGained, FileSteps, LocalSteps DEF Link, Truncate, Fill, files
  <2>2. QED
    BY <1>1, <1>2, <1>3, <2>1

(* Apart from the links of the configuration, the document of a product    *)
(* names nothing that is not there.                                        *)
THEOREM LinksResolve ==
    ASSUME OwnPlaces
    PROVE  Spec => []MainLinksResolve
<1>1. Resolved => MainLinksResolve
  BY DEF Resolved, MainLinksResolve
<1>2. QED
  BY <1>1, TypeInit, TypeNext, InHandInit, InHandNext, ResolvedInit,
     ResolvedNext, PTL DEF Spec
----------------------------------------------------------------------------
LEMMA InitMaps == Init => Published!Init
BY ItemAssumption, ProductIsItem
DEF Init, Published!Init, Shelf, Refs, Collected

(* The links in L that the catalogue shows of a document at f.             *)
Shown(f, L) == UNION {L \ Given[p] : p \in {q \in Product : Target[q] = f}}

(* Only the links of the document that changed change.                     *)
LEMMA RefsChange ==
    ASSUME TypeOK, NEW f \in Path, NEW m, meta' = [meta EXCEPT ![f] = m]
    PROVE  Refs' = [Refs EXCEPT ![f] = Shown(f, m.links)]
<1>1. ASSUME NEW g \in Path, g # f PROVE Refs'[g] = Refs[g]
  <2>1. meta'[g] = meta[g]
    BY <1>1
  <2>2. \A p \in {q \in Product : Target[q] = g} : Collected(p)' = Collected(p)
    BY <2>1 DEF Collected
  <2>3. QED
    BY <2>2 DEF Refs
<1>2. Refs'[f] = Shown(f, m.links)
  <2>1. meta'[f] = m
    BY DEF TypeOK
  <2>2. \A p \in {q \in Product : Target[q] = f} :
            Collected(p)' = m.links \ Given[p]
    BY <2>1 DEF Collected
  <2>3. QED
    BY <2>2 DEF Refs, Shown
<1>3. QED
  BY <1>1, <1>2 DEF Refs

LEMMA StepMaps ==
    ASSUME OwnPlaces
    PROVE  TypeOK /\ InHand /\ NoOrphanMetadata /\ Resolved /\ [Next]_vars
               => [Published!Next]_<<Shelf, Refs>>
<1> SUFFICES ASSUME TypeOK, InHand, NoOrphanMetadata, Resolved, [Next]_vars
             PROVE  [Published!Next]_<<Shelf, Refs>>
  OBVIOUS
<1>1. CASE entry' = entry /\ meta' = meta
  BY <1>1 DEF Shelf, Refs, Collected
<1>2. ASSUME NEW d \in Command, Link(d) \/ Truncate(d), entry' # entry
      PROVE  Published!Put(Place(d))
  <2>1. Place(d) \in Path
    BY <1>2, HereType DEF Link, Truncate, Busy
  <2>2. /\ entry[Place(d)].kind = "none"
        /\ meta' = meta
        /\ entry' = [entry EXCEPT ![Place(d)] = entry'[Place(d)]]
        /\ entry'[Place(d)].kind # "none"
    <3>1. CASE Link(d)
      <4>1. Here(d) \in Linked /\ LinkKind[Here(d)] # "other"
        BY <3>1 DEF Link
      <4>2. QED
        BY <1>2, <2>1, <3>1, <4>1, NewLinkType DEF Link, TypeOK
    <3>2. CASE Truncate(d)
      BY <1>2, <2>1, <3>2 DEF Truncate, TypeOK, Entry, Readable
    <3>3. QED
      BY <1>2, <3>1, <3>2
  <2>3. meta[Place(d)].state = "none"
    BY <2>1, <2>2 DEF NoOrphanMetadata
  <2>4. Shelf[Place(d)] = "absent"
    BY <2>1, <2>2 DEF Shelf
  <2>5. Shelf' = [Shelf EXCEPT ![Place(d)] = "placed"]
    BY <2>1, <2>2, <2>3 DEF Shelf, TypeOK
  <2>6. UNCHANGED Refs
    BY <2>2 DEF Refs, Collected
  <2>7. QED
    BY <2>4, <2>5, <2>6 DEF Published!Put
<1>3. ASSUME NEW d \in Command, CreateMeta(d)
      PROVE  Published!Withdraw(Place(d)) \/ UNCHANGED <<Shelf, Refs>>
  <2>1. Place(d) \in Path /\ entry' = entry /\ entry[Place(d)].kind # "none"
    BY <1>3, HereType DEF CreateMeta, InHand, Busy
  <2>2. meta' = [meta EXCEPT ![Place(d)] = Blank]
    BY <1>3 DEF CreateMeta
  <2>3. Refs' = [Refs EXCEPT ![Place(d)] = {}]
    <3>1. Shown(Place(d), Blank.links) = {}
      BY DEF Blank, Shown
    <3>2. QED
      BY <2>1, <2>2, <3>1, RefsChange
  <2>4. Shelf' = [Shelf EXCEPT ![Place(d)] = "placed"]
    BY <2>1, <2>2 DEF Shelf, TypeOK, Blank
  <2>5. CASE meta[Place(d)].state = "doc"
    <3>1. Shelf[Place(d)] = "described"
      BY <2>1, <2>5 DEF Shelf
    <3>2. QED
      BY <2>3, <2>4, <3>1 DEF Published!Withdraw
  <2>6. CASE meta[Place(d)].state # "doc"
    <3>1. Shelf[Place(d)] = "placed"
      BY <2>1, <2>6 DEF Shelf
    <3>2. Refs[Place(d)] = {}
      BY <2>1, <2>6 DEF Refs, Collected, Resolved
    <3>3. Shelf' = Shelf
      BY <2>4, <3>1 DEF Shelf
    <3>4. Refs' = Refs
      BY <2>3, <3>2 DEF Refs
    <3>5. QED
      BY <3>3, <3>4
  <2>7. QED
    BY <2>5, <2>6
<1>4. ASSUME NEW d \in Command, Encode(d)
      PROVE  \E R \in SUBSET Path : Published!Describe(Place(d), R)
  <2>1. /\ Place(d) \in Path
        /\ entry' = entry
        /\ entry[Place(d)].kind # "none"
        /\ pc[d] \in Busy
    BY <1>4, HereType DEF Encode, InHand, Busy
  <2>2. meta' = [meta EXCEPT ![Place(d)] =
                   [state |-> "doc", sum |-> cur[d], links |-> LinksOf(d)]]
    BY <1>4 DEF Encode
  <2>3. Shelf[Place(d)] # "absent"
    BY <2>1 DEF Shelf
  <2>4. Shelf' = [Shelf EXCEPT ![Place(d)] = "described"]
    BY <2>1, <2>2 DEF Shelf, TypeOK
  <2> DEFINE R == Shown(Place(d), LinksOf(d))
  <2>5. R \in SUBSET Path /\ \A g \in R : Shelf[g] # "absent"
    <3>1. ASSUME NEW p \in Product, Target[p] = Place(d),
                 NEW g \in LinksOf(d) \ Given[p]
          PROVE  g \in links[d]
      <4>1. Here(d) = p /\ Current(d) = p
        BY <2>1, <3>1, ProductPlace, HereType
      <4>2. QED
        BY <3>1, <4>1 DEF LinksOf, Inherited
    <3>2. \A g \in links[d] : g \in Path /\ Shelf[g] # "absent"
      BY DEF TypeOK, InHand, Shelf
    <3>3. QED
      BY <3>1, <3>2 DEF Shown
  <2>6. Refs' = [Refs EXCEPT ![Place(d)] = R]
    BY <2>1, <2>2, RefsChange
  <2>7. QED
    BY <2>3, <2>4, <2>5, <2>6 DEF Published!Describe
<1>5. QED
  <2>1. \/ entry' = entry /\ meta' = meta
        \/ \E d \in Command : \/ (Link(d) \/ Truncate(d)) /\ entry' # entry
                              \/ CreateMeta(d)
                              \/ Encode(d)
    BY NothingGained, FileSteps, LocalSteps DEF Link, Truncate, Fill, files
  <2>2. \A d \in Command : pc[d] \in Busy => Place(d) \in Path
    BY HereType
  <2>3. QED
    BY <1>1, <1>2, <1>3, <1>4, <2>1, <2>2
    DEF Published!Next, Link, Truncate, CreateMeta, Encode, Busy

(* Every behaviour of the commands is one of the catalogue.                *)
THEOREM Implements ==
    ASSUME OwnPlaces
    PROVE  Spec => ImplementsCatalog
<1>1. Init => NoOrphanMetadata
  BY DEF Init, NoOrphanMetadata
<1>2. QED
  BY <1>1, InitMaps, StepMaps, TypeInit, TypeNext, InHandInit, InHandNext,
     OrphanNext, ResolvedInit, ResolvedNext, PTL
  DEF Spec, ImplementsCatalog, Published!Spec
============================================================================
