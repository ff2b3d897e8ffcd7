---------------------------- MODULE MailboxProofs ----------------------------
(***************************************************************************)
(* Proofs about Mailbox, for any mailboxes and handlers: the order of the  *)
(* parts, the sums although the digest is shared, and the kept files.      *)
(*                                                                         *)
(* The argument: only the goroutine whose queue Process receives from      *)
(* still reads or writes parts, all before it have closed their queues.    *)
(* So the digest is empty whenever it begins a part, and a file changes    *)
(* behind the back of the driver only when a maildir is removed.           *)
(***************************************************************************)
EXTENDS Mailbox, TLAPS

Working == {"make", "create", "write", "send", "reset"}

(* Only the goroutine of the queue works.                                  *)
Solo ==
    /\ \A id \in Id : routine[id].pc \in Working => id = queue
    /\ queue # NoId => routine[queue].pc # "none"
    /\ consumer \in {"wait", "handle"} => queue # NoId
    /\ consumer \in {"next", "done", "refused"} /\ queue # NoId =>
         routine[queue].pc \in {"remove", "end"}

(* Goroutines are started in the order of the messages; the next message   *)
(* lies after all of them, and none was left out.                          *)
Placed ==
    /\ \A id \in Id : routine[id].pc # "none" =>
         /\ id = queue \/ Before(id, queue)
         /\ Before(id, <<box, pos>>)
    /\ \A id \in Id \ lost : Before(id, <<box, pos>>) /\ Items(id) # << >> =>
         routine[id].pc # "none"
    /\ consumer = "done" => box = Len(Box) /\ pos = Len(Box[box]) + 1

(* The number of the next part.                                            *)
Reached(r) == IF r.pc = "reset" THEN r.k + 1 ELSE r.k

Counted ==
    \A id \in Id :
        /\ routine[id].k <= Len(Items(id)) + 1
        /\ routine[id].pc = "none" => routine[id].k = 1
        /\ routine[id].pc \in {"remove", "end"} => routine[id].k = Len(Items(id)) + 1

(* What was handed out are the parts that the goroutines went through.     *)
Tally ==
    /\ \A j \in DOMAIN handed :
         /\ handed[j].id \in Id /\ routine[handed[j].id].pc # "none"
         /\ handed[j].k \in 1 .. Reached(routine[handed[j].id]) - 1
    /\ \A id \in Id : \A l \in 1 .. Reached(routine[id]) - 1 :
         \E j \in DOMAIN handed : handed[j].id = id /\ handed[j].k = l
    /\ \A j \in DOMAIN handed : \A i \in 1 .. j - 1 :
         \/ Before(handed[i].id, handed[j].id)
         \/ handed[i].id = handed[j].id /\ handed[i].k < handed[j].k

(* The file has the part, or is gone when files are not kept.              *)
Filed(i) == disk[i.file] = i.body \/ (~ keep /\ disk[i.file] = Absent)

Sums ==
    /\ (\A id \in Id : routine[id].pc \notin {"send", "reset"}) => digest = << >>
    /\ \A id \in Id :
         /\ routine[id].pc = "remove" => ~ keep
         /\ routine[id].pc = "write" /\ disk[Item(id).file] = Absent => ~ keep
         /\ routine[id].pc = "send" /\ ~ routine[id].err =>
              routine[id].sum = <<Item(id).body>> /\ Filed(Item(id))

(* What the driver has at hand.                                            *)
InHand ==
    consumer = "handle" =>
        /\ held.id = queue /\ held.k \in 1 .. Reached(routine[queue]) - 1
        /\ held.k \in DOMAIN Items(queue)
        /\ ~ held.err =>
             LET i == Items(queue)[held.k]
             IN  held.sum = <<i.body>> /\ (Filed(i) \/ Clash(queue, held.k))

IInv == Solo /\ Placed /\ Counted /\ Tally /\ Sums /\ InHand /\ KeptFilesStay
----------------------------------------------------------------------------
(* Places of messages, and their order.                                    *)
LEMMA IdType ==
    ASSUME NEW id \in Id
    PROVE  /\ id = <<id[1], id[2]>> /\ id[1] \in 1 .. Len(Box) /\ id[1] \in DOMAIN Box
           /\ id[2] \in 1 .. Len(Box[id[1]]) + 1
           /\ id[1] \in Nat /\ id[2] \in Nat /\ id # NoId
<1>1. PICK b \in DOMAIN Box : id \in {b} \X (1 .. Len(Box[b]) + 1)
    BY DEF Id
<1>2. /\ b \in 1 .. Len(Box) /\ Len(Box) \in Nat /\ Len(Box[b]) \in Nat
    BY MailboxAssumption
<1> QED
    BY <1>1, <1>2 DEF NoId

LEMMA IdMember ==
    ASSUME NEW b \in 1 .. Len(Box), NEW p \in 1 .. Len(Box[b]) + 1
    PROVE  <<b, p>> \in Id
<1>1. b \in DOMAIN Box
    BY MailboxAssumption
<1>2. <<b, p>> \in {b} \X (1 .. Len(Box[b]) + 1)
    OBVIOUS
<1> DEFINE S(c) == {c} \X (1 .. Len(Box[c]) + 1)
<1>3. <<b, p>> \in S(b) /\ S(b) \in {S(c) : c \in DOMAIN Box}
    BY <1>1, <1>2
<1>4. Id = UNION {S(c) : c \in DOMAIN Box}
    BY DEF Id
<1> HIDE DEF S
<1> QED
    BY <1>3, <1>4

LEMMA BeforeTotal ==
    ASSUME NEW i \in Id, NEW j \in Id
    PROVE  i = j \/ Before(i, j) \/ Before(j, i)
BY IdType DEF Before

LEMMA BeforeTrans ==
    ASSUME NEW i \in Id, NEW j \in Id, NEW k \in Id, Before(i, j), Before(j, k)
    PROVE  Before(i, k)
BY IdType DEF Before

LEMMA BeforeIrreflexive ==
    ASSUME NEW i \in Id
    PROVE  ~ Before(i, i)
BY IdType DEF Before

LEMMA ItemType ==
    ASSUME NEW id \in Id
    PROVE  /\ Len(Items(id)) \in Nat /\ DOMAIN Items(id) = 1 .. Len(Items(id))
           /\ \A k \in DOMAIN Items(id) :
                /\ Items(id)[k].body \in Content
                /\ Items(id)[k].file \in File /\ Items(id)[k].file[1] \in Dir
<1> DEFINE S == [file : Dir \X (STRING \X Nat), body : Content]
           F(i) == {Items(i)[k].file : k \in DOMAIN Items(i)}
<1>1. Items(id) \in Seq(S)
    BY MailboxAssumption
<1>2. \A k \in DOMAIN Items(id) : Items(id)[k] \in S
    <2> HIDE DEF S
    <2> QED
        BY <1>1
<1>3. ASSUME NEW k \in DOMAIN Items(id)
      PROVE  Items(id)[k].file \in File
    <2>1. Items(id)[k].file \in F(id) /\ F(id) \in {F(i) : i \in Id}
        OBVIOUS
    <2>2. File = UNION {F(i) : i \in Id}
        BY DEF File
    <2> HIDE DEF F
    <2> QED
        BY <2>1, <2>2
<1> QED
    BY <1>1, <1>2, <1>3
----------------------------------------------------------------------------
(* Types.                                                                  *)
LEMMA TypeInit == Init => TypeOK
<1> SUFFICES ASSUME Init
             PROVE  TypeOK
    OBVIOUS
<1>1. 1 \in DOMAIN Box /\ 1 \in 1 .. Len(Box[1]) + 1
    BY MailboxAssumption
<1>2. /\ held \in Result /\ handed \in Seq(Result) /\ digest \in Seq(Content)
    BY DEF Init, Result
<1>3. routine \in [Id -> Routine] /\ \A id \in Id : routine[id].pc = "none"
    BY DEF Init, Routine
<1> QED
    BY <1>1, <1>2, <1>3 DEF Init, TypeOK

LEMMA RoutineType ==
    ASSUME TypeOK, NEW id \in Id, NEW r \in Routine, Becomes(id, r),
           r.pc \in {"create", "write", "send", "reset"} => r.k \in DOMAIN Items(id)
    PROVE  /\ routine' \in [Id -> Routine]
           /\ \A o \in Id : routine'[o].pc \in {"create", "write", "send", "reset"} =>
                routine'[o].k \in DOMAIN Items(o)
BY DEF TypeOK, Becomes

LEMMA GotoType ==
    ASSUME TypeOK, NEW id \in Id,
           NEW pc \in {"make", "create", "write", "send", "reset", "remove", "end"},
           Goto(id, pc),
           pc \in {"create", "write", "send", "reset"} => routine[id].k \in DOMAIN Items(id)
    PROVE  /\ routine' \in [Id -> Routine]
           /\ \A o \in Id : routine'[o].pc \in {"create", "write", "send", "reset"} =>
                routine'[o].k \in DOMAIN Items(o)
<1> DEFINE r == [routine[id] EXCEPT !.pc = pc]
<1>1. routine[id] \in Routine
    BY DEF TypeOK
<1>2. r \in Routine /\ r.pc = pc /\ r.k = routine[id].k /\ Becomes(id, r)
    BY <1>1 DEF Routine, Goto
<1> HIDE DEF r
<1> QED
    BY <1>2, RoutineType

LEMMA DispatchType ==
    ASSUME TypeOK, NEW id \in Id, consumer = "next", Dispatch(id)
    PROVE  /\ routine' \in [Id -> Routine]
           /\ \A o \in Id : routine'[o].pc \in {"create", "write", "send", "reset"} =>
                routine'[o].k \in DOMAIN Items(o)
           /\ queue' \in Id \cup {NoId}
           /\ consumer' \in {"next", "wait"}
<1>1. CASE Goto(id, "make") /\ queue' = id /\ consumer' = "wait"
    BY <1>1, GotoType
<1>2. CASE UNCHANGED <<routine, queue, consumer>>
    BY <1>2 DEF TypeOK
<1> QED
    BY <1>1, <1>2 DEF Dispatch

LEMMA ConsumeType == TypeOK /\ Consume => TypeOK'
<1> SUFFICES ASSUME TypeOK, Consume
             PROVE  TypeOK'
    OBVIOUS
<1>0. /\ DOMAIN Box = 1 .. Len(Box) /\ Len(Box) \in Nat
      /\ \A b \in DOMAIN Box : Len(Box[b]) \in Nat
    BY MailboxAssumption
<1> USE DEF TypeOK, reader, files
<1>1. ASSUME NEW id \in Id, ReadMessage(id)
      PROVE  TypeOK'
    <2>1. pos' \in 1 .. Len(Box[box]) + 1
        BY <1>0, <1>1 DEF ReadMessage
    <2> QED
        BY <1>1, <2>1, DispatchType DEF ReadMessage
<1>2. ASSUME NEW id \in Id, NextBox(id)
      PROVE  TypeOK'
    <2>1. pos' \in 1 .. Len(Box[box']) + 1 /\ box' \in DOMAIN Box
        BY <1>0, <1>2 DEF NextBox
    <2> QED
        BY <1>2, <2>1, DispatchType DEF NextBox
<1>3. CASE ReadFails
    <2>1. pos' \in 1 .. Len(Box[box]) + 1 /\ <<box, pos>> \in Id
        BY <1>0, <1>3, IdMember DEF ReadFails, MessageFails, FileFails
    <2>2. lost' \subseteq Id /\ broken' \in BOOLEAN
        BY <1>3, <2>1 DEF ReadFails, MessageFails, FileFails
    <2> QED
        BY <1>3, <2>1, <2>2 DEF ReadFails, Returns
<1>4. CASE OpenFails
    <2>1. pos' \in 1 .. Len(Box[box']) + 1 /\ box' \in DOMAIN Box
        BY <1>0, <1>4 DEF OpenFails
    <2> QED
        BY <1>4, <2>1 DEF OpenFails, Returns
<1>5. CASE ReadsAll
    BY <1>5 DEF ReadsAll
<1>6. CASE QueueClosed
    BY <1>6 DEF QueueClosed
<1>7. CASE Handled
    BY <1>7 DEF Handled
<1> QED
    BY <1>1, <1>2, <1>3, <1>4, <1>5, <1>6, <1>7 DEF Consume

LEMMA ProduceType == ASSUME TypeOK, NEW id \in Id, Produce(id) PROVE TypeOK'
<1>0. /\ routine[id] \in Routine
      /\ routine[id].pc \in {"create", "write", "send", "reset"} =>
           routine[id].k \in DOMAIN Items(id)
    BY DEF TypeOK
<1>1. CASE MakeDir(id)
    <2>1. Item(id).file[1] \in Dir
        BY <1>1, ItemType DEF MakeDir, Item
    <2> QED
        BY <1>1, <2>1, GotoType DEF MakeDir, TypeOK, reader
<1>2. CASE Create(id)
    <2>1. Item(id).file \in File
        BY <1>0, <1>2, ItemType DEF Create, Item
    <2> QED
        BY <1>0, <1>2, <2>1, GotoType DEF Create, TypeOK, reader
<1>3. CASE Write(id)
    <2>1. Item(id).file \in File /\ Item(id).body \in Content
        BY <1>0, <1>3, ItemType DEF Write, Item
    <2>2. digest' \in Seq(Content)
        BY <1>3, <2>1 DEF Write, TypeOK
    <2> DEFINE r == [routine[id] EXCEPT !.pc = "send", !.err = FALSE, !.sum = digest']
    <2>3. r \in Routine /\ r.k = routine[id].k /\ Becomes(id, r) /\ routine[id].pc = "write"
        BY <1>0, <1>3, <2>2 DEF Write, Routine
    <2> HIDE DEF r
    <2>4. /\ routine' \in [Id -> Routine]
          /\ \A o \in Id : routine'[o].pc \in {"create", "write", "send", "reset"} =>
               routine'[o].k \in DOMAIN Items(o)
        BY <1>0, <2>3, RoutineType
    <2>5. disk' \in [File -> Content \cup {Partial, Absent}]
        BY <1>3, <2>1 DEF Write, TypeOK
    <2> QED
        BY <1>3, <2>2, <2>4, <2>5 DEF Write, TypeOK, reader
<1>4. CASE PartFails(id)
    <2> DEFINE r == [routine[id] EXCEPT !.pc = "send", !.err = TRUE, !.sum = digest]
    <2>1. digest \in Seq(Content)
        BY DEF TypeOK
    <2>2. r \in Routine /\ r.k = routine[id].k /\ Becomes(id, r)
        BY <1>0, <1>4, <2>1 DEF PartFails, Routine
    <2> HIDE DEF r
    <2> QED
        BY <1>4, <2>2, RoutineType DEF PartFails, TypeOK, reader, files
<1>5. CASE Hand(id)
    <2>1. held' \in Result
        BY <1>0, <1>5 DEF Hand, Result, Routine
    <2>2. handed' \in Seq(Result)
        BY <1>5, <2>1 DEF Hand, TypeOK
    <2> QED
        BY <1>0, <1>5, <2>1, <2>2, GotoType DEF Hand, TypeOK, reader, files
<1>6. CASE Reset(id)
    <2> DEFINE r == [routine[id] EXCEPT !.pc = "make", !.k = @ + 1]
    <2>0. routine[id].k + 1 \in Nat \ {0}
        BY <1>0 DEF Routine
    <2>1. r \in Routine /\ r.pc = "make" /\ Becomes(id, r)
        BY <1>0, <1>6, <2>0 DEF Reset, Routine
    <2> HIDE DEF r
    <2> QED
        BY <1>6, <2>1, RoutineType DEF Reset, TypeOK, reader
<1>7. CASE Close(id)
    BY <1>7, GotoType DEF Close, TypeOK, reader, files
<1>8. CASE Remove(id)
    <2>1. /\ dirs' \subseteq dirs
          /\ disk' \in [File -> Content \cup {Partial, Absent}]
        BY <1>8 DEF Remove, TypeOK
    <2> QED
        BY <1>8, <2>1, GotoType DEF Remove, TypeOK, reader
<1> QED
    BY <1>1, <1>2, <1>3, <1>4, <1>5, <1>6, <1>7, <1>8 DEF Produce

LEMMA TypeNext == TypeOK /\ [Next]_vars => TypeOK'
<1>1. TypeOK /\ UNCHANGED vars => TypeOK'
    BY DEF vars, reader, files, TypeOK
<1> QED
    BY <1>1, ConsumeType, ProduceType DEF Next

(* Type correctness, for any mailboxes and handlers.                       *)
THEOREM TypeCorrect == Spec => []TypeOK
BY TypeInit, TypeNext, PTL DEF Spec
----------------------------------------------------------------------------
(* What the steps of a goroutine do to it.                                 *)
LEMMA Moves ==
    ASSUME TypeOK, NEW id \in Id, Produce(id)
    PROVE  /\ \A o \in Id \ {id} : routine'[o] = routine[o]
           /\ UNCHANGED <<keep, box, pos, lost, queue>>
           /\ \/ /\ MakeDir(id) /\ routine[id].pc = "make" /\ routine[id].k \in DOMAIN Items(id)
                 /\ routine'[id].pc = "create" /\ routine'[id].k = routine[id].k
              \/ /\ Create(id) /\ routine[id].pc = "create"
                 /\ routine'[id].pc = "write" /\ routine'[id].k = routine[id].k
              \/ /\ Write(id) /\ routine[id].pc = "write"
                 /\ routine'[id].pc = "send" /\ routine'[id].k = routine[id].k
                 /\ routine'[id].sum = digest'
              \/ /\ PartFails(id) /\ routine[id].pc \in {"make", "create", "write"}
                 /\ routine'[id].pc = "send" /\ routine'[id].k = routine[id].k
                 /\ routine'[id].err = TRUE
              \/ /\ Hand(id) /\ routine[id].pc = "send"
                 /\ routine'[id].pc = "reset" /\ routine'[id].k = routine[id].k
              \/ /\ Reset(id) /\ routine[id].pc = "reset"
                 /\ routine'[id].pc = "make" /\ routine'[id].k = routine[id].k + 1
              \/ /\ Close(id) /\ routine[id].pc = "make" /\ routine[id].k \notin DOMAIN Items(id)
                 /\ routine'[id].pc = (IF keep THEN "end" ELSE "remove")
                 /\ routine'[id].k = routine[id].k
              \/ /\ Remove(id) /\ routine[id].pc = "remove"
                 /\ routine'[id].pc = "end" /\ routine'[id].k = routine[id].k
<1>1. routine \in [Id -> Routine] /\ routine[id] \in Routine
    BY DEF TypeOK
<1> USE <1>1 DEF Becomes, Goto, Routine, reader
<1>2. CASE MakeDir(id)
    BY <1>2 DEF MakeDir
<1>3. CASE Create(id)
    BY <1>3 DEF Create
<1>4. CASE Write(id)
    BY <1>4 DEF Write
<1>5. CASE PartFails(id)
    BY <1>5 DEF PartFails
<1>6. CASE Hand(id)
    BY <1>6 DEF Hand
<1>7. CASE Reset(id)
    BY <1>7 DEF Reset
<1>8. CASE Close(id)
    BY <1>8 DEF Close
<1>9. CASE Remove(id)
    BY <1>9 DEF Remove
<1> QED
    BY <1>2, <1>3, <1>4, <1>5, <1>6, <1>7, <1>8, <1>9 DEF Produce

(* What Process does to the goroutines: it starts the next one or leaves   *)
(* them alone.                                                             *)
Starts(id) ==
    /\ id = <<box, pos>> /\ Accepting(id) # {}
    /\ queue' = id /\ consumer = "next" /\ consumer' = "wait"
    /\ routine'[id] = [routine[id] EXCEPT !.pc = "make"]
    /\ \A o \in Id \ {id} : routine'[o] = routine[o]

LEMMA Reads ==
    ASSUME TypeOK, Consume
    PROVE  /\ UNCHANGED <<keep, held, files, handed>>
           /\ UNCHANGED <<routine, queue>> \/ \E id \in Id : Starts(id)
<1>1. routine \in [Id -> Routine]
    BY DEF TypeOK
<1>2. ASSUME NEW id \in Id, ReadMessage(id) \/ NextBox(id)
      PROVE  UNCHANGED <<routine, queue>> \/ Starts(id)
    <2>1. Dispatch(id) /\ id = <<box, pos>> /\ consumer = "next"
        BY <1>2 DEF ReadMessage, NextBox
    <2> QED
        BY <1>1, <2>1 DEF Dispatch, Goto, Becomes, Starts
<1>3. UNCHANGED <<keep, held, files, handed>>
    BY DEF Consume, ReadMessage, NextBox, ReadFails, OpenFails, ReadsAll, QueueClosed, Handled
<1> QED
    BY <1>2, <1>3 DEF Consume, ReadFails, OpenFails, ReadsAll, QueueClosed, Handled

LEMMA SoloConsume == TypeOK /\ Solo /\ Consume => Solo'
<1> SUFFICES ASSUME TypeOK, Solo, Consume
             PROVE  Solo'
    OBVIOUS
<1>1. ASSUME NEW id \in Id, Starts(id)
      PROVE  Solo'
    <2>1. \A o \in Id : routine[o].pc \notin Working
        BY <1>1, IdType DEF Starts, Solo, Working
    <2>2. routine'[id].pc = "make" /\ id # NoId
        <3>1. routine[id] \in Routine
            BY DEF TypeOK
        <3> QED
            BY <1>1, <3>1, IdType DEF Starts, Routine
    <2> QED
        BY <1>1, <2>1, <2>2 DEF Starts, Solo, Working
<1>2. ASSUME UNCHANGED <<routine, queue>>
      PROVE  Solo'
    <2>1. CASE ReadFails \/ OpenFails
        <3>1. consumer = "next" /\ consumer' = IF queue = NoId THEN "refused" ELSE "wait"
            BY <2>1 DEF ReadFails, OpenFails, Returns
        <3> QED
            BY <1>2, <3>1 DEF Solo
    <2>2. CASE ReadsAll
        BY <1>2, <2>2 DEF ReadsAll, Solo
    <2>3. CASE QueueClosed
        BY <1>2, <2>3 DEF QueueClosed, Solo, Closed
    <2>4. CASE Handled
        BY <1>2, <2>4 DEF Handled, Solo
    <2>5. ASSUME NEW id \in Id, ReadMessage(id) \/ NextBox(id)
          PROVE  Solo'
        <3>1. consumer = "next" /\ Dispatch(id)
            BY <2>5 DEF ReadMessage, NextBox
        <3>2. CASE Accepting(id) = {}
            BY <1>2, <3>1, <3>2 DEF Dispatch, Solo
        <3>3. CASE Accepting(id) # {}
            <4>1. Starts(id)
                BY <2>5, <3>1, <3>3 DEF Dispatch, Starts, Goto, Becomes, TypeOK, ReadMessage, NextBox
            <4> QED
                BY <1>1, <4>1
        <3> QED
            BY <3>2, <3>3
    <2> QED
        BY <2>1, <2>2, <2>3, <2>4, <2>5 DEF Consume
<1> QED
    BY <1>1, <1>2, Reads

LEMMA SoloProduce ==
    ASSUME TypeOK, Solo, NEW id \in Id, Produce(id)
    PROVE  Solo'
<1>1. routine[id].pc \in Working \cup {"remove"}
    BY Moves DEF Working
<1>2. routine'[id].pc \in Working => routine[id].pc \in Working
    BY Moves DEF Working
<1>3. routine'[id].pc # "none" /\ (routine[id].pc = "remove" => routine'[id].pc = "end")
    BY Moves
<1>4. \/ consumer' = consumer
      \/ consumer = "wait" /\ consumer' = "handle"
    BY DEF Produce, MakeDir, Create, Write, PartFails, Hand, Reset, Close, Remove
<1>5. queue' = queue /\ \A o \in Id \ {id} : routine'[o] = routine[o]
    BY Moves
<1>6. \A o \in Id : routine'[o].pc \in Working => o = queue'
    BY <1>2, <1>5 DEF Solo
<1>7. queue' # NoId => routine'[queue'].pc # "none"
    BY <1>3, <1>5, IdType DEF Solo, TypeOK
<1>8. consumer' \in {"wait", "handle"} => queue' # NoId
    BY <1>4, <1>5 DEF Solo
<1>9. consumer' \in {"next", "done", "refused"} /\ queue' # NoId =>
        routine'[queue'].pc \in {"remove", "end"}
    <2> SUFFICES ASSUME consumer' \in {"next", "done", "refused"}, queue # NoId
                 PROVE  routine'[queue].pc \in {"remove", "end"}
        BY <1>5
    <2>1. routine[queue].pc \in {"remove", "end"} /\ queue \in Id
        BY <1>4 DEF Solo, TypeOK
    <2> QED
        BY <1>1, <1>3, <1>5, <2>1 DEF Working
<1> QED
    BY <1>6, <1>7, <1>8, <1>9 DEF Solo

LEMMA SoloInit == Init => Solo
BY DEF Init, Solo, Working

LEMMA SoloNext == TypeOK /\ Solo /\ [Next]_vars => Solo'
<1>1. Solo /\ UNCHANGED vars => Solo'
    BY DEF vars, Solo
<1> QED
    BY <1>1, SoloConsume, SoloProduce DEF Next
----------------------------------------------------------------------------
(* The place of the next message, before and after a read.                 *)
LEMMA Place ==
    ASSUME TypeOK
    PROVE  <<box, pos>> \in Id /\ box \in Nat /\ pos \in Nat /\ Len(Box[box]) \in Nat
<1>1. box \in 1 .. Len(Box) /\ pos \in 1 .. Len(Box[box]) + 1 /\ Len(Box[box]) \in Nat
      /\ Len(Box) \in Nat
    BY MailboxAssumption DEF TypeOK
<1> QED
    BY <1>1, IdMember

LEMMA NextPlace ==
    ASSUME TypeOK, TypeOK', NEW o \in Id, Before(o, <<box', pos'>>),
           \/ box' = box /\ pos' = pos + 1
           \/ box' = box + 1 /\ pos' = 1 /\ pos > Len(Box[box])
    PROVE  o = <<box, pos>> \/ Before(o, <<box, pos>>)
<1>1. /\ o = <<o[1], o[2]>> /\ o[1] \in Nat /\ o[2] \in 1 .. Len(Box[o[1]]) + 1
      /\ o[1] \in 1 .. Len(Box) /\ Len(Box[o[1]]) \in Nat
    BY IdType, MailboxAssumption
<1>2. box \in Nat /\ pos \in Nat /\ pos <= Len(Box[box]) + 1 /\ Len(Box[box]) \in Nat
    BY Place, IdType
<1>3. CASE box' = box /\ pos' = pos + 1
    BY <1>1, <1>2, <1>3 DEF Before
<1>4. CASE box' = box + 1 /\ pos' = 1 /\ pos > Len(Box[box])
    <2>1. o[1] < box + 1
        BY <1>1, <1>2, <1>4 DEF Before
    <2>2. CASE o[1] < box
        BY <2>2 DEF Before
    <2>3. CASE o[1] = box
        BY <1>1, <1>2, <1>4, <2>3 DEF Before
    <2> QED
        BY <1>1, <1>2, <2>1, <2>2, <2>3
<1> QED
    BY <1>3, <1>4

LEMMA Onward ==
    ASSUME TypeOK, NEW o \in Id, o = <<box, pos>> \/ Before(o, <<box, pos>>),
           \/ box' = box /\ pos' = pos + 1
           \/ box' = box + 1
    PROVE  Before(o, <<box', pos'>>)
<1>1. o = <<o[1], o[2]>> /\ o[1] \in Nat /\ o[2] \in Nat /\ box \in Nat /\ pos \in Nat
    BY IdType, Place
<1>2. CASE box' = box /\ pos' = pos + 1
    BY <1>1, <1>2 DEF Before
<1>3. CASE box' = box + 1
    BY <1>1, <1>3 DEF Before
<1> QED
    BY <1>2, <1>3

(* A mailbox that cannot be opened is passed over.                         *)
LEMMA PassOver ==
    ASSUME TypeOK, OpenFails, NEW o \in Id, Before(o, <<box', pos'>>)
    PROVE  \/ Before(o, <<box, pos>>)
           \/ o = <<box, pos>> /\ Items(o) = << >>
           \/ o \in lost'
<1>1. /\ o = <<o[1], o[2]>> /\ o[1] \in Nat /\ o[2] \in 1 .. Len(Box[o[1]]) + 1
      /\ o[1] \in 1 .. Len(Box) /\ Len(Box[o[1]]) \in Nat
    BY IdType, MailboxAssumption
<1>2. box \in Nat /\ pos \in Nat /\ pos = Len(Box[box]) + 1 /\ Len(Box[box]) \in Nat
      /\ <<box, pos>> \in Id
    <2>1. pos \in 1 .. Len(Box[box]) + 1 /\ pos > Len(Box[box])
        BY DEF TypeOK, OpenFails
    <2> QED
        BY <2>1, Place
<1>3. box' = box + 1 /\ pos' = Len(Box[box + 1]) + 1
    BY DEF OpenFails
<1>4. CASE o[1] = box + 1
    <2>1. o[2] <= Len(Box[box + 1])
        BY <1>1, <1>2, <1>3, <1>4 DEF Before
    <2> QED
        BY <1>4, <2>1 DEF OpenFails
<1>5. CASE o[1] = box
    <2>1. Items(<<box, pos>>) = << >>
        BY <1>2, MailboxAssumption
    <2> QED
        BY <1>1, <1>2, <1>5, <2>1 DEF Before
<1>6. CASE o[1] < box
    BY <1>6 DEF Before
<1>7. o[1] < box + 1 \/ o[1] = box + 1
    BY <1>1, <1>2, <1>3 DEF Before
<1> QED
    BY <1>1, <1>2, <1>4, <1>5, <1>6, <1>7

LEMMA PlacedInit == Init => Placed
<1> SUFFICES ASSUME Init
             PROVE  Placed
    OBVIOUS
<1>1. \A id \in Id : routine[id].pc = "none" /\ ~ Before(id, <<1, 1>>)
    BY IdType DEF Init, Before
<1> QED
    BY <1>1 DEF Init, Placed

LEMMA PlacedConsume == TypeOK /\ TypeOK' /\ Solo /\ Placed /\ Consume => Placed'
<1> SUFFICES ASSUME TypeOK, TypeOK', Solo, Placed, Consume
             PROVE  Placed'
    OBVIOUS
<1>0. <<box, pos>> \in Id
    BY Place
<1>1. ASSUME NEW id \in Id, ReadMessage(id) \/ NextBox(id)
      PROVE  Placed'
    <2>1. /\ id = <<box, pos>> /\ lost' = lost /\ Dispatch(id) /\ consumer = "next"
          /\ \/ box' = box /\ pos' = pos + 1
             \/ box' = box + 1 /\ pos' = 1 /\ pos > Len(Box[box])
        BY <1>1 DEF ReadMessage, NextBox
    <2>2. \A o \in Id : o = id \/ Before(o, id) => Before(o, <<box', pos'>>)
        BY <2>1, Onward
    <2>3. \A o \in Id : Before(o, <<box', pos'>>) => o = id \/ Before(o, id)
        BY <2>1, NextPlace
    <2>4. CASE Accepting(id) # {}
        <3>1. /\ queue' = id /\ routine'[id].pc = "make" /\ consumer' = "wait"
              /\ \A o \in Id \ {id} : routine'[o] = routine[o]
            <4>1. routine[id] \in Routine /\ routine \in [Id -> Routine]
                BY DEF TypeOK
            <4> QED
                BY <2>1, <2>4, <4>1 DEF Dispatch, Goto, Becomes, Routine
        <3> QED
            BY <2>1, <2>2, <2>3, <3>1 DEF Placed
    <2>5. CASE Accepting(id) = {}
        <3>1. UNCHANGED <<routine, queue, consumer>> /\ Items(id) = << >>
            BY <2>1, <2>5 DEF Dispatch, Items
        <3> QED
            BY <2>1, <2>2, <2>3, <3>1 DEF Placed
    <2> QED
        BY <2>4, <2>5
<1>2. CASE ReadFails
    <2>1. box' = box /\ UNCHANGED <<routine, queue>> /\ consumer' # "done"
        BY <1>2 DEF ReadFails, Returns
    <2>2. CASE MessageFails
        <3>1. pos' = pos + 1 /\ lost' = lost \cup {<<box, pos>>}
            BY <2>2 DEF MessageFails
        <3>2. \A o \in Id : Before(o, <<box, pos>>) => Before(o, <<box', pos'>>)
            BY <2>1, <3>1, Onward
        <3>3. \A o \in Id : Before(o, <<box', pos'>>) => o = <<box, pos>> \/ Before(o, <<box, pos>>)
            BY <2>1, <3>1, NextPlace
        <3> QED
            BY <2>1, <3>1, <3>2, <3>3 DEF Placed
    <2>3. CASE FileFails
        BY <2>1, <2>3 DEF FileFails, Placed
    <2> QED
        BY <1>2, <2>2, <2>3 DEF ReadFails
<1>3. CASE OpenFails
    <2>1. /\ box' = box + 1 /\ lost \subseteq lost'
          /\ UNCHANGED <<routine, queue>> /\ consumer' # "done"
        BY <1>3 DEF OpenFails, Returns
    <2>2. \A o \in Id : Before(o, <<box, pos>>) => Before(o, <<box', pos'>>)
        BY <2>1, Onward
    <2>3. \A o \in Id \ lost' : Before(o, <<box', pos'>>) /\ Items(o) # << >>
              => Before(o, <<box, pos>>)
        BY <1>3, PassOver
    <2> QED
        BY <2>1, <2>2, <2>3 DEF Placed
<1>4. CASE ReadsAll
    <2>1. UNCHANGED <<routine, queue, box, pos, lost>>
        BY <1>4 DEF ReadsAll, reader
    <2>2. box = Len(Box) /\ pos = Len(Box[box]) + 1
        <3>1. /\ pos > Len(Box[box]) /\ pos \in 1 .. Len(Box[box]) + 1
              /\ box + 1 \notin 1 .. Len(Box) /\ box \in 1 .. Len(Box)
            BY <1>4, MailboxAssumption DEF ReadsAll, TypeOK
        <3>2. Len(Box) \in Nat
            BY MailboxAssumption
        <3>3. Len(Box[box]) \in Nat /\ box \in Nat /\ pos \in Nat
            BY Place
        <3>4. box = Len(Box)
            BY <3>1, <3>2, <3>3
        <3>5. pos = Len(Box[box]) + 1
            BY <3>1, <3>3
        <3> QED
            BY <3>4, <3>5
    <2> QED
        BY <2>1, <2>2 DEF Placed
<1>5. CASE QueueClosed \/ Handled
    <2>1. UNCHANGED <<routine, queue, box, pos, lost>> /\ consumer' # "done"
        BY <1>5 DEF QueueClosed, Handled, reader
    <2> QED
        BY <2>1 DEF Placed
<1> QED
    BY <1>1, <1>2, <1>3, <1>4, <1>5 DEF Consume

LEMMA PlacedProduce ==
    ASSUME TypeOK, Placed, NEW id \in Id, Produce(id)
    PROVE  Placed'
<1>1. /\ \A o \in Id \ {id} : routine'[o] = routine[o]
      /\ UNCHANGED <<box, pos, lost, queue>>
      /\ routine[id].pc # "none" /\ routine'[id].pc # "none"
    BY Moves
<1>2. consumer' = "done" => consumer = "done"
    BY DEF Produce, MakeDir, Create, Write, PartFails, Hand, Reset, Close, Remove
<1> QED
    BY <1>1, <1>2 DEF Placed

LEMMA PlacedNext == TypeOK /\ TypeOK' /\ Solo /\ Placed /\ [Next]_vars => Placed'
<1>1. Placed /\ UNCHANGED vars => Placed'
    BY DEF vars, reader, Placed
<1> QED
    BY <1>1, PlacedConsume, PlacedProduce DEF Next
----------------------------------------------------------------------------
(* The parts of a message are gone through one by one.                     *)
LEMMA CountedInit == Init => Counted
BY ItemType DEF Init, Counted

LEMMA CountedConsume == TypeOK /\ Counted /\ Consume => Counted'
<1> SUFFICES ASSUME TypeOK, Counted, Consume
             PROVE  Counted'
    OBVIOUS
<1>1. ASSUME NEW id \in Id, Starts(id)
      PROVE  Counted'
    <2>1. routine'[id].pc = "make" /\ routine'[id].k = routine[id].k
        <3>1. routine[id] \in Routine
            BY DEF TypeOK
        <3> QED
            BY <1>1, <3>1 DEF Starts, Routine
    <2> QED
        BY <1>1, <2>1 DEF Starts, Counted
<1>2. CASE UNCHANGED routine
    BY <1>2 DEF Counted
<1> QED
    BY <1>1, <1>2, Reads

LEMMA CountedProduce ==
    ASSUME TypeOK, Counted, NEW id \in Id, Produce(id)
    PROVE  Counted'
<1>1. /\ routine[id].k \in Nat \ {0}
      /\ Len(Items(id)) \in Nat /\ DOMAIN Items(id) = 1 .. Len(Items(id))
      /\ routine[id].pc \in {"send", "reset"} => routine[id].k \in DOMAIN Items(id)
    BY ItemType DEF TypeOK, Routine
<1>2. \A o \in Id \ {id} : routine'[o] = routine[o]
    BY Moves
<1>3. /\ routine[id].k <= Len(Items(id)) + 1
      /\ routine[id].pc \in {"remove", "end"} => routine[id].k = Len(Items(id)) + 1
    BY DEF Counted
<1>4. /\ routine'[id].pc # "none"
      /\ \/ routine'[id].k = routine[id].k /\ routine'[id].pc \notin {"remove", "end"}
         \/ routine'[id].k = routine[id].k /\ routine[id].pc = "remove"
         \/ /\ routine'[id].k = routine[id].k + 1 /\ routine[id].pc = "reset"
            /\ routine'[id].pc = "make"
         \/ routine'[id].k = routine[id].k /\ routine[id].k \notin DOMAIN Items(id)
    BY Moves
<1>5. routine'[id].k <= Len(Items(id)) + 1 /\ routine'[id].pc # "none"
    BY <1>1, <1>3, <1>4
<1>6. routine'[id].pc \in {"remove", "end"} => routine'[id].k = Len(Items(id)) + 1
    BY <1>1, <1>3, <1>4
<1> QED
    BY <1>2, <1>5, <1>6 DEF Counted

LEMMA CountedNext == TypeOK /\ Counted /\ [Next]_vars => Counted'
<1>1. Counted /\ UNCHANGED vars => Counted'
    BY DEF vars, Counted
<1> QED
    BY <1>1, CountedConsume, CountedProduce DEF Next

(* What was handed out.                                                    *)
LEMMA TallyInit == Init => Tally
BY DEF Init, Tally, Reached

LEMMA TallyConsume == TypeOK /\ Placed /\ Tally /\ Consume => Tally'
<1> SUFFICES ASSUME TypeOK, Placed, Tally, Consume
             PROVE  Tally'
    OBVIOUS
<1>1. handed' = handed
    BY Reads
<1>2. ASSUME NEW id \in Id, Starts(id)
      PROVE  Tally'
    <2>1. routine[id].pc = "none"
        BY <1>2, BeforeIrreflexive DEF Starts, Placed
    <2>2. routine'[id].pc = "make" /\ routine'[id].k = routine[id].k
        <3>1. routine[id] \in Routine
            BY DEF TypeOK
        <3> QED
            BY <1>2, <3>1 DEF Starts, Routine
    <2>3. \A o \in Id : Reached(routine'[o]) = Reached(routine[o])
        <3>1. Reached(routine'[id]) = Reached(routine[id])
            BY <2>1, <2>2 DEF Reached
        <3> QED
            BY <1>2, <3>1 DEF Starts
    <2>4. \A o \in Id : routine[o].pc # "none" => routine'[o].pc # "none"
        BY <1>2, <2>2 DEF Starts
    <2> QED
        BY <1>1, <2>3, <2>4 DEF Tally
<1>3. CASE UNCHANGED routine
    BY <1>1, <1>3 DEF Tally, Reached
<1> QED
    BY <1>2, <1>3, Reads

LEMMA TallyProduce ==
    ASSUME TypeOK, TypeOK', Solo, Placed, Tally, NEW id \in Id, Produce(id)
    PROVE  Tally'
<1>0. /\ routine[id].k \in Nat \ {0} /\ routine[id].pc # "none" /\ routine'[id].pc # "none"
      /\ \A o \in Id \ {id} : routine'[o] = routine[o]
    BY Moves DEF TypeOK, Routine
<1>1. CASE ~ Hand(id)
    <2>1. handed' = handed
        BY <1>1 DEF Produce, MakeDir, Create, Write, PartFails, Reset, Close, Remove
    <2>2. Reached(routine'[id]) = Reached(routine[id])
        BY <1>0, <1>1, Moves DEF Reached
    <2>3. \A o \in Id : Reached(routine'[o]) = Reached(routine[o])
        BY <1>0, <2>2 DEF Reached
    <2>4. \A o \in Id : routine[o].pc # "none" => routine'[o].pc # "none"
        BY <1>0
    <2> QED
        BY <2>1, <2>3, <2>4 DEF Tally
<1>2. CASE Hand(id)
    <2> DEFINE n == Len(handed) + 1
    <2>1. /\ held'.id = id /\ held'.k = routine[id].k /\ handed' = Append(handed, held')
          /\ id = queue
        BY <1>2 DEF Hand
    <2>2. /\ DOMAIN handed = 1 .. Len(handed) /\ Len(handed) \in Nat
          /\ DOMAIN handed' = 1 .. n /\ handed'[n] = held'
          /\ \A j \in 1 .. Len(handed) : handed'[j] = handed[j]
        <3>1. handed \in Seq(Result)
            BY DEF TypeOK
        <3> QED
            BY <2>1, <3>1
    <2>3. Reached(routine[id]) = routine[id].k /\ Reached(routine'[id]) = routine[id].k + 1
        BY <1>0, <1>2, Moves DEF Reached, Hand
    <2>4. \A o \in Id \ {id} : Reached(routine'[o]) = Reached(routine[o])
        BY <1>0 DEF Reached
    <2> HIDE DEF n
    <2>5. \A j \in DOMAIN handed' :
            /\ handed'[j].id \in Id /\ routine'[handed'[j].id].pc # "none"
            /\ handed'[j].k \in 1 .. Reached(routine'[handed'[j].id]) - 1
        <3> SUFFICES ASSUME NEW j \in DOMAIN handed'
                     PROVE  /\ handed'[j].id \in Id /\ routine'[handed'[j].id].pc # "none"
                            /\ handed'[j].k \in 1 .. Reached(routine'[handed'[j].id]) - 1
            OBVIOUS
        <3>1. CASE j = n
            BY <1>0, <2>1, <2>2, <2>3, <3>1
        <3>2. CASE j \in DOMAIN handed
            <4>1. /\ handed[j].id \in Id /\ routine[handed[j].id].pc # "none"
                  /\ handed[j].k \in 1 .. Reached(routine[handed[j].id]) - 1
                BY <3>2 DEF Tally
            <4>2. CASE handed[j].id = id
                BY <1>0, <2>2, <2>3, <3>2, <4>1, <4>2
            <4>3. CASE handed[j].id # id
                BY <1>0, <2>2, <2>4, <3>2, <4>1, <4>3
            <4> QED
                BY <4>2, <4>3
        <3> QED
            BY <2>2, <3>1, <3>2 DEF n
    <2>6. ASSUME NEW o \in Id, NEW l \in 1 .. Reached(routine'[o]) - 1
          PROVE  \E j \in DOMAIN handed' : handed'[j].id = o /\ handed'[j].k = l
        <3>1. CASE o = id /\ l = routine[id].k
            BY <2>1, <2>2, <3>1 DEF n
        <3>2. CASE l \in 1 .. Reached(routine[o]) - 1
            <4>1. PICK j \in DOMAIN handed : handed[j].id = o /\ handed[j].k = l
                BY <3>2 DEF Tally
            <4> QED
                BY <2>2, <4>1 DEF n
        <3> QED
            BY <1>0, <2>3, <2>4, <3>1, <3>2
    <2>7. ASSUME NEW j \in DOMAIN handed', NEW i \in 1 .. j - 1
          PROVE  \/ Before(handed'[i].id, handed'[j].id)
                 \/ handed'[i].id = handed'[j].id /\ handed'[i].k < handed'[j].k
        <3>1. CASE j \in DOMAIN handed
            <4>1. i \in DOMAIN handed
                BY <2>2, <3>1
            <4> QED
                BY <2>2, <3>1, <4>1 DEF Tally
        <3>2. CASE j = n
            <4>1. i \in DOMAIN handed /\ handed'[i] = handed[i]
                BY <2>2, <3>2 DEF n
            <4>2. /\ handed[i].id \in Id /\ routine[handed[i].id].pc # "none"
                  /\ handed[i].k \in 1 .. Reached(routine[handed[i].id]) - 1
                BY <4>1 DEF Tally
            <4>3. handed[i].id = id \/ Before(handed[i].id, id)
                BY <2>1, <4>2 DEF Placed
            <4> QED
                BY <1>0, <2>1, <2>2, <2>3, <3>2, <4>1, <4>2, <4>3
        <3> QED
            BY <2>2, <3>1, <3>2 DEF n
    <2> QED
        BY <2>5, <2>6, <2>7 DEF Tally
<1> QED
    BY <1>1, <1>2

LEMMA TallyNext == TypeOK /\ TypeOK' /\ Solo /\ Placed /\ Tally /\ [Next]_vars => Tally'
<1>1. Tally /\ UNCHANGED vars => Tally'
    BY DEF vars, Tally, Reached
<1> QED
    BY <1>1, TallyConsume, TallyProduce DEF Next

(* Parts are handed out in order, each once, and none is missing when      *)
(* Process returns ErrDone (Process, nextMessage, processMessage).         *)
LEMMA InOrderState == TypeOK /\ Solo /\ Placed /\ Counted /\ Tally => HandedInOrder
<1> SUFFICES ASSUME TypeOK, Solo, Placed, Counted, Tally, consumer = "done",
                    NEW id \in Id \ lost, NEW k \in DOMAIN Items(id)
             PROVE  \E j \in DOMAIN handed : handed[j].id = id /\ handed[j].k = k
    BY DEF HandedInOrder, Tally
<1>1. /\ DOMAIN Items(id) = 1 .. Len(Items(id)) /\ Len(Items(id)) \in Nat
      /\ Items(id) # << >>
    BY ItemType
<1>2. box = Len(Box) /\ pos = Len(Box[box]) + 1
    BY DEF Placed
<1>3. Before(id, <<box, pos>>) \/ id = <<box, pos>>
    BY <1>2, IdType, Place DEF Before
<1>4. id # <<box, pos>>
    <2>1. <<box, pos>> \in Id /\ Len(Box[box]) \in Nat
        BY Place
    <2>2. Items(<<box, pos>>) = << >>
        BY <1>2, <2>1, MailboxAssumption
    <2> QED
        BY <1>1, <2>2
<1>5. routine[id].pc # "none"
    BY <1>1, <1>3, <1>4 DEF Placed
<1>6. routine[id].pc \in {"remove", "end"}
    BY <1>5, IdType DEF Solo, Working, TypeOK, Routine
<1>7. Reached(routine[id]) = Len(Items(id)) + 1
    BY <1>6 DEF Counted, Reached
<1> QED
    BY <1>1, <1>7 DEF Tally
----------------------------------------------------------------------------
(* The digest and the files.                                               *)
LEMMA SumsInit == Init => Sums
BY DEF Init, Sums

LEMMA SumsConsume == TypeOK /\ Placed /\ Sums /\ Consume => Sums'
<1> SUFFICES ASSUME TypeOK, Placed, Sums, Consume
             PROVE  Sums'
    OBVIOUS
<1>1. UNCHANGED <<keep, disk, digest>>
    BY Reads DEF files
<1>2. ASSUME NEW id \in Id, Starts(id)
      PROVE  Sums'
    <2>1. routine[id].pc = "none"
        BY <1>2, BeforeIrreflexive DEF Starts, Placed
    <2>2. routine'[id].pc = "make"
        <3>1. routine[id] \in Routine
            BY DEF TypeOK
        <3> QED
            BY <1>2, <3>1 DEF Starts, Routine
    <2>3. \A o \in Id : routine'[o] = routine[o] \/ (o = id /\ routine'[o].pc = "make")
        BY <1>2, <2>2 DEF Starts
    <2> QED
        BY <1>1, <2>1, <2>3 DEF Sums, Filed, Item
<1>3. CASE UNCHANGED routine
    BY <1>1, <1>3 DEF Sums, Filed, Item
<1> QED
    BY <1>2, <1>3, Reads

(* A file changes by the hand of the goroutine of the queue, which writes  *)
(* its own, or when files are not kept.                                    *)
LEMMA DiskStep ==
    ASSUME TypeOK, Sums, NEW id \in Id, Produce(id), NEW f \in File, disk'[f] # disk[f]
    PROVE  \/ /\ Create(id) \/ Write(id)
              /\ routine[id].k \in DOMAIN Items(id) /\ f = Item(id).file
              /\ routine[id].pc \in {"create", "write"}
           \/ ~ keep /\ disk'[f] = Absent
<1>1. disk \in [File -> Content \cup {Partial, Absent}]
    BY DEF TypeOK
<1>2. CASE Create(id)
    BY <1>1, <1>2 DEF Create, TypeOK
<1>3. CASE Write(id)
    BY <1>1, <1>3 DEF Write, TypeOK
<1>4. CASE Remove(id)
    BY <1>1, <1>4 DEF Remove, Sums
<1> QED
    BY <1>2, <1>3, <1>4 DEF Produce, MakeDir, PartFails, Hand, Reset, Close, files

LEMMA SumsProduce ==
    ASSUME TypeOK, Solo, Sums, NEW id \in Id, Produce(id)
    PROVE  Sums'
<1>0. /\ \A o \in Id \ {id} : routine'[o] = routine[o]
      /\ UNCHANGED <<keep, queue>>
      /\ routine[id] \in Routine
      /\ routine[id].pc \in {"create", "write", "send", "reset"} =>
           routine[id].k \in DOMAIN Items(id)
    BY Moves DEF TypeOK
<1>1. (\A o \in Id : routine'[o].pc \notin {"send", "reset"}) => digest' = << >>
    <2> SUFFICES ASSUME \A o \in Id : routine'[o].pc \notin {"send", "reset"}
                 PROVE  digest' = << >>
        OBVIOUS
    <2>1. CASE Reset(id)
        BY <2>1 DEF Reset
    <2>2. CASE ~ Reset(id)
        <3>0. routine'[id].pc \notin {"send", "reset"}
            OBVIOUS
        <3>1. routine[id].pc \notin {"send", "reset", "write"}
            BY <2>2, <3>0, Moves
        <3>2. ~ Write(id)
            BY <3>1 DEF Write
        <3>3. digest' = digest
            BY <2>2, <3>2 DEF Produce, MakeDir, Create, PartFails, Hand, Close, Remove, files
        <3> QED
            BY <1>0, <3>1, <3>3 DEF Sums
    <2> QED
        BY <2>1, <2>2
<1>2. ASSUME NEW o \in Id \ {id}
      PROVE  /\ routine'[o].pc = "remove" => ~ keep
             /\ routine'[o].pc \notin {"write", "send"} \/ UNCHANGED disk \/ ~ keep
             /\ routine[o].pc \in {"write", "send"} => routine[id].pc = "remove"
    <2>1. routine[o].pc = "remove" => ~ keep
        BY DEF Sums
    <2>2. routine[o].pc \in {"write", "send"} => routine[id].pc = "remove"
        <3> SUFFICES ASSUME routine[o].pc \in {"write", "send"}
                     PROVE  routine[id].pc \notin Working
            BY Moves DEF Working
        <3> QED
            BY DEF Solo, Working
    <2>3. routine[id].pc = "remove" => ~ keep
        BY DEF Sums
    <2> QED
        BY <1>0, <2>1, <2>2, <2>3
<1>3. ASSUME NEW o \in Id \ {id}, routine[o].pc \in {"write", "send"}
      PROVE  /\ ~ keep
             /\ \A f \in File : disk'[f] = disk[f] \/ disk'[f] = Absent
    <2>1. routine[id].pc = "remove"
        BY <1>2, <1>3
    <2> QED
        BY <2>1, DiskStep DEF Sums
<1>4. ASSUME NEW o \in Id \ {id}
      PROVE  /\ routine'[o].pc = "remove" => ~ keep'
             /\ routine'[o].pc = "write" /\ disk'[Item(o)'.file] = Absent => ~ keep'
             /\ routine'[o].pc = "send" /\ ~ routine'[o].err =>
                  routine'[o].sum = <<Item(o)'.body>> /\ Filed(Item(o))'
    <2>1. routine'[o] = routine[o] /\ Item(o)' = Item(o)
        BY <1>0 DEF Item
    <2>2. routine[o].pc \in {"write", "send"} => Item(o).file \in File
        BY ItemType DEF Item, TypeOK
    <2> QED
        BY <1>0, <1>2, <1>3, <2>1, <2>2 DEF Sums, Filed, Item
<1>5. /\ routine'[id].pc = "remove" => ~ keep'
      /\ routine'[id].pc = "write" /\ disk'[Item(id)'.file] = Absent => ~ keep'
      /\ routine'[id].pc = "send" /\ ~ routine'[id].err =>
           routine'[id].sum = <<Item(id)'.body>> /\ Filed(Item(id))'
    <2>1. routine'[id].pc = "remove" => ~ keep'
        BY <1>0, Moves
    <2>2. ASSUME routine'[id].pc = "write"
          PROVE  disk'[Item(id)'.file] # Absent
        <3>1. Create(id) /\ routine'[id].k = routine[id].k /\ routine[id].pc = "create"
            BY <2>2, Moves
        <3>2. Item(id).file \in File /\ Item(id)' = Item(id)
            BY <1>0, <3>1, ItemType DEF Item
        <3>3. disk'[Item(id).file] = Partial
            BY <3>1, <3>2 DEF Create, TypeOK
        <3> QED
            BY <3>2, <3>3, MailboxAssumption
    <2>3. ASSUME routine'[id].pc = "send", ~ routine'[id].err
          PROVE  routine'[id].sum = <<Item(id)'.body>> /\ Filed(Item(id))'
        <3>1. /\ Write(id) /\ routine'[id].k = routine[id].k /\ routine[id].pc = "write"
              /\ routine'[id].sum = digest'
            BY <2>3, Moves
        <3>2. Item(id).file \in File /\ Item(id)' = Item(id)
            BY <1>0, <3>1, ItemType DEF Item
        <3>3. \A o \in Id : routine[o].pc \notin {"send", "reset"}
            BY <3>1 DEF Solo, Working
        <3>4. digest' = <<Item(id).body>>
            <4>1. digest = << >> /\ digest' = Append(digest, Item(id).body)
                BY <3>1, <3>3 DEF Sums, Write
            <4> QED
                BY <4>1
        <3>5. disk'[Item(id).file] = Item(id).body \/ (~ keep /\ disk'[Item(id).file] = Absent)
            <4>1. CASE disk[Item(id).file] = Absent
                BY <3>1, <4>1 DEF Write, Sums
            <4>2. CASE disk[Item(id).file] # Absent
                BY <3>1, <3>2, <4>2 DEF Write, TypeOK
            <4> QED
                BY <4>1, <4>2
        <3> QED
            BY <1>0, <3>1, <3>2, <3>4, <3>5 DEF Filed
    <2> QED
        BY <2>1, <2>2, <2>3
<1> QED
    BY <1>1, <1>4, <1>5 DEF Sums

LEMMA SumsNext == TypeOK /\ Solo /\ Placed /\ Sums /\ [Next]_vars => Sums'
<1>1. Sums /\ UNCHANGED vars => Sums'
    BY DEF vars, files, Sums, Filed, Item
<1> QED
    BY <1>1, SumsConsume, SumsProduce DEF Next

(* What the driver has at hand.                                            *)
LEMMA InHandConsume == TypeOK /\ Solo /\ InHand /\ Consume => InHand'
<1> SUFFICES ASSUME TypeOK, Solo, InHand, Consume, consumer' = "handle"
             PROVE  FALSE
    BY DEF InHand
<1> QED
    BY DEF Consume, ReadMessage, NextBox, Dispatch, ReadFails, OpenFails, Returns, ReadsAll,
           QueueClosed, Handled

(* Two parts of a message are the same, or one of them clashes.            *)
LEMMA Twice ==
    ASSUME NEW id \in Id, NEW k \in DOMAIN Items(id), NEW l \in DOMAIN Items(id),
           Items(id)[k].file = Items(id)[l].file, k # l
    PROVE  Clash(id, k)
BY DEF Clash

LEMMA InHandProduce ==
    ASSUME TypeOK, Solo, Sums, InHand, NEW id \in Id, Produce(id)
    PROVE  InHand'
<1>0. /\ UNCHANGED <<keep, queue>> /\ routine[id].k \in Nat
      /\ routine[id].pc \in {"create", "write", "send"} => routine[id].k \in DOMAIN Items(id)
      /\ \A o \in Id \ {id} : routine'[o] = routine[o]
    BY Moves DEF TypeOK, Routine
<1>1. CASE Hand(id)
    <2>1. /\ id = queue /\ UNCHANGED disk /\ routine[id].pc = "send"
          /\ held' = [id |-> id, k |-> routine[id].k, err |-> routine[id].err,
                      sum |-> routine[id].sum]
        BY <1>1 DEF Hand, files
    <2>2. routine'[id].pc = "reset" /\ routine'[id].k = routine[id].k
        BY <2>1, Moves
    <2>3. ~ routine[id].err => routine[id].sum = <<Item(id).body>> /\ Filed(Item(id))
        BY <2>1 DEF Sums
    <2>4. /\ held'.id = id /\ held'.k = routine[id].k /\ held'.err = routine[id].err
          /\ held'.sum = routine[id].sum
        BY <2>1
    <2>5. held'.k \in 1 .. Reached(routine'[id]) - 1
        BY <1>0, <2>1, <2>2, <2>4 DEF Reached, TypeOK, Routine
    <2> QED
        BY <1>0, <2>1, <2>3, <2>4, <2>5 DEF InHand, Filed, Item
<1>2. CASE ~ Hand(id)
    <2> SUFFICES ASSUME consumer = "handle", consumer' = "handle", held' = held
                 PROVE  InHand'
        BY <1>2 DEF InHand, Produce, MakeDir, Create, Write, PartFails, Reset, Close, Remove
    <2> DEFINE k == held.k
               i == Items(queue)[k]
    <2>1. /\ held.id = queue /\ k \in 1 .. Reached(routine[queue]) - 1 /\ k \in DOMAIN Items(queue)
          /\ ~ held.err => held.sum = <<i.body>> /\ (Filed(i) \/ Clash(queue, k))
          /\ queue \in Id
        BY DEF InHand, Solo, TypeOK
    <2>2. i.file \in File
        BY <2>1, ItemType
    <2>3. Reached(routine'[queue]) = Reached(routine[queue])
        <3>1. Reached(routine'[id]) = Reached(routine[id])
            BY <1>2, Moves DEF Reached
        <3> QED
            BY <1>0, <2>1, <3>1
    <2>4. Filed(i) => (disk'[i.file] = i.body \/ (~ keep /\ disk'[i.file] = Absent))
                      \/ Clash(queue, k)
        <3> SUFFICES ASSUME Filed(i), disk'[i.file] # disk[i.file], keep \/ disk'[i.file] # Absent
                     PROVE  Clash(queue, k)
            BY DEF Filed
        <3>1. /\ routine[id].pc \in {"create", "write"} /\ i.file = Item(id).file
              /\ routine[id].k \in DOMAIN Items(id)
            BY <2>2, DiskStep
        <3>2. id = queue
            BY <3>1 DEF Solo, Working
        <3>3. k < routine[id].k
            BY <1>0, <2>1, <3>1, <3>2 DEF Reached
        <3> HIDE DEF k
        <3> QED
            BY <1>0, <2>1, <3>1, <3>2, <3>3, Twice DEF Item
    <2> QED
        BY <1>0, <2>1, <2>3, <2>4 DEF InHand, Filed, Clash
<1> QED
    BY <1>1, <1>2

LEMMA InHandNext == TypeOK /\ Solo /\ Sums /\ InHand /\ [Next]_vars => InHand'
<1>1. InHand /\ UNCHANGED vars => InHand'
    BY DEF vars, files, InHand, Filed, Reached, Clash
<1> QED
    BY <1>1, InHandConsume, InHandProduce DEF Next

(* Kept files: what was handed out is in its file, or shares its name.     *)
Shared(o, k) == \E p \in Id : \E l \in DOMAIN Items(p) :
    Items(p)[l].file = Items(o)[k].file /\ <<p, l>> # <<o, k>>
Fine(d, h) ==
    \/ h.err
    \/ d[Items(h.id)[h.k].file] = Items(h.id)[h.k].body
    \/ Shared(h.id, h.k)

LEMMA KeptIs == KeptFilesStay <=> (keep => \A j \in DOMAIN handed : Fine(disk, handed[j]))
BY DEF KeptFilesStay, Fine, Shared

LEMMA KeptInit == Init => KeptFilesStay
BY DEF Init, KeptFilesStay

LEMMA KeptConsume == TypeOK /\ KeptFilesStay /\ Consume => KeptFilesStay'
<1> SUFFICES ASSUME TypeOK, KeptFilesStay, Consume
             PROVE  KeptFilesStay'
    OBVIOUS
<1>1. UNCHANGED <<keep, disk, handed>>
    <2>1. UNCHANGED <<keep, disk>>
        BY Reads DEF files
    <2>2. UNCHANGED handed
        BY DEF Consume, ReadMessage, NextBox, ReadFails, OpenFails, ReadsAll,
               QueueClosed, Handled
    <2> QED
        BY <2>1, <2>2
<1> QED
    BY <1>1 DEF KeptFilesStay

(* What was handed out is a part of its message.                           *)
LEMMA HandedPart ==
    ASSUME TypeOK, Counted, Tally, NEW j \in DOMAIN handed
    PROVE  handed[j].id \in Id /\ handed[j].k \in DOMAIN Items(handed[j].id)
<1> DEFINE id == handed[j].id
<1>1. id \in Id /\ handed[j].k \in 1 .. Reached(routine[id]) - 1
    BY DEF Tally
<1> HIDE DEF id
<1>2. /\ DOMAIN Items(id) = 1 .. Len(Items(id)) /\ Len(Items(id)) \in Nat
      /\ routine[id].k <= Len(Items(id)) + 1 /\ routine[id].k \in Nat
    BY <1>1, ItemType DEF Counted, TypeOK, Routine
<1>3. routine[id].pc = "reset" => routine[id].k <= Len(Items(id))
    BY <1>1, <1>2 DEF TypeOK
<1>4. handed[j].k \in DOMAIN Items(id)
    BY <1>1, <1>2, <1>3 DEF Reached
<1> QED
    BY <1>1, <1>4 DEF id

LEMMA KeptProduce ==
    ASSUME TypeOK, Solo, Counted, Tally, Sums, KeptFilesStay, NEW id \in Id, Produce(id)
    PROVE  KeptFilesStay'
<1>0. UNCHANGED keep
    BY Moves
<1> SUFFICES ASSUME keep
             PROVE  \A j \in DOMAIN handed' : Fine(disk', handed'[j])
    BY <1>0 DEF KeptFilesStay, Fine, Shared
<1>1. \A i \in DOMAIN handed : Fine(disk, handed[i])
    BY KeptIs
<1>2. ASSUME NEW j \in DOMAIN handed
      PROVE  Fine(disk', handed[j])
    <2> DEFINE h == handed[j]
               f == Items(h.id)[h.k].file
    <2>1. h.id \in Id /\ h.k \in DOMAIN Items(h.id) /\ f \in File
        BY HandedPart, ItemType
    <2>2. h.k \in 1 .. Reached(routine[h.id]) - 1
        BY DEF Tally
    <2>3. CASE disk'[f] = disk[f]
        BY <1>1, <2>3 DEF Fine
    <2>4. CASE disk'[f] # disk[f] /\ ~ (Create(id) \/ Write(id))
        BY <2>1, <2>4, DiskStep
    <2>5. CASE disk'[f] # disk[f] /\ (Create(id) \/ Write(id))
        <3>1. /\ routine[id].k \in DOMAIN Items(id) /\ f = Items(id)[routine[id].k].file
              /\ routine[id].pc \in {"create", "write"}
            <4>1. keep
                OBVIOUS
            <4>2. Create(id) => routine[id].pc = "create"
                BY DEF Create
            <4>3. Write(id) => routine[id].pc = "write"
                BY DEF Write
            <4>4. CASE Create(id)
                BY <2>1, <2>5, <4>2, <4>4 DEF Create, Item, TypeOK, files
            <4>5. CASE Write(id)
                BY <2>1, <2>5, <4>3, <4>5 DEF Write, Item, TypeOK, files
            <4> QED
                BY <2>5, <4>4, <4>5
        <3>2. <<id, routine[id].k>> # <<h.id, h.k>>
            BY <2>1, <2>2, <3>1 DEF Reached, TypeOK, Routine
        <3> HIDE DEF h
        <3>3. Shared(h.id, h.k)
            BY <3>1, <3>2 DEF Shared
        <3> QED
            BY <3>3 DEF Fine, h
    <2> QED
        BY <2>3, <2>4, <2>5
<1>3. CASE Hand(id)
    <2>1. /\ handed' = Append(handed, held') /\ UNCHANGED disk /\ routine[id].pc = "send"
          /\ held'.id = id /\ held'.k = routine[id].k /\ held'.err = routine[id].err
        BY <1>3 DEF Hand, files
    <2>2. ~ routine[id].err => disk[Item(id).file] = Item(id).body
        BY <2>1 DEF Sums, Filed
    <2>3. Fine(disk', held')
        BY <2>1, <2>2 DEF Fine, Item
    <2>4. ASSUME NEW j \in DOMAIN handed'
          PROVE  (j \in DOMAIN handed /\ handed'[j] = handed[j]) \/ handed'[j] = held'
        BY <2>1 DEF TypeOK
    <2> QED
        BY <1>2, <2>3, <2>4
<1>4. CASE ~ Hand(id)
    <2>1. UNCHANGED handed
        BY <1>4 DEF Produce, MakeDir, Create, Write, PartFails, Reset, Close, Remove
    <2> QED
        BY <1>2, <2>1
<1> QED
    BY <1>3, <1>4

LEMMA KeptNext ==
    TypeOK /\ Solo /\ Counted /\ Tally /\ Sums /\ KeptFilesStay /\ [Next]_vars => KeptFilesStay'
<1>1. KeptFilesStay /\ UNCHANGED vars => KeptFilesStay'
    BY DEF vars, files, KeptFilesStay
<1> QED
    BY <1>1, KeptConsume, KeptProduce DEF Next
----------------------------------------------------------------------------
LEMMA InHandInit == Init => InHand
BY DEF Init, InHand

LEMMA Invariant == Spec => [](TypeOK /\ IInv)
<1>1. Init => TypeOK /\ IInv
    BY TypeInit, SoloInit, PlacedInit, CountedInit, TallyInit, SumsInit, InHandInit, KeptInit
       DEF IInv
<1>2. TypeOK /\ IInv /\ [Next]_vars => TypeOK' /\ IInv'
    <2> SUFFICES ASSUME TypeOK, IInv, [Next]_vars
                 PROVE  TypeOK' /\ IInv'
        OBVIOUS
    <2>1. TypeOK'
        BY TypeNext
    <2>2. Solo' /\ Placed' /\ Counted' /\ Tally'
        BY <2>1, SoloNext, PlacedNext, CountedNext, TallyNext DEF IInv
    <2>3. Sums' /\ InHand' /\ KeptFilesStay'
        BY SumsNext, InHandNext, KeptNext DEF IInv
    <2> QED
        BY <2>1, <2>2, <2>3 DEF IInv
<1> QED
    BY <1>1, <1>2, PTL DEF Spec

(* Parts are handed out in the order of the mailboxes, of the messages and *)
(* of the includes, each once, and when Process returns ErrDone none is    *)
(* missing but those of messages that could not be read (Process,          *)
(* nextMessage, processMessage).                                           *)
THEOREM InOrder == Spec => []HandedInOrder
BY Invariant, InOrderState, PTL DEF IInv

(* The sum the driver is told is that of the part, and the file it handles *)
(* holds the part or is gone, unless parts share a name (processMessage,   *)
(* writeFile).                                                             *)
THEOREM SumRight == Spec => []SumIsOfFile
<1>1. Solo /\ InHand => SumIsOfFile
    BY DEF Solo, InHand, SumIsOfFile, Filed
<1> QED
    BY <1>1, Invariant, PTL DEF IInv

(* With keep-files, what was handed out stays in its maildir, unless       *)
(* another part has its name (the deferred function).                      *)
THEOREM Kept == Spec => []KeptFilesStay
BY Invariant, PTL DEF IInv
============================================================================
