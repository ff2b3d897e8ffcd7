------------------------------ MODULE Mailbox ------------------------------
(***************************************************************************)
(* plugins/mbox: the parts of the mails in a set of mailboxes, as files.   *)
(*                                                                         *)
(* The driver calls Process until it gets ErrDone.  Process receives from  *)
(* a queue; when the queue is closed it reads the next message that a      *)
(* handler accepts and starts a goroutine with a queue of its own.  The    *)
(* goroutine writes each part to the maildir of the handler, hands it out, *)
(* closes its queue and only then, unless files are kept, removes the      *)
(* maildir: the driver may still use the last file, and the goroutine of   *)
(* the next message may already write.  All share one digest, no lock.     *)
(*                                                                         *)
(* A goroutine is named by the place of its message: <<b, p>> is the p-th  *)
(* message of the b-th mailbox, and the end of the mailbox when p is past  *)
(* its length: there the reader returns an empty message without error.    *)
(*                                                                         *)
(* An operator X_Y is a mutant of X.                                       *)
(***************************************************************************)
EXTENDS Integers, Sequences

CONSTANTS
    Box,       \* Box[b]: the messages of the b-th mailbox
    Handlers,  \* the handlers, in the order of the configuration
    Content,   \* what a part can hold
    Empty,     \* the message of which nothing was read
    Partial,   \* what a file being written holds
    Absent     \* what a name without a file holds

Id   == UNION {{b} \X (1 .. Len(Box[b]) + 1) : b \in DOMAIN Box}
NoId == <<0, 0>>
Mail(id) == IF id[2] \in DOMAIN Box[id[1]] THEN Box[id[1]][id[2]] ELSE Empty
----------------------------------------------------------------------------
(* A test accepts everything, or the values of a set, or all the others.   *)
Matches(t, v) == t.any \/ (v \in t.of) # t.not

(* Without any bound dates do not count; with one bound the other is zero. *)
InInterval(p, date) ==
    \/ p.starts = 0 /\ p.ends = 0
    \/ p.starts <= date /\ date <= p.ends

Accept(p, m) ==
    /\ Matches(p.from, m.from)
    /\ p.to.any \/ \E a \in m.to : Matches(p.to, a)
    /\ Matches(p.subject, m.subject)
    /\ ~ (p.noreply /\ m.reply)
    /\ InInterval(p, m.date)
    /\ p.attachment => m.attached

Accepting(id) == {h \in DOMAIN Handlers : Accept(Handlers[h].predicate, Mail(id))}
Handler(id) == Handlers[CHOOSE h \in Accepting(id) : \A o \in Accepting(id) : h <= o]

(* For each include of the handler, the part with the first of its types   *)
(* that the message has, when its name is one of those the include takes.  *)
Types(i, m) == SelectSeq(i.types, LAMBDA t : t \in DOMAIN m.parts)
Part(i, m)  == m.parts[Head(Types(i, m))]
Taken(h, m) == SelectSeq(h.includes,
    LAMBDA i : Types(i, m) # << >> /\ Part(i, m).name \in i.names)

FileOf(h, m, p) ==
    <<h.maildir, IF p.name = "" THEN <<h.prefix, m.date>> ELSE <<p.name, 0>> >>

ItemsOf(h, m) ==
    [k \in DOMAIN Taken(h, m) |->
        [file |-> FileOf(h, m, Part(Taken(h, m)[k], m)),
         body |-> Part(Taken(h, m)[k], m).body]]

Items(id) == IF Accepting(id) = {} THEN << >> ELSE ItemsOf(Handler(id), Mail(id))

Dir  == {Handlers[h].maildir : h \in DOMAIN Handlers}
File == UNION {{Items(id)[k].file : k \in DOMAIN Items(id)} : id \in Id}

ASSUME MailboxAssumption ==
    /\ Len(Box) \in Nat \ {0} /\ DOMAIN Box = 1 .. Len(Box)
    /\ \A b \in DOMAIN Box : Len(Box[b]) \in Nat
    /\ Partial \notin Content /\ Absent \notin Content \cup {Partial}
    /\ \A id \in Id : Items(id) \in Seq([file : Dir \X (STRING \X Nat), body : Content])
    /\ \A id \in Id : id[2] > Len(Box[id[1]]) => Items(id) = << >>

VARIABLES
    keep,      \* the option keep-files
    box, pos,  \* the place in the mailboxes of the next message
    broken,    \* the mailbox at hand cannot be read any more
    consumer,  \* "next" (in nextMessage), "wait" (in Process), "handle",
               \* "done" (it got ErrDone), "refused" (New returned an error)
    queue,     \* the goroutine whose queue Process receives from
    held,      \* what the driver handles
    routine,   \* routine[id]: where the goroutine is, its part, its verdict
    dirs,      \* the maildirs that exist
    disk,      \* disk[f]: what the file holds
    digest,    \* what was written to the digest since its reset
    handed,    \* what Process returned so far
    lost       \* messages that could not be read, mailboxes not opened

reader == <<box, pos, broken, lost>>
files  == <<dirs, disk, digest>>
vars == <<keep, reader, consumer, queue, held, routine, files, handed>>

Result  == [id : Id \cup {NoId}, k : Nat, err : BOOLEAN, sum : Seq(Content)]
Routine == [pc : {"none", "make", "create", "write", "send", "reset",
                  "remove", "end"},
            k : Nat \ {0}, err : BOOLEAN, sum : Seq(Content)]

TypeOK ==
    /\ keep \in BOOLEAN
    /\ box \in DOMAIN Box /\ pos \in 1 .. Len(Box[box]) + 1
    /\ broken \in BOOLEAN /\ lost \subseteq Id
    /\ consumer \in {"next", "wait", "handle", "done", "refused"}
    /\ queue \in Id \cup {NoId}
    /\ held \in Result
    /\ routine \in [Id -> Routine]
    /\ dirs \subseteq Dir
    /\ disk \in [File -> Content \cup {Partial, Absent}]
    /\ digest \in Seq(Content)
    /\ handed \in Seq(Result)
    /\ \A id \in Id : routine[id].pc \in {"create", "write", "send", "reset"} =>
         routine[id].k \in DOMAIN Items(id)

Init ==
    /\ keep \in BOOLEAN
    /\ box = 1 /\ pos = 1 /\ broken = FALSE /\ lost = {}
    /\ consumer = "next"
    /\ queue = NoId
    /\ held = [id |-> NoId, k |-> 0, err |-> FALSE, sum |-> << >>]
    /\ routine = [id \in Id |-> [pc |-> "none", k |-> 1, err |-> FALSE, sum |-> << >>]]
    /\ dirs = {}
    /\ disk = [f \in File |-> Absent]
    /\ digest = << >>
    /\ handed = << >>
----------------------------------------------------------------------------
Becomes(id, r) == routine' = [routine EXCEPT ![id] = r]
Goto(id, pc)   == Becomes(id, [routine[id] EXCEPT !.pc = pc])

(* A message was read: the first handler that accepts it gets a goroutine, *)
(* else the loop of nextMessage goes on.                                   *)
Dispatch(id) ==
    \/ /\ Accepting(id) # {}
       /\ Goto(id, "make")
       /\ queue' = id
       /\ consumer' = "wait"
    \/ /\ Accepting(id) = {}
       /\ UNCHANGED <<routine, queue, consumer>>

ReadMessage(id) ==
    /\ consumer = "next"
    /\ id = <<box, pos>> /\ pos <= Len(Box[box]) /\ ~ broken
    /\ pos' = pos + 1
    /\ Dispatch(id)
    /\ UNCHANGED <<keep, box, broken, lost, held, files, handed>>

(* The end of a mailbox: the next one is opened, and the empty message is  *)
(* returned as if it had been read.                                        *)
NextBox(id) ==
    /\ consumer = "next"
    /\ id = <<box, pos>> /\ pos > Len(Box[box]) /\ ~ broken
    /\ box + 1 \in DOMAIN Box
    /\ box' = box + 1 /\ pos' = 1
    /\ Dispatch(id)
    /\ UNCHANGED <<keep, broken, lost, held, files, handed>>

(* A message that cannot be parsed is passed over by the parser, but an    *)
(* error of the file, or of a directory that the pattern of the location   *)
(* takes, stays where it is: nothing moves the reader to the next mailbox, *)
(* and each call meets it again.                                           *)
MessageFails ==
    /\ pos <= Len(Box[box]) /\ ~ broken
    /\ pos' = pos + 1
    /\ lost' = lost \cup {<<box, pos>>}
    /\ UNCHANGED broken
FileFails ==
    /\ broken' = TRUE
    /\ UNCHANGED <<pos, lost>>

(* An error of the reader: New fails, or Process returns it and its next   *)
(* call finds the queue closed as before.                                  *)
Returns == consumer' = IF queue = NoId THEN "refused" ELSE "wait"

ReadFails ==
    /\ consumer = "next"
    /\ \/ MessageFails \/ FileFails
    /\ Returns
    /\ UNCHANGED <<keep, box, queue, held, routine, files, handed>>

(* The next mailbox cannot be opened: none of it is read.                  *)
OpenFails ==
    /\ consumer = "next"
    /\ pos > Len(Box[box]) /\ ~ broken
    /\ box + 1 \in DOMAIN Box
    /\ box' = box + 1 /\ pos' = Len(Box[box + 1]) + 1
    /\ lost' = lost \cup {id \in Id : id[1] = box + 1 /\ id[2] <= Len(Box[box + 1])}
    /\ Returns
    /\ UNCHANGED <<keep, broken, queue, held, routine, files, handed>>

(* No mailbox is left: ErrDone.                                            *)
ReadsAll ==
    /\ consumer = "next"
    /\ pos > Len(Box[box]) /\ box + 1 \notin DOMAIN Box /\ ~ broken
    /\ consumer' = IF queue = NoId THEN "refused" ELSE "done"
    /\ UNCHANGED <<keep, reader, queue, held, routine, files, handed>>

Closed_Early(id) == routine[id].pc \in {"reset", "remove", "end"}
Closed(id) == routine[id].pc \in {"remove", "end"}

QueueClosed ==
    /\ consumer = "wait" /\ Closed(queue)
    /\ consumer' = "next"
    /\ UNCHANGED <<keep, reader, queue, held, routine, files, handed>>

(* The goroutine sends, Process receives and returns.                      *)
Hand(id) ==
    /\ consumer = "wait" /\ id = queue
    /\ routine[id].pc = "send"
    /\ held' = [id |-> id, k |-> routine[id].k, err |-> routine[id].err,
                sum |-> routine[id].sum]
    /\ handed' = Append(handed, held')
    /\ Goto(id, "reset")
    /\ consumer' = "handle"
    /\ UNCHANGED <<keep, reader, queue, files>>

(* The driver is through with the file and calls Process again.            *)
Handled ==
    /\ consumer = "handle"
    /\ consumer' = "wait"
    /\ UNCHANGED <<keep, reader, queue, held, routine, files, handed>>
----------------------------------------------------------------------------
Item(id) == Items(id)[routine[id].k]

MakeDir(id) ==
    /\ routine[id].pc = "make" /\ routine[id].k \in DOMAIN Items(id)
    /\ dirs' = dirs \cup {Item(id).file[1]}
    /\ Goto(id, "create")
    /\ UNCHANGED <<keep, reader, consumer, queue, held, disk, digest, handed>>

Create(id) ==
    /\ routine[id].pc = "create" /\ Item(id).file[1] \in dirs
    /\ disk' = [disk EXCEPT ![Item(id).file] = Partial]
    /\ Goto(id, "write")
    /\ UNCHANGED <<keep, reader, consumer, queue, held, dirs, digest, handed>>

(* The part goes to the file, if it was not removed meanwhile, and to the  *)
(* digest; the sum is that of the digest.                                  *)
Write(id) ==
    /\ routine[id].pc = "write"
    /\ disk' = IF disk[Item(id).file] = Absent THEN disk
               ELSE [disk EXCEPT ![Item(id).file] = Item(id).body]
    /\ digest' = Append(digest, Item(id).body)
    /\ Becomes(id, [routine[id] EXCEPT !.pc = "send", !.err = FALSE,
                                       !.sum = digest'])
    /\ UNCHANGED <<keep, reader, consumer, queue, held, dirs, handed>>

(* MkdirAll, Create or the write to the file fails, the second when the    *)
(* maildir was removed at the latest: the part is handed out all the same. *)
PartFails_Dropped(id) ==
    /\ routine[id].pc \in {"make", "create", "write"}
    /\ routine[id].k \in DOMAIN Items(id)
    /\ Goto(id, "reset")
    /\ UNCHANGED <<keep, reader, consumer, queue, held, files, handed>>
PartFails(id) ==
    /\ routine[id].pc \in {"make", "create", "write"}
    /\ routine[id].k \in DOMAIN Items(id)
    /\ Becomes(id, [routine[id] EXCEPT !.pc = "send", !.err = TRUE,
                                       !.sum = digest])
    /\ UNCHANGED <<keep, reader, consumer, queue, held, files, handed>>

Reset_Skips(id) ==
    /\ routine[id].pc = "reset"
    /\ digest' = << >>
    /\ Becomes(id, [routine[id] EXCEPT !.pc = "write", !.k = @ + 1])
    /\ UNCHANGED <<keep, reader, consumer, queue, held, dirs, disk, handed>>
Reset(id) ==
    /\ routine[id].pc = "reset"
    /\ digest' = << >>
    /\ Becomes(id, [routine[id] EXCEPT !.pc = "make", !.k = @ + 1])
    /\ UNCHANGED <<keep, reader, consumer, queue, held, dirs, disk, handed>>

(* The deferred function closes the queue, then removes the maildir unless *)
(* files are kept.                                                         *)
Close_NotKept(id) ==
    /\ routine[id].pc = "make" /\ routine[id].k \notin DOMAIN Items(id)
    /\ Goto(id, "remove")
    /\ UNCHANGED <<keep, reader, consumer, queue, held, files, handed>>
Close_Never(id) ==
    /\ routine[id].pc = "make" /\ routine[id].k \notin DOMAIN Items(id)
    /\ Items(id) # << >>
    /\ Goto(id, IF keep THEN "end" ELSE "remove")
    /\ UNCHANGED <<keep, reader, consumer, queue, held, files, handed>>
Close(id) ==
    /\ routine[id].pc = "make" /\ routine[id].k \notin DOMAIN Items(id)
    /\ Goto(id, IF keep THEN "end" ELSE "remove")
    /\ UNCHANGED <<keep, reader, consumer, queue, held, files, handed>>

(* RemoveAll, whose error is dropped: it may leave some of the files.      *)
Remove(id) ==
    /\ routine[id].pc = "remove"
    /\ LET there == {f \in File : f[1] = Handler(id).maildir /\ disk[f] # Absent}
       IN  \E S \in SUBSET there :
             /\ disk' = [f \in File |-> IF f \in S THEN Absent ELSE disk[f]]
             /\ \/ UNCHANGED dirs
                \/ S = there /\ dirs' = dirs \ {Handler(id).maildir}
    /\ Goto(id, "end")
    /\ UNCHANGED <<keep, reader, consumer, queue, held, digest, handed>>

Consume ==
    \/ \E id \in Id : ReadMessage(id) \/ NextBox(id)
    \/ ReadFails \/ OpenFails \/ ReadsAll \/ QueueClosed \/ Handled

Produce(id) ==
    \/ MakeDir(id) \/ Create(id) \/ Write(id) \/ PartFails(id)
    \/ Hand(id) \/ Reset(id) \/ Close(id) \/ Remove(id)

Next == Consume \/ \E id \in Id : Produce(id)

Spec == Init /\ [][Next]_vars

(* The driver goes on until ErrDone, and goroutines are scheduled.         *)
FairSpec == Spec /\ WF_vars(Consume) /\ \A id \in Id : WF_vars(Produce(id))
----------------------------------------------------------------------------
(* What there is to hand out: the items of the messages, in order.         *)
Before(i, j) == i[1] < j[1] \/ (i[1] = j[1] /\ i[2] < j[2])

(* Parts are handed out in the order of the mailboxes, of the messages and *)
(* of the includes, each once, and when Process returns ErrDone none is    *)
(* missing but those of messages that could not be read (Process,          *)
(* nextMessage, processMessage).                                           *)
HandedInOrder ==
    /\ \A j \in DOMAIN handed : \A i \in 1 .. j - 1 :
         \/ Before(handed[i].id, handed[j].id)
         \/ handed[i].id = handed[j].id /\ handed[i].k < handed[j].k
    /\ consumer = "done" =>
         \A id \in Id \ lost : \A k \in DOMAIN Items(id) :
            \E j \in DOMAIN handed : handed[j].id = id /\ handed[j].k = k

(* Another part of the same message is written to the same file.           *)
Clash(id, k) ==
    \E l \in DOMAIN Items(id) \ {k} : Items(id)[l].file = Items(id)[k].file

(* While the driver handles a part, the sum it was told is that of the     *)
(* part alone, although all goroutines share a digest, and the file holds  *)
(* the part, or is gone already if files are not kept; never half of it,   *)
(* nor another part (processMessage, writeFile).                           *)
SumIsOfFile ==
    consumer = "handle" /\ ~ held.err =>
        LET i == Items(held.id)[held.k]
        IN  /\ held.sum = <<i.body>>
            /\ \/ disk[i.file] = i.body
               \/ ~ keep /\ disk[i.file] = Absent
               \/ Clash(held.id, held.k)

(* With keep-files, what was handed out stays in its maildir for good,     *)
(* unless a later part gets its name (the deferred function).              *)
KeptFilesStay ==
    keep => \A j \in DOMAIN handed :
        LET i == Items(handed[j].id)[handed[j].k]
        IN  \/ handed[j].err
            \/ disk[i.file] = i.body
            \/ \E id \in Id : \E k \in DOMAIN Items(id) :
                  Items(id)[k].file = i.file /\ <<id, k>> # <<handed[j].id, handed[j].k>>

(* Process returns ErrDone at last, or New an error, whatever messages and *)
(* parts fail and whatever mailbox cannot be opened - but not when reading *)
(* a mailbox fails for good: its error then comes back with each call, and *)
(* the mailboxes after it are never read (nextMessage of the reader).      *)
AllHanded == <>(broken \/ consumer \in {"done", "refused"})
============================================================================
