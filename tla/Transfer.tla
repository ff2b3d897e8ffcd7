------------------------------ MODULE Transfer ------------------------------
(***************************************************************************)
(* cmd/secop: moves directories to an SFTP server.                         *)
(*                                                                         *)
(* Each configured directory has a worker: with jobs at most 1 the workers *)
(* run in turn on one connection and stop at the first that fails, else    *)
(* they run side by side, jobs at a time, on connections of their own.  A  *)
(* worker walks its directory.  A file whose remote copy has the same size *)
(* and time is skipped, any other is written from scratch and its time set *)
(* to that of the file.  Then, unless the directory is kept, the local     *)
(* file is removed: the removal is deferred, so that it also follows a     *)
(* transfer that failed.                                                   *)
(*                                                                         *)
(* Times are whole seconds of one clock, that the server shares.  A worker *)
(* reads a file in two halves, so that it can change in between.           *)
(*                                                                         *)
(* An operator X_Y is a mutant of X.                                       *)
(***************************************************************************)
EXTENDS Integers, Sequences, FiniteSets

CONSTANTS
    N,          \* number of configured directories
    File,       \* files of the local directories
    Listing,    \* Listing[d]: the files of d, in the order of the walk
    Remote,     \* Remote[d][f]: the remote name of f, without .gz
    Keep, Forced, Compress,    \* the options of d
    Jobs,       \* the option jobs
    Content,    \* what a file can hold
    Size,       \* Size[v]: its length; empty files are left out
    Partial,    \* what an incomplete or mixed copy holds
    Absent,     \* what a remote name without a file holds
    MaxClock,   \* bound: seconds
    MaxEdits,   \* bound: changes of the local files
    MaxRuns     \* bound: runs of secop

Dir == 1 .. N

(* The remote file that the worker writes; directories share none.         *)
Dest(d, f) == <<Remote[d][f], Compress[d]>>

Name == {Remote[d][f] : d \in Dir, f \in File} \X BOOLEAN

ASSUME TransferAssumption ==
    /\ N \in Nat /\ Jobs \in Int
    /\ Listing \in [Dir -> Seq(File)]
    /\ \A d \in Dir : \A i, j \in DOMAIN Listing[d] :
         Listing[d][i] = Listing[d][j] => i = j
    /\ {Keep, Forced, Compress} \subseteq [Dir -> BOOLEAN]
    /\ Content # {} /\ Size \in [Content -> Nat \ {0}]
    /\ Partial \notin Content /\ Absent \notin Content \cup {Partial}
    /\ {MaxClock, MaxEdits} \subseteq Nat /\ MaxRuns \in Nat \ {0}
    /\ \A c, d \in Dir, f, g \in File :
         Remote[c][f] = Remote[d][g] => c = d /\ f = g

VARIABLES
    here,      \* here[f]: the file is in its local directory
    local,     \* local[f]: what it holds, and its time
    remote,    \* remote[n]: what the server has under the name
    clock,     \* the second
    edits,     \* changes so far
    hasty,     \* files whose times could not tell a change
    touched,   \* files changed since the run began
    main,      \* "running", "exited" or "killed"
    run,       \* number of the run
    next,      \* directory for which multiJobs asks a permit; N + 1 after the loop
    taken,     \* permits taken from its semaphore
    spawned,   \* directories whose goroutine runs
    live,      \* live[c]: the connection works
    w          \* w[d]: the worker of d

tree    == <<here, local>>
outside == <<clock, edits, hasty, touched>>
process == <<main, run>>
pool    == <<next, taken, spawned>>
vars == <<tree, remote, outside, process, pool, live, w>>

Time == 0 .. MaxClock

Worker ==
    [pc     : {"wait", "visit", "stat", "open", "send", "rest", "stamp",
               "close", "end"},
     found  : SUBSET (Nat \ {0}),             \* places in Listing[d] of what the walk found
     at     : Nat,                            \* that of the file at hand
     info   : [size : Nat, mtime : Time],     \* size and time when visited
     read   : Content,                        \* content when half was read
     logged : SUBSET File,                    \* errors logged
     failed : BOOLEAN]                        \* it ended with an error

TypeOK ==
    /\ here \in [File -> BOOLEAN]
    /\ local \in [File -> [body : Content, mtime : Time]]
    /\ remote \in [Name -> [body : Content \cup {Partial, Absent},
                            size : Nat, mtime : Time]]
    /\ clock \in Time /\ edits \in 0 .. MaxEdits
    /\ hasty \subseteq File /\ touched \subseteq File
    /\ main \in {"running", "exited", "killed"} /\ run \in 1 .. MaxRuns
    /\ next \in 1 .. N + 1 /\ taken \in Int /\ spawned \subseteq Dir
    /\ live \in [Dir -> BOOLEAN]
    /\ w \in [Dir -> Worker]
    /\ \A d \in Dir :
         /\ w[d].found \subseteq DOMAIN Listing[d]
         /\ w[d].pc \notin {"wait", "visit", "end"} => w[d].at \in w[d].found

Idle == [pc |-> "wait", found |-> {}, at |-> 0,
         info |-> [size |-> 0, mtime |-> 0],
         read |-> CHOOSE v \in Content : TRUE, logged |-> {}, failed |-> FALSE]

Init ==
    /\ here = [f \in File |-> TRUE]
    /\ local \in [File -> [body : Content, mtime : {0}]]
    /\ remote = [n \in Name |-> [body |-> Absent, size |-> 0, mtime |-> 0]]
    /\ clock = 0 /\ edits = 0 /\ hasty = {} /\ touched = {}
    /\ main = "running" /\ run = 1
    /\ next = 1 /\ taken = 0 /\ spawned = {}
    /\ live = [d \in Dir |-> FALSE]
    /\ w = [d \in Dir |-> Idle]
----------------------------------------------------------------------------
Single == Jobs <= 1
Conn(d) == IF Single THEN 1 ELSE d
Active == {d \in Dir : w[d].pc \notin {"wait", "end"}}

At(d) == Listing[d][w[d].at]
To(d) == Dest(d, At(d))

(* What the walk has yet to come to.                                       *)
Left(d) == {i \in w[d].found : i > w[d].at}

Becomes(d, r) == w' = [w EXCEPT ![d] = r]
Goto(d, pc)   == Becomes(d, [w[d] EXCEPT !.pc = pc])
Fail(d)       == Becomes(d, [w[d] EXCEPT !.pc = "end", !.failed = TRUE])

(* multiJobs takes a permit for each directory before it starts its        *)
(* goroutine, and all of them before it returns.                           *)
Grants(n) == taken + n <= Jobs

Acquire ==
    /\ main = "running" /\ ~ Single /\ next <= N
    /\ Grants(1)
    /\ taken' = taken + 1
    /\ spawned' = spawned \cup {next}
    /\ next' = next + 1
    /\ UNCHANGED <<tree, remote, outside, process, live, w>>

(* The goroutine gives its permit back as it ends, whatever singleJob says. *)
Release_Early(d) ==
    /\ main = "running" /\ d \in spawned
    /\ taken' = taken - 1
    /\ spawned' = spawned \ {d}
    /\ UNCHANGED <<tree, remote, outside, process, next, live, w>>
Release_OnSuccess(d) ==
    /\ main = "running" /\ d \in spawned /\ w[d].pc = "end"
    /\ taken' = IF w[d].failed THEN taken ELSE taken - 1
    /\ spawned' = spawned \ {d}
    /\ UNCHANGED <<tree, remote, outside, process, next, live, w>>
Release(d) ==
    /\ main = "running" /\ d \in spawned /\ w[d].pc = "end"
    /\ taken' = taken - 1
    /\ spawned' = spawned \ {d}
    /\ UNCHANGED <<tree, remote, outside, process, next, live, w>>

(* A goroutine starts when it is scheduled; the loop of singleJob goes on  *)
(* after a directory without error.                                        *)
MayStart(d) ==
    IF Single THEN \A c \in 1 .. d - 1 : w[c].pc = "end" /\ ~ w[c].failed
              ELSE d \in spawned

Start(d) ==
    /\ w[d].pc = "wait" /\ MayStart(d)
    /\ live' = IF Single /\ d > 1 THEN live ELSE [live EXCEPT ![d] = TRUE]
    /\ Becomes(d, [w[d] EXCEPT !.pc = "visit",
                               !.found = {i \in DOMAIN Listing[d] : here[Listing[d][i]]}])
    /\ UNCHANGED <<tree, remote>>

(* No connection: singleJob ends.                                          *)
ConnectFails(d) ==
    /\ w[d].pc = "wait" /\ MayStart(d) /\ ~ (Single /\ d > 1)
    /\ Fail(d)
    /\ UNCHANGED <<tree, remote, live>>

Breaks(d) ==
    /\ live[d]
    /\ live' = [live EXCEPT ![d] = FALSE]
    /\ UNCHANGED <<tree, remote, w>>

(* The walk finds the next file, and opens it.                             *)
Seen(d, i) ==
    LET f == local[Listing[d][i]]
    IN  [w[d] EXCEPT !.pc = IF Forced[d] THEN "open" ELSE "stat", !.at = i,
                     !.info = [size |-> Size[f.body], mtime |-> f.mtime]]

Visit(d) ==
    /\ w[d].pc = "visit"
    /\ \E i \in Left(d) :
         /\ \A j \in Left(d) : i <= j
         /\ here[Listing[d][i]]
         /\ Becomes(d, Seen(d, i))
    /\ UNCHANGED <<tree, remote, live>>

(* The file is gone or cannot be opened: the walk ends with an error.      *)
VisitFails(d) ==
    /\ w[d].pc = "visit" /\ Left(d) # {}
    /\ Fail(d)
    /\ UNCHANGED <<tree, remote, live>>

Same_Size(s, r) == s.size = r.size
Same(s, r) == s.size = r.size /\ s.mtime = r.mtime

(* The copy on the server looks like the file.                             *)
Skip(d) ==
    /\ w[d].pc = "stat" /\ live[Conn(d)]
    /\ LET r == remote[<<Remote[d][At(d)], FALSE>>]
       IN  r.body # Absent /\ Same(w[d].info, r)
    /\ Goto(d, "close")
    /\ UNCHANGED <<tree, remote, live>>

(* It does not, there is none, or Stat fails.                              *)
Differs(d) ==
    /\ w[d].pc = "stat"
    /\ Goto(d, "open")
    /\ UNCHANGED <<tree, remote, live>>

Write(d, body, size) ==
    remote' = [remote EXCEPT ![To(d)] =
                 [body |-> body, size |-> size, mtime |-> clock]]

(* The remote file is opened, and emptied if it was there.                 *)
OpenRemote_NoTrunc(d) ==
    /\ w[d].pc = "open" /\ live[Conn(d)]
    /\ Write(d, Partial, remote[To(d)].size)
    /\ Goto(d, "send")
    /\ UNCHANGED <<tree, live>>
OpenRemote(d) ==
    /\ w[d].pc = "open" /\ live[Conn(d)]
    /\ Write(d, Partial, 0)
    /\ Goto(d, "send")
    /\ UNCHANGED <<tree, live>>

SendFirst(d) ==
    /\ w[d].pc = "send" /\ live[Conn(d)]
    /\ \E n \in 0 .. Size[local[At(d)].body] - 1 :
         Write(d, Partial, IF n < remote[To(d)].size THEN remote[To(d)].size ELSE n)
    /\ Becomes(d, [w[d] EXCEPT !.pc = "rest", !.read = local[At(d)].body])
    /\ UNCHANGED <<tree, live>>

(* The rest is sent.  What gzip still holds is sent by its deferred Close, *)
(* whose error is dropped.  An error is logged when what was read is not   *)
(* as long as the file was.                                                *)
SendRest(d) ==
    /\ w[d].pc = "rest" /\ live[Conn(d)]
    /\ LET now   == local[At(d)].body
           whole == IF now = w[d].read THEN now ELSE Partial
       IN  /\ \E b \in {whole} \cup (IF Compress[d] THEN {Partial} ELSE {}) :
                Write(d, b, Size[now])
           /\ Becomes(d, [w[d] EXCEPT !.pc = "stamp",
                                      !.logged = IF Size[now] = w[d].info.size THEN @
                                                 ELSE @ \cup {At(d)}])
    /\ UNCHANGED <<tree, live>>

(* The transfer fails: logged only.  Once the remote file was opened, it   *)
(* still gets the time of the local file.                                  *)
SendFails_Silent(d) ==
    /\ w[d].pc \in {"open", "send", "rest"}
    /\ Goto(d, IF w[d].pc = "open" THEN "close" ELSE "stamp")
    /\ UNCHANGED <<tree, remote, live>>
SendFails(d) ==
    /\ w[d].pc \in {"open", "send", "rest"}
    /\ Becomes(d, [w[d] EXCEPT !.pc = IF @ = "open" THEN "close" ELSE "stamp",
                               !.logged = @ \cup {At(d)}])
    /\ UNCHANGED <<tree, remote, live>>

(* Chtimes, whose error is dropped.                                        *)
Stamp(d) ==
    /\ w[d].pc = "stamp"
    /\ \/ /\ live[Conn(d)]
          /\ remote' = [remote EXCEPT ![To(d)].mtime = w[d].info.mtime]
       \/ UNCHANGED remote
    /\ Goto(d, "close")
    /\ UNCHANGED <<tree, live>>

(* The deferred function removes the file unless it is kept; the error of  *)
(* os.Remove is dropped.                                                   *)
Removes_Always(d) == TRUE
Removes(d) == ~ Keep[d]

Close_NoWalk(d) ==
    /\ w[d].pc = "close"
    /\ Becomes(d, [w[d] EXCEPT !.pc = "stat", !.at = @ + 1])
    /\ UNCHANGED <<tree, remote, live>>
Close(d) ==
    /\ w[d].pc = "close"
    /\ \/ Removes(d) /\ here' = [here EXCEPT ![At(d)] = FALSE]
       \/ UNCHANGED here
    /\ Goto(d, "visit")
    /\ UNCHANGED <<local, remote, live>>

EndDir(d) ==
    /\ w[d].pc = "visit" /\ Left(d) = {}
    /\ Goto(d, "end")
    /\ UNCHANGED <<tree, remote, live>>

Step(d) ==
    /\ main = "running"
    /\ \/ Start(d) \/ ConnectFails(d) \/ Visit(d) \/ VisitFails(d) \/ Skip(d)
       \/ Differs(d) \/ OpenRemote(d) \/ SendFirst(d) \/ SendRest(d)
       \/ SendFails(d) \/ Stamp(d) \/ Close(d) \/ EndDir(d)
    /\ UNCHANGED <<outside, process, pool>>

(* runCopy returns: after the last directory or the first that failed, or  *)
(* when multiJobs gets all its permits.                                    *)
Exit_One ==
    /\ main = "running"
    /\ IF Single THEN \/ \A d \in Dir : w[d].pc = "end"
                      \/ \E d \in Dir : w[d].failed
                 ELSE next > N /\ Grants(1)
    /\ main' = "exited"
    /\ UNCHANGED <<tree, remote, outside, run, pool, live, w>>
Exit ==
    /\ main = "running"
    /\ IF Single THEN \/ \A d \in Dir : w[d].pc = "end"
                      \/ \E d \in Dir : w[d].failed
                 ELSE next > N /\ Grants(Jobs)
    /\ main' = "exited"
    /\ UNCHANGED <<tree, remote, outside, run, pool, live, w>>

Kill ==
    /\ main = "running" /\ main' = "killed"
    /\ UNCHANGED <<tree, remote, outside, run, pool, live, w>>

Rerun ==
    /\ main # "running" /\ run < MaxRuns
    /\ main' = "running" /\ run' = run + 1
    /\ touched' = {}
    /\ next' = 1 /\ taken' = 0 /\ spawned' = {}
    /\ live' = [d \in Dir |-> FALSE]
    /\ w' = [d \in Dir |-> Idle]
    /\ UNCHANGED <<tree, remote, clock, edits, hasty>>

Tick ==
    /\ clock < MaxClock
    /\ clock' = clock + 1
    /\ UNCHANGED <<tree, remote, edits, hasty, touched, process, pool, live, w>>

(* A change is hasty when the file is at hand, or when it falls in the     *)
(* second of the previous one or of the last write of a copy: then neither *)
(* size nor time need tell.                                                *)
Edit(f) ==
    /\ here[f] /\ edits < MaxEdits
    /\ edits' = edits + 1
    /\ \E v \in Content : local' = [local EXCEPT ![f] = [body |-> v, mtime |-> clock]]
    /\ touched' = touched \cup {f}
    /\ hasty' = IF \/ local[f].mtime = clock
                   \/ \E d \in Dir : remote[Dest(d, f)].body # Absent
                                     /\ remote[Dest(d, f)].mtime = clock
                   \/ main = "running" /\ \E d \in Active :
                          w[d].pc # "visit" /\ At(d) = f
                THEN hasty \cup {f} ELSE hasty
    /\ UNCHANGED <<here, remote, clock, process, pool, live, w>>

Next ==
    \/ \E d \in Dir : Step(d)
    \/ \E d \in Dir : Release(d)
    \/ \E d \in Dir : main = "running" /\ Breaks(d)
                        /\ UNCHANGED <<outside, process, pool>>
    \/ Acquire \/ Exit \/ Kill \/ Rerun \/ Tick
    \/ \E f \in File : Edit(f)

Spec == Init /\ [][Next]_vars

(* The scheduler runs main and every worker, and the calls of the client   *)
(* return.                                                                 *)
FairSpec ==
    /\ Spec
    /\ WF_vars(Acquire) /\ WF_vars(Exit)
    /\ \A d \in Dir : WF_vars(Step(d)) /\ WF_vars(Release(d))
----------------------------------------------------------------------------
(* The server has the file as it is now.                                   *)
Stored(d, f) ==
    \E n \in {Dest(d, f), <<Remote[d][f], FALSE>>} :
        remote[n].body = local[f].body

(* A local file is removed by its worker only when the server has all of   *)
(* it, or its transfer was logged as an error: a skip is never wrong, also *)
(* after a crash that left half a copy.  Apart from hasty changes and from *)
(* the last block of a compressed copy (the closure of Client.Copy).       *)
RemovedIsStored ==
    [][\A f \in File : here[f] /\ ~ here'[f] =>
        \E d \in Dir :
            /\ w[d].pc = "close" /\ At(d) = f /\ ~ Keep[d]
            /\ \/ Stored(d, f) \/ f \in w[d].logged
               \/ f \in hasty \/ Compress[d]]_vars

(* A run that logs nothing and ends without error has brought all that it  *)
(* listed to the server, however earlier runs ended (Client.Copy, copy).   *)
QuietRunStores ==
    main = "exited" /\ (\A d \in Dir : ~ w[d].failed) =>
        \A d \in Dir : \A f \in File \ (w[d].logged \cup touched \cup hasty) :
            ~ Compress[d] /\ (\E i \in w[d].found : Listing[d][i] = f) => Stored(d, f)

(* A copy with the size and the time of a file, once its worker is through *)
(* with it or is killed, holds the same: the test that skips a file relies *)
(* on it (Client.Copy).  Half a copy may well get the time of the file.    *)
TwinsAreEqual ==
    \A d \in Dir, f \in File \ hasty :
        ~ Compress[d]
          /\ (main # "running" \/ w[d].pc \in {"wait", "visit", "close", "end"})
          /\ remote[Dest(d, f)].body # Absent
          /\ remote[Dest(d, f)].size = Size[local[f].body]
          /\ remote[Dest(d, f)].mtime = local[f].mtime
        => remote[Dest(d, f)].body = local[f].body

(* No more workers than jobs run at a time, one when jobs is at most 1, and *)
(* none is left when secop returns: each permit is given back once, after  *)
(* the worker has ended, and main waits for all of them (multiJobs).       *)
AtMostJobs ==
    /\ Cardinality(Active) <= IF Single THEN 1 ELSE Jobs
    /\ main = "exited" => Active = {}

(* A run that is not killed ends, also when its connections break.         *)
RunEnds == main = "running" ~> main # "running"

(* cmd/secop/main.go:14: secop copies files.  Somewhere the file exists.   *)
NoFileIsLost ==
    \A f \in File : here[f] \/ \E d \in Dir :
        (\E i \in DOMAIN Listing[d] : Listing[d][i] = f) /\ Stored(d, f)
============================================================================
