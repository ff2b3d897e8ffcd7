------------------------------ MODULE Retrieve ------------------------------
(***************************************************************************)
(* cmd/retriev: downloads lists of parameters, day by day.                 *)
(*                                                                         *)
(* For each list and day, createArchive writes a tar archive with one      *)
(* entry per hour, createFile (option flat) one plain file for the day.    *)
(* Each piece is tried MaxAttempt times.  An error that is io.EOF is       *)
(* passed over by timeRange, any other ends the run; what timeRange returns *)
(* is the error of its last piece.                                         *)
(*                                                                         *)
(* Not every failure is an error: Copy looks neither at the status of the  *)
(* answer nor at what closing the compressor returns, and createArchive    *)
(* and createFile close their file, and remove it, without looking either. *)
(* A request has no timeout: one that is never answered ends with a kill.  *)
(*                                                                         *)
(* An operator X_Y is a mutant of X.                                       *)
(***************************************************************************)
EXTENDS Integers, Sequences, SequencesExt

CONSTANTS
    Lists,        \* number of lists of parameters
    Days,         \* number of days of the interval
    Hours,        \* hours of a day: 24 in the code
    MaxAttempt,   \* 10 in the code
    MaxRuns       \* bound: runs of retriev

ASSUME RetrieveAssumption ==
    /\ {Lists, Days, Hours, MaxAttempt, MaxRuns} \subseteq Nat \ {0}

VARIABLES
    flat,      \* the option flat
    file,      \* file[l][d]: the archive, or the file, of the day
    pc,        \* "list", "day", "hour", "append", "close", "exit" or "killed"
    list, day, hour,    \* what is at hand
    attempt,   \* attempts at the piece at hand
    got,       \* what the attempt at hand brought
    written,   \* pieces that createArchive counted
    err,       \* the error that timeRange would return now
    outcome,   \* outcome[l][d][h]: how the piece ended in this run
    status,    \* exit status
    run        \* number of the run

vars == <<flat, file, pc, list, day, hour, attempt, got, written, err, outcome, status,
          run>>

(* An answer is the hour's data, the page of an error, or compressed data  *)
(* without its end; a piece may also end in other ways.                    *)
Answer == {"data", "page", "short"}
End == {"empty", "eof", "other"} \cup Answer

(* A file that is "cut" was closed with an error; one that is "stuck" was  *)
(* to be removed.  It is torn when an entry was not written whole.         *)
Stored == {"closed", "cut"}
File == [state : {"absent", "open", "stuck"} \cup Stored, entries : Seq(1 .. Hours),
         torn : BOOLEAN]
NoFile == [state |-> "absent", entries |-> << >>, torn |-> FALSE]

(* A day is one piece with flat.                                           *)
Pieces == IF flat THEN 1 ELSE Hours

TypeOK ==
    /\ flat \in BOOLEAN
    /\ file \in [1 .. Lists -> [1 .. Days -> File]]
    /\ pc \in {"list", "day", "hour", "append", "close", "exit", "killed"}
    /\ list \in 1 .. Lists + 1 /\ day \in 1 .. Days + 1
    /\ hour \in 1 .. Pieces + 1
    /\ pc \in {"day", "hour", "append", "close"} => list <= Lists
    /\ pc \in {"hour", "append", "close"} => day <= Days
    /\ pc \in {"hour", "append"} => hour <= Pieces
    /\ attempt \in 0 .. MaxAttempt
    /\ got \in Answer
    /\ written \in 0 .. Hours
    /\ err \in {"none", "eof", "other"}
    /\ outcome \in [1 .. Lists -> [1 .. Days -> [1 .. Hours ->
                      {"none"} \cup End]]]
    /\ status \in {0, 2}
    /\ run \in 1 .. MaxRuns

Untried == [l \in 1 .. Lists |-> [d \in 1 .. Days |->
              [h \in 1 .. Hours |-> "none"]]]

Init ==
    /\ flat \in BOOLEAN
    /\ file = [l \in 1 .. Lists |-> [d \in 1 .. Days |-> NoFile]]
    /\ pc = "list" /\ list = 1 /\ day = 1 /\ hour = 1
    /\ attempt = 0 /\ got = "data" /\ written = 0 /\ err = "none"
    /\ outcome = Untried
    /\ status = 0 /\ run = 1
----------------------------------------------------------------------------
At(f) == f[list][day]
Set(g) == file' = [file EXCEPT ![list][day] = g]

(* retrParameters comes to the next list; there is none: main returns.     *)
NextList ==
    /\ pc = "list" /\ list <= Lists
    /\ pc' = "day" /\ day' = 1 /\ err' = "none"
    /\ UNCHANGED <<flat, file, list, hour, attempt, got, written, outcome, status, run>>

Finish ==
    /\ pc = "list" /\ list > Lists
    /\ pc' = "exit"
    /\ UNCHANGED <<flat, file, list, day, hour, attempt, got, written, err, outcome,
                   status, run>>

(* loadList or mkdir fails.                                                *)
ListFails ==
    /\ pc = "list" /\ list <= Lists
    /\ pc' = "exit" /\ status' = 2
    /\ UNCHANGED <<flat, file, list, day, hour, attempt, got, written, err, outcome,
                   run>>

(* The days of the list are over: an error, also io.EOF, ends the run.     *)
EndList ==
    /\ pc = "day" /\ (day > Days \/ err = "other")
    /\ IF err = "none" THEN pc' = "list" /\ list' = list + 1 /\ UNCHANGED status
                       ELSE pc' = "exit" /\ status' = 2 /\ UNCHANGED list
    /\ UNCHANGED <<flat, file, day, hour, attempt, got, written, err, outcome, run>>

(* createArchive empties the archive of an earlier run; createFile leaves  *)
(* that to its attempts.                                                   *)
BeginDay ==
    /\ pc = "day" /\ day <= Days /\ err # "other"
    /\ IF flat THEN UNCHANGED file
               ELSE Set([NoFile EXCEPT !.state = "open"])
    /\ pc' = "hour" /\ hour' = 1 /\ attempt' = 0 /\ written' = 0
    /\ err' = "none"
    /\ UNCHANGED <<flat, list, day, got, outcome, status, run>>

BeginFails ==
    /\ pc = "day" /\ day <= Days /\ err # "other"
    /\ day' = day + 1 /\ err' = "other"
    /\ UNCHANGED <<flat, file, pc, list, hour, attempt, got, written, outcome, status, run>>

(* The piece at hand ended: timeRange goes on to the next, or stops.       *)
EndPiece_PastEnd(how) ==
    /\ outcome' = [outcome EXCEPT ![list][day][hour] = how]
    /\ err' = IF how \in {"eof", "other"} THEN how ELSE "none"
    /\ hour' = hour + 1
    /\ attempt' = 0
    /\ pc' = IF how = "other" THEN "close" ELSE "hour"
EndPiece_Swallow(how) ==
    /\ outcome' = [outcome EXCEPT ![list][day][hour] = how]
    /\ err' = IF how = "eof" THEN how ELSE "none"
    /\ hour' = hour + 1
    /\ attempt' = 0
    /\ pc' = IF hour = Pieces THEN "close" ELSE "hour"
EndPiece(how) ==
    /\ outcome' = [outcome EXCEPT ![list][day][hour] = how]
    /\ err' = IF how \in {"eof", "other"} THEN how ELSE "none"
    /\ hour' = hour + 1
    /\ attempt' = 0
    /\ pc' = IF how = "other" \/ hour = Pieces THEN "close" ELSE "hour"

(* An attempt gets an answer and stores its body, whatever its status and  *)
(* whether or not the compressor could write its end.                      *)
GetPiece ==
    /\ pc = "hour" /\ attempt < MaxAttempt
    /\ got' \in Answer
    /\ \/ /\ ~ flat
          /\ pc' = "append" /\ written' = written + 1
          /\ attempt' = attempt + 1
          /\ UNCHANGED <<file, hour, err, outcome>>
       \/ /\ flat
          /\ \E s \in Stored : Set([state |-> s, entries |-> <<hour>>, torn |-> FALSE])
          /\ EndPiece(got') /\ UNCHANGED written
    /\ UNCHANGED <<flat, list, day, status, run>>

(* Nothing is appended for an answer without a body.                       *)
GetNothing ==
    /\ pc = "hour" /\ attempt < MaxAttempt
    /\ IF flat THEN Set([NoFile EXCEPT !.state = "closed"]) ELSE UNCHANGED file
    /\ EndPiece("empty")
    /\ UNCHANGED <<flat, list, day, got, written, status, run>>

(* An attempt fails: tried again, until MaxAttempt.  With flat, the file   *)
(* stays as the attempt left it.                                           *)
GetFails ==
    /\ pc = "hour" /\ attempt < MaxAttempt
    /\ \/ ~ flat /\ UNCHANGED file
       \/ flat /\ Set([state |-> "closed", entries |-> << >>, torn |-> TRUE])
       \/ flat /\ UNCHANGED file
    /\ \/ /\ attempt + 1 < MaxAttempt
          /\ attempt' = attempt + 1
          /\ UNCHANGED <<pc, hour, err, outcome>>
       \/ /\ attempt + 1 = MaxAttempt
          /\ \E how \in {"eof", "other"} : EndPiece(how)
    /\ UNCHANGED <<flat, list, day, got, written, status, run>>

Append1 ==
    /\ pc = "append"
    /\ Set([At(file) EXCEPT !.entries = Append(@, hour)])
    /\ EndPiece(got)
    /\ UNCHANGED <<flat, list, day, got, written, status, run>>

(* appendFile fails, with or without its header in the archive: that is    *)
(* never tried again.                                                      *)
AppendFails_Retry ==
    /\ pc = "append"
    /\ Set([At(file) EXCEPT !.entries = Append(@, hour), !.torn = TRUE])
    /\ pc' = IF attempt < MaxAttempt THEN "hour" ELSE "close"
    /\ UNCHANGED <<flat, list, day, hour, attempt, got, written, err, outcome, status, run>>
AppendFails ==
    /\ pc = "append"
    /\ \/ Set([At(file) EXCEPT !.torn = TRUE])
       \/ Set([At(file) EXCEPT !.entries = Append(@, hour), !.torn = TRUE])
    /\ EndPiece("other")
    /\ UNCHANGED <<flat, list, day, got, written, status, run>>

(* The deferred function closes the archive, and removes it if it counted  *)
(* no piece; either may fail, which nobody sees.                           *)
EndDay_Keep ==
    /\ pc = "close"
    /\ \/ flat /\ UNCHANGED file
       \/ ~ flat /\ \E s \in Stored : Set([At(file) EXCEPT !.state = s])
    /\ pc' = "day" /\ day' = day + 1
    /\ UNCHANGED <<flat, list, hour, attempt, got, written, err, outcome, status, run>>
EndDay ==
    /\ pc = "close"
    /\ \/ flat /\ UNCHANGED file
       \/ ~ flat /\ written = 0 /\ (Set(NoFile) \/ Set([At(file) EXCEPT !.state = "stuck"]))
       \/ ~ flat /\ written > 0 /\ \E s \in Stored : Set([At(file) EXCEPT !.state = s])
    /\ pc' = "day" /\ day' = day + 1
    /\ UNCHANGED <<flat, list, hour, attempt, got, written, err, outcome, status, run>>

Work ==
    \/ NextList \/ Finish \/ ListFails \/ EndList \/ BeginDay \/ BeginFails
    \/ GetPiece \/ GetNothing \/ GetFails \/ Append1 \/ AppendFails \/ EndDay

Running == pc \notin {"exit", "killed"}

Kill ==
    /\ Running
    /\ pc' = "killed"
    /\ UNCHANGED <<flat, file, list, day, hour, attempt, got, written, err, outcome,
                   status, run>>

Rerun ==
    /\ ~ Running /\ run < MaxRuns
    /\ pc' = "list" /\ list' = 1 /\ day' = 1 /\ hour' = 1
    /\ attempt' = 0 /\ got' = "data" /\ written' = 0 /\ err' = "none"
    /\ outcome' = Untried
    /\ status' = 0 /\ run' = run + 1
    /\ UNCHANGED <<flat, file>>

Next == Work \/ Kill \/ Rerun

Spec == Init /\ [][Next]_vars
----------------------------------------------------------------------------
(* The entries of an archive are in order and none is there twice, however *)
(* often its hours were tried (createArchive).                             *)
EntriesInOrder ==
    \A l \in 1 .. Lists, d \in 1 .. Days :
        LET s == file[l][d].entries
        IN  \A i, j \in DOMAIN s : i < j => s[i] < s[j]

(* When main reports a success, every piece of every day was answered: the *)
(* service had nothing, or closed the connection at the last of the        *)
(* attempts, or the body of its answer is in its place in the file of the  *)
(* day, which was closed (timeRange, createArchive, createFile).  That the *)
(* body is the hour's data, and that the closed file is whole, the code    *)
(* does not look at: a page and a file that is cut are successes too.      *)
SuccessIsAnswered ==
    pc = "exit" /\ status = 0 =>
        \A l \in 1 .. Lists, d \in 1 .. Days, h \in 1 .. Pieces :
            \/ outcome[l][d][h] \in {"empty", "eof"}
            \/ /\ outcome[l][d][h] \in Answer
               /\ h \in ToSet(file[l][d].entries)
               /\ file[l][d].state \in Stored /\ ~ file[l][d].torn

(* When the first run returns, no archive is open or has no entry at all,  *)
(* except one that an entry could not be appended to, or that could not be *)
(* removed; a killed run may leave more (createArchive).                   *)
NothingHalfDone ==
    pc = "exit" /\ run = 1 /\ ~ flat =>
        \A l \in 1 .. Lists, d \in 1 .. Days :
            LET f == file[l][d]
            IN  \/ f.state \in {"absent", "stuck"}
                \/ f.state \in Stored /\ (f.entries # << >> \/ f.torn)
============================================================================
