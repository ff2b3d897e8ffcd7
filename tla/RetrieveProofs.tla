--------------------------- MODULE RetrieveProofs ---------------------------
(***************************************************************************)
(* retriev for any number of lists, days, hours, attempts and runs.        *)
(***************************************************************************)
EXTENDS Retrieve, TLAPS

List == 1 .. Lists
Day  == 1 .. Days

Downloading == pc \in {"hour", "append"}
AtDay == pc \in {"hour", "append", "close"}

(* Only archives are appended to, and each hour counts at most one piece.  *)
Counting ==
    /\ pc = "append" => ~ flat
    /\ pc = "hour" => written < hour
    /\ pc = "append" => 0 < written /\ written <= hour

(* The hours in the archive at hand came before the one at hand.           *)
Sorted(s) == \A i, j \in DOMAIN s : i < j => s[i] < s[j]
Ascending ==
    /\ \A l \in List, d \in Day : Sorted(file[l][d].entries)
    /\ ~ flat /\ Downloading =>
         \A i \in DOMAIN file[list][day].entries : file[list][day].entries[i] < hour

(* A piece that ended without an error that counts is in its file, which   *)
(* is still open when it is the archive at hand.                           *)
Excused(l, d, h) == outcome[l][d][h] \in {"empty", "eof"}
Held(l, d, h) ==
    outcome[l][d][h] \in Answer /\ h \in ToSet(file[l][d].entries) /\ ~ file[l][d].torn
Got(l, d, h) == Excused(l, d, h) \/ (Held(l, d, h) /\ (flat => file[l][d].state \in Stored))
Done(l, d, h) == Excused(l, d, h) \/ (Held(l, d, h) /\ file[l][d].state \in Stored)

Success == pc = "exit" /\ status = 0

ListsDone ==
    /\ Running \/ Success =>
         \A l \in List, d \in Day : l < list => \A h \in 1 .. Pieces : Done(l, d, h)
    /\ Success => list > Lists
DaysDone ==
    AtDay \/ (pc = "day" /\ err # "other") =>
        \A d \in Day : d < day => \A h \in 1 .. Pieces : Done(list, d, h)
HoursGot ==
    Downloading => err # "other" /\ \A h \in 1 .. Pieces : h < hour => Got(list, day, h)
DayGot ==
    pc = "close" /\ err # "other" => \A h \in 1 .. Pieces : Got(list, day, h)
AtHand ==
    /\ AtDay /\ ~ flat /\ written = 0 => file[list][day].entries = << >>
    /\ Downloading /\ ~ flat => ~ file[list][day].torn

Complete == ListsDone /\ DaysDone /\ HoursGot /\ DayGot /\ AtHand

(* In the first run only the archive at hand is open, and what was counted *)
(* is in it, or about to be, or could not be appended.                     *)
Kept(g) == g.entries # << >> \/ g.torn
Whole(g) == g.state \in {"absent", "stuck"} \/ (g.state \in Stored /\ Kept(g))
Tidy ==
    run = 1 /\ ~ flat /\ pc # "killed" =>
        /\ \A l \in List, d \in Day :
             Whole(file[l][d]) \/ (AtDay /\ l = list /\ d = day)
        /\ AtDay => \/ written = 0
                    \/ pc = "append"
                    \/ Kept(file[list][day])

IInv == TypeOK /\ Counting /\ Ascending /\ Complete /\ Tidy
----------------------------------------------------------------------------
USE RetrieveAssumption

(* Giving the day at hand another file changes nothing else.               *)
LEMMA SetType ==
    ASSUME TypeOK, list \in List, day \in Day, NEW g \in File, Set(g)
    PROVE  /\ file' \in [List -> [Day -> File]]
           /\ \A l \in List, d \in Day :
                file'[l][d] = IF l = list /\ d = day THEN g ELSE file[l][d]
BY DEF Set, TypeOK, List, Day

LEMMA Ends == {"empty", "eof", "other"} \subseteq End /\ Answer \subseteq End
BY DEF End

(* How a piece ends is noted for it alone, and brings the next one.        *)
LEMMA EndPieceType ==
    ASSUME TypeOK, Downloading, NEW how \in End, EndPiece(how),
           UNCHANGED flat
    PROVE  /\ outcome' \in [List -> [Day -> [1 .. Hours ->
                               {"none"} \cup End]]]
           /\ \A l \in List, d \in Day, h \in 1 .. Hours :
                outcome'[l][d][h] = IF l = list /\ d = day /\ h = hour THEN how
                                    ELSE outcome[l][d][h]
           /\ err' \in {"none", "eof", "other"} /\ (err' = "other" <=> how = "other")
           /\ hour' = hour + 1 /\ hour' \in 1 .. Pieces' + 1 /\ Pieces' = Pieces
           /\ attempt' = 0
           /\ pc' \in {"hour", "close"} /\ (pc' = "hour" => hour' <= Pieces /\ how # "other")
           /\ pc' = "close" => how = "other" \/ hour = Pieces
<1>1. hour \in 1 .. Pieces /\ hour \in 1 .. Hours /\ list \in List /\ day \in Day /\ Pieces \in Nat
    BY DEF TypeOK, Downloading, Pieces, List, Day
<1>2. outcome' = [outcome EXCEPT ![list][day][hour] = how]
    BY DEF EndPiece
<1>3. outcome \in [List -> [Day -> [1 .. Hours -> {"none"} \cup End]]]
    BY DEF TypeOK, List, Day
<1>4. /\ outcome' \in [List -> [Day -> [1 .. Hours ->
                               {"none"} \cup End]]]
      /\ \A l \in List, d \in Day, h \in 1 .. Hours :
                outcome'[l][d][h] = IF l = list /\ d = day /\ h = hour THEN how
                                    ELSE outcome[l][d][h]
    BY <1>1, <1>2, <1>3
<1>5. Pieces' = Pieces
    BY DEF Pieces
<1> QED
    BY <1>1, <1>4, <1>5 DEF EndPiece

LEMMA Start == Init => IInv
<1> SUFFICES ASSUME Init PROVE IInv
    OBVIOUS
<1> USE DEF Init
<1>1. NoFile \in File
    BY DEF NoFile, File
<1>2. TypeOK
  <2>1. got \in Answer /\ file \in [List -> [Day -> File]]
      BY <1>1 DEF Answer, List, Day
  <2>2. outcome \in [List -> [Day -> [1 .. Hours -> {"none"} \cup End]]]
      BY DEF Untried, List, Day
  <2> QED
      BY <2>1, <2>2 DEF TypeOK, Pieces, List, Day
<1>3. Counting /\ Ascending
    BY DEF Counting, Ascending, Sorted, NoFile, List, Day, Downloading
<1>4. Complete
    BY DEF Complete, ListsDone, DaysDone, HoursGot, DayGot, AtHand, Success, AtDay,
           Downloading, List
<1>5. Tidy
    BY DEF Tidy, Whole, NoFile, AtDay, List, Day
<1> QED
    BY <1>2, <1>3, <1>4, <1>5 DEF IInv
----------------------------------------------------------------------------
(* Every step keeps the types and the counts.                              *)
LEMMA FileTypes ==
    ASSUME TypeOK, list \in List, day \in Day
    PROVE  /\ file[list][day] \in File
           /\ NoFile \in File
           /\ [NoFile EXCEPT !.state = "open"] \in File
           /\ [NoFile EXCEPT !.state = "closed"] \in File
           /\ [state |-> "closed", entries |-> << >>, torn |-> TRUE] \in File
           /\ \A s \in Stored \cup {"stuck"} : [file[list][day] EXCEPT !.state = s] \in File
           /\ [file[list][day] EXCEPT !.torn = TRUE] \in File
           /\ \A h \in 1 .. Hours :
                /\ \A s \in Stored : [state |-> s, entries |-> <<h>>, torn |-> FALSE] \in File
                /\ [file[list][day] EXCEPT !.entries = Append(@, h)] \in File
                /\ [file[list][day] EXCEPT !.entries = Append(@, h), !.torn = TRUE] \in File
<1>1. file[list][day] \in File
    BY DEF TypeOK, List, Day
<1>2. /\ \A h \in 1 .. Hours : Append(file[list][day].entries, h) \in Seq(1 .. Hours)
      /\ \A h \in 1 .. Hours : <<h>> \in Seq(1 .. Hours)
      /\ << >> \in Seq(1 .. Hours)
    BY <1>1 DEF File
<1> QED
    BY <1>1, <1>2 DEF File, NoFile, Stored

LEMMA Placed ==
    ASSUME TypeOK, Downloading
    PROVE  list \in List /\ day \in Day /\ hour \in 1 .. Hours /\ hour <= Pieces
BY DEF TypeOK, Downloading, List, Day, Pieces

LEMMA TypeKeeps == ASSUME IInv, [Next]_vars PROVE TypeOK' /\ Counting'
<1> USE DEF IInv
<1>1. CASE NextList
    BY <1>1 DEF NextList, TypeOK, Counting, Pieces
<1>2. CASE Finish
    BY <1>2 DEF Finish, TypeOK, Counting, Pieces
<1>3. CASE ListFails
    BY <1>3 DEF ListFails, TypeOK, Counting, Pieces
<1>4. CASE EndList
    BY <1>4 DEF EndList, TypeOK, Counting, Pieces
<1>5. CASE BeginDay
  <2> USE <1>5 DEF BeginDay
  <2>1. list \in List /\ day \in Day
      BY DEF TypeOK, List, Day
  <2>2. file' \in [List -> [Day -> File]]
      BY <2>1, FileTypes, SetType DEF TypeOK, List, Day
  <2> QED
      BY <2>2 DEF TypeOK, Counting, Pieces, List, Day
<1>6. CASE BeginFails
    BY <1>6 DEF BeginFails, TypeOK, Counting, Pieces
<1>7. CASE GetPiece
  <2> USE <1>7 DEF GetPiece
  <2>1. Downloading /\ written + 1 \in 0 .. Hours
      BY Placed DEF Downloading, TypeOK, Counting
  <2>2. CASE pc' = "append" /\ UNCHANGED <<file, hour, err, outcome>> /\ ~ flat
      BY <2>1, <2>2, SMTT(30) DEF TypeOK, Counting, Pieces
  <2>3. ASSUME NEW s \in Stored, flat, EndPiece(got'), UNCHANGED written,
               Set([state |-> s, entries |-> <<hour>>, torn |-> FALSE])
        PROVE  TypeOK' /\ Counting'
    <3>1. file' \in [List -> [Day -> File]]
        BY <2>1, <2>3, Placed, FileTypes, SetType
    <3>2. got' \in Answer /\ got' \in End
        BY Ends
    <3>3. attempt' \in 0 .. MaxAttempt /\ written' \in 0 .. Hours
        BY <2>1, <2>3, <3>2, EndPieceType DEF TypeOK
    <3> HIDE <1>7 DEF GetPiece
    <3>4. UNCHANGED <<flat, list, day, status, run>> /\ pc = "hour"
        BY <1>7 DEF GetPiece
    <3> QED
        BY <2>1, <2>3, <3>1, <3>2, <3>3, <3>4, EndPieceType DEF TypeOK, Counting, List, Day
  <2> QED
      BY <2>2, <2>3
<1>8. CASE GetNothing
  <2> USE <1>8 DEF GetNothing
  <2>1. Downloading
      BY DEF Downloading
  <2>2. file' \in [List -> [Day -> File]]
      BY <2>1, Placed, FileTypes, SetType DEF TypeOK, List, Day
  <2> QED
      BY <2>1, <2>2, EndPieceType, Ends DEF TypeOK, Counting, List, Day
<1>9. CASE GetFails
  <2> USE <1>9 DEF GetFails
  <2>1. Downloading
      BY DEF Downloading
  <2>2. file' \in [List -> [Day -> File]]
      BY <2>1, Placed, FileTypes, SetType DEF TypeOK, List, Day
  <2>3. CASE attempt + 1 < MaxAttempt /\ attempt' = attempt + 1 /\ UNCHANGED <<pc, hour, err, outcome>>
      BY <2>2, <2>3 DEF TypeOK, Counting, Pieces, List, Day
  <2>4. CASE \E how \in {"eof", "other"} : EndPiece(how)
      BY <2>1, <2>2, <2>4, EndPieceType, Ends, SMTT(30) DEF TypeOK, Counting, List, Day
  <2> QED
      BY <2>3, <2>4
<1>10. CASE Append1
  <2> USE <1>10 DEF Append1
  <2>1. Downloading
      BY DEF Downloading
  <2>2. file' \in [List -> [Day -> File]]
      BY <2>1, Placed, FileTypes, SetType DEF At
  <2> QED
      BY <2>1, <2>2, EndPieceType, Ends DEF TypeOK, Counting, List, Day
<1>11. CASE AppendFails
  <2> USE <1>11 DEF AppendFails
  <2>1. Downloading
      BY DEF Downloading
  <2>2. file' \in [List -> [Day -> File]]
      BY <2>1, Placed, FileTypes, SetType DEF At
  <2> QED
      BY <2>1, <2>2, EndPieceType, Ends DEF TypeOK, Counting, List, Day
<1>12. CASE EndDay
  <2> USE <1>12 DEF EndDay
  <2>1. list \in List /\ day \in Day
      BY DEF TypeOK, List, Day
  <2>2. file' \in [List -> [Day -> File]]
      BY <2>1, FileTypes, SetType DEF At, TypeOK, List, Day
  <2> QED
      BY <2>1, <2>2, SMTT(30) DEF TypeOK, Counting, Pieces, List, Day
<1>13. CASE Kill
    BY <1>13 DEF Kill, TypeOK, Counting, Pieces
<1>14. CASE Rerun
  <2>1. got' \in Answer /\ outcome' \in [List -> [Day -> [1 .. Hours -> {"none"} \cup End]]]
      BY <1>14 DEF Rerun, Answer, Untried, List, Day
  <2> QED
      BY <1>14, <2>1 DEF Rerun, TypeOK, Counting, Pieces, List, Day
<1>15. CASE UNCHANGED vars
    BY <1>15 DEF vars, TypeOK, Counting, Pieces
<1> QED
    BY <1>1, <1>2, <1>3, <1>4, <1>5, <1>6, <1>7, <1>8, <1>9, <1>10, <1>11, <1>12, <1>13,
       <1>14, <1>15 DEF Next, Work
----------------------------------------------------------------------------
(* Hours in an archive are numbers.                                        *)
LEMMA HourType ==
    ASSUME NEW s \in Seq(1 .. Hours), NEW i \in DOMAIN s PROVE s[i] \in Int
<1>1. s[i] \in 1 .. Hours
    OBVIOUS
<1> QED
    BY <1>1

(* An hour that comes after all those in an archive may be appended.       *)
LEMMA AppendSorted ==
    ASSUME NEW s \in Seq(1 .. Hours), NEW h \in 1 .. Hours, Sorted(s),
           \A i \in DOMAIN s : s[i] < h
    PROVE  /\ Sorted(Append(s, h))
           /\ \A i \in DOMAIN Append(s, h) : Append(s, h)[i] <= h
<1> DEFINE a == Append(s, h)
           n == Len(s)
<1>1. /\ n \in Nat /\ DOMAIN s = 1 .. n /\ DOMAIN a = 1 .. n + 1
      /\ \A i \in 1 .. n : a[i] = s[i]
      /\ a[n + 1] = h /\ h \in Int
    OBVIOUS
<1>2. \A i \in 1 .. n : s[i] \in Int /\ s[i] < h
    BY <1>1, HourType
<1>3. \A i, j \in 1 .. n : i < j => s[i] < s[j]
    BY <1>1 DEF Sorted
<1> HIDE DEF a, n
<1>4. \A i \in 1 .. n + 1 : a[i] \in Int /\ a[i] <= h
  <2> SUFFICES ASSUME NEW i \in 1 .. n + 1 PROVE a[i] \in Int /\ a[i] <= h
      OBVIOUS
  <2>1. i \in 1 .. n \/ i = n + 1
      BY <1>1
  <2> QED
      BY <2>1, <1>1, <1>2
<1>5. \A i, j \in 1 .. n + 1 : i < j => a[i] < a[j]
  <2> SUFFICES ASSUME NEW i \in 1 .. n + 1, NEW j \in 1 .. n + 1, i < j PROVE a[i] < a[j]
      OBVIOUS
  <2>1. i \in 1 .. n /\ (j \in 1 .. n \/ j = n + 1)
      BY <1>1
  <2> QED
      BY <2>1, <1>1, <1>2, <1>3
<1> QED
    BY <1>1, <1>4, <1>5 DEF Sorted, a

LEMMA ShortSorted == Sorted(<< >>) /\ \A h \in 1 .. Hours : Sorted(<<h>>)
  BY DEF Sorted

(* The entries of the archive at hand stay below the hour at hand.         *)
LEMMA AscendingStays ==
    ASSUME IInv, UNCHANGED <<file, flat>>,
           ~ flat /\ Downloading' => Downloading /\ list' = list /\ day' = day /\ hour <= hour'
                                     /\ hour' \in Int
    PROVE  Ascending'
<1> USE DEF IInv, Ascending
<1>1. ASSUME ~ flat, Downloading', NEW i \in DOMAIN file[list][day].entries
      PROVE  file[list][day].entries[i] < hour'
  <2>1. file[list][day].entries[i] < hour
      BY <1>1
  <2>2. file[list][day].entries[i] \in Int /\ hour \in Int
    <3>1. file[list][day].entries \in Seq(1 .. Hours) /\ hour \in Int
      <4>1. TypeOK /\ Downloading
          BY <1>1
      <4>2. file[list][day] \in File /\ hour \in 1 .. Hours
          BY <4>1, Placed, FileTypes
      <4> QED
          BY <4>2 DEF File
    <3> QED
        BY <3>1, HourType
  <2> QED
      BY <1>1, <2>1, <2>2
<1> QED
    BY <1>1

LEMMA AscendingKeeps == ASSUME IInv, [Next]_vars PROVE Ascending'
<1> USE DEF IInv
<1>0. TypeOK' /\ TypeOK
    BY TypeKeeps
<1>1. CASE NextList \/ Finish \/ ListFails \/ EndList \/ BeginFails \/ Kill \/ Rerun
    BY <1>1, AscendingStays
       DEF NextList, Finish, ListFails, EndList, BeginFails, Kill, Rerun, Downloading
<1>2. CASE BeginDay
  <2> USE <1>2 DEF BeginDay
  <2>1. list \in List /\ day \in Day
      BY <1>0 DEF TypeOK, List, Day
  <2>2. CASE flat
      BY <2>2 DEF Ascending
  <2>3. CASE ~ flat
    <3>1. [NoFile EXCEPT !.state = "open"].entries = << >>
        BY DEF NoFile
    <3>2. \A l \in List, d \in Day :
            file'[l][d] = IF l = list /\ d = day THEN [NoFile EXCEPT !.state = "open"]
                          ELSE file[l][d]
        BY <2>1, <2>3, <1>0, FileTypes, SetType
    <3>3. file'[list'][day'].entries = << >>
        BY <2>1, <3>1, <3>2
    <3>4. \A l \in List, d \in Day : Sorted(file'[l][d].entries)
        BY <2>1, <3>1, <3>2, ShortSorted DEF Ascending
    <3> HIDE <1>2 DEF BeginDay
    <3> QED
        BY <3>3, <3>4 DEF Ascending
  <2> QED
      BY <2>2, <2>3
<1>3. CASE GetPiece
  <2> USE <1>3 DEF GetPiece
  <2>1. Downloading
      BY DEF Downloading
  <2>2. CASE pc' = "append" /\ UNCHANGED <<file, hour, err, outcome>>
      BY <1>0, <2>1, <2>2, AscendingStays DEF TypeOK
  <2>3. ASSUME NEW s \in Stored, flat,
               Set([state |-> s, entries |-> <<hour>>, torn |-> FALSE])
        PROVE  Ascending'
    <3>1. \A l \in List, d \in Day :
            file'[l][d] = IF l = list /\ d = day
                          THEN [state |-> s, entries |-> <<hour>>, torn |-> FALSE]
                          ELSE file[l][d]
        BY <1>0, <2>1, <2>3, Placed, FileTypes, SetType
    <3> QED
        BY <2>1, <2>3, <3>1, <1>0, ShortSorted, Placed DEF Ascending
  <2> QED
      BY <2>2, <2>3
<1>4. CASE GetNothing
  <2> USE <1>4 DEF GetNothing
  <2>1. Downloading
      BY DEF Downloading
  <2>2. CASE flat
    <3>1. [NoFile EXCEPT !.state = "closed"].entries = << >>
        BY DEF NoFile
    <3>2. \A l \in List, d \in Day :
            file'[l][d] = IF l = list /\ d = day THEN [NoFile EXCEPT !.state = "closed"]
                          ELSE file[l][d]
        BY <1>0, <2>1, <2>2, Placed, FileTypes, SetType
    <3> QED
        BY <2>1, <2>2, <3>1, <3>2, ShortSorted DEF Ascending
  <2>3. CASE ~ flat
      BY <1>0, <2>1, <2>3, AscendingStays, EndPieceType, Ends DEF TypeOK
  <2> QED
      BY <2>2, <2>3
<1>5. CASE GetFails
  <2> USE <1>5 DEF GetFails
  <2>1. Downloading
      BY DEF Downloading
  <2>2. CASE flat /\ Set([state |-> "closed", entries |-> << >>, torn |-> TRUE])
    <3>1. \A l \in List, d \in Day :
            file'[l][d] = IF l = list /\ d = day
                          THEN [state |-> "closed", entries |-> << >>, torn |-> TRUE]
                          ELSE file[l][d]
        BY <1>0, <2>1, <2>2, Placed, FileTypes, SetType
    <3> QED
        BY <2>1, <2>2, <3>1, ShortSorted DEF Ascending
  <2>3. CASE UNCHANGED file
    <3>1. hour <= hour' /\ hour' \in Int
        BY <1>0, <2>1, EndPieceType, Ends DEF TypeOK
    <3> QED
        BY <2>1, <2>3, <3>1, AscendingStays DEF EndPiece
  <2> QED
      BY <2>2, <2>3
<1>6. CASE Append1 \/ AppendFails
  <2>1. Downloading /\ ~ flat /\ UNCHANGED <<flat, list, day>>
      BY <1>6 DEF Downloading, Counting, Append1, AppendFails
  <2> DEFINE s == file[list][day].entries
  <2>2. list \in List /\ day \in Day /\ hour \in 1 .. Hours /\ s \in Seq(1 .. Hours)
      BY <1>0, <2>1, Placed, FileTypes DEF File
  <2>3. PICK g \in File : Set(g) /\ (g.entries = s \/ g.entries = Append(s, hour))
      BY <1>0, <1>6, <2>2, FileTypes DEF Append1, AppendFails, At, File
  <2>4. \A l \in List, d \in Day :
            file'[l][d] = IF l = list /\ d = day THEN g ELSE file[l][d]
      BY <1>0, <2>2, <2>3, SetType
  <2>5. hour' = hour + 1
      BY <1>6 DEF Append1, AppendFails, EndPiece
  <2>6. Sorted(s) /\ \A i \in DOMAIN s : s[i] < hour
      BY <2>1, <2>2 DEF Ascending
  <2>7. Sorted(g.entries) /\ \A i \in DOMAIN g.entries : g.entries[i] < hour + 1
    <3> HIDE DEF s
    <3>1. \A i \in DOMAIN s : s[i] \in Int
        BY <2>2, HourType
    <3>2. \A i \in DOMAIN Append(s, hour) : Append(s, hour)[i] \in Int
      <4>1. Append(s, hour) \in Seq(1 .. Hours)
          BY <2>2
      <4> QED
          BY <4>1, HourType
    <3>3. CASE g.entries = s
        BY <2>2, <2>6, <3>1, <3>3
    <3>4. CASE g.entries = Append(s, hour)
        BY <2>2, <2>6, <3>2, <3>4, AppendSorted
    <3> QED
        BY <2>3, <3>3, <3>4
  <2> QED
      BY <2>1, <2>2, <2>4, <2>5, <2>7 DEF Ascending
<1>7. CASE EndDay
  <2> USE <1>7 DEF EndDay
  <2>1. list \in List /\ day \in Day /\ pc' = "day"
      BY <1>0 DEF TypeOK, List, Day
  <2>2. CASE flat
      BY <2>1, <2>2 DEF Ascending, Downloading
  <2>3. CASE ~ flat
    <3>0. \/ Set(NoFile)
          \/ \E s \in Stored \cup {"stuck"} : Set([file[list][day] EXCEPT !.state = s])
        BY <2>3 DEF At
    <3> HIDE <1>7 DEF EndDay
    <3>1. PICK g \in File : Set(g) /\ (g.entries = << >> \/ g.entries = file[list][day].entries)
      <4>1. /\ NoFile \in File /\ NoFile.entries = << >>
            /\ \A s \in Stored \cup {"stuck"} :
                 /\ [file[list][day] EXCEPT !.state = s] \in File
                 /\ [file[list][day] EXCEPT !.state = s].entries = file[list][day].entries
          BY <1>0, <2>1, FileTypes DEF NoFile, File
      <4> QED
          BY <3>0, <4>1
    <3>2. \A l \in List, d \in Day :
            file'[l][d] = IF l = list /\ d = day THEN g ELSE file[l][d]
        BY <1>0, <2>1, <3>1, SetType
    <3> QED
        BY <2>1, <3>1, <3>2, ShortSorted DEF Ascending, Downloading
  <2> QED
      BY <2>2, <2>3
<1>8. CASE UNCHANGED vars
    BY <1>8 DEF vars, Ascending, Downloading
<1> QED
    BY <1>1, <1>2, <1>3, <1>4, <1>5, <1>6, <1>7, <1>8 DEF Next, Work
----------------------------------------------------------------------------
(* What the steps do to the pieces of the days before the one at hand, and *)
(* to those of other lists: nothing.                                       *)
LEMMA Elsewhere ==
    ASSUME IInv, Work
    PROVE  /\ Pieces' = Pieces /\ Pieces \in 1 .. Hours /\ flat' = flat
           /\ \A l \in List, d \in Day : (l # list \/ d # day) =>
                /\ file'[l][d] = file[l][d]
                /\ \A h \in 1 .. Hours : outcome'[l][d][h] = outcome[l][d][h]
<1> USE DEF IInv
<1>1. UNCHANGED flat /\ Pieces' = Pieces /\ Pieces \in 1 .. Hours
    BY DEF Work, NextList, Finish, ListFails, EndList, BeginDay, BeginFails, GetPiece,
           GetNothing, GetFails, Append1, AppendFails, EndDay, Pieces, TypeOK
<1>2. UNCHANGED file \/ \E g : Set(g)
    BY DEF Work, NextList, Finish, ListFails, EndList, BeginDay, BeginFails, GetPiece,
           GetNothing, GetFails, Append1, AppendFails, EndDay
<1>3. UNCHANGED outcome \/ \E how : outcome' = [outcome EXCEPT ![list][day][hour] = how]
    BY DEF Work, NextList, Finish, ListFails, EndList, BeginDay, BeginFails, GetPiece,
           GetNothing, GetFails, Append1, AppendFails, EndDay, EndPiece
<1>4. /\ DOMAIN file = List /\ DOMAIN outcome = List
      /\ \A l \in List : DOMAIN file[l] = Day /\ DOMAIN outcome[l] = Day
    BY DEF TypeOK, List, Day
<1> QED
    BY <1>1, <1>2, <1>3, <1>4 DEF Set

LEMMA DoneStays ==
    ASSUME IInv, Work, NEW l \in List, NEW d \in Day, l # list \/ d # day,
           NEW h \in 1 .. Pieces, Done(l, d, h)
    PROVE  Done(l, d, h)'
<1>1. h \in 1 .. Hours /\ Pieces' = Pieces
    BY Elsewhere
<1>2. file'[l][d] = file[l][d] /\ outcome'[l][d][h] = outcome[l][d][h]
    BY <1>1, Elsewhere
<1> QED
    BY <1>2 DEF Done, Excused, Held

(* A piece ends: when it is got, or stops the run, all that is promised    *)
(* holds again.                                                            *)
LEMMA PieceEnds ==
    ASSUME IInv, Work, Downloading, NEW how \in End, EndPiece(how),
           UNCHANGED <<flat, list, day>>,
           how # "other" => \A h \in 1 .. Pieces :
               h = hour \/ (h < hour /\ Got(list, day, h)) => Got(list, day, h)',
           AtHand'
    PROVE  Complete'
<1> USE DEF IInv, Complete
<1>1. /\ list \in List /\ day \in Day /\ hour \in 1 .. Pieces /\ Pieces \in 1 .. Hours /\ Pieces' = Pieces
      /\ pc' \in {"hour", "close"} /\ hour' = hour + 1
      /\ pc' = "hour" => how # "other"
      /\ err' = "other" <=> how = "other"
      /\ pc' = "close" => how = "other" \/ hour = Pieces
    BY Placed, EndPieceType, Ends, Elsewhere, SMTT(30) DEF TypeOK
<1>2. Running /\ AtDay
    BY DEF Downloading, Running, AtDay
<1>3. ListsDone'
    BY <1>1, <1>2, DoneStays DEF ListsDone, Success, List
<1>4. DaysDone'
    BY <1>1, <1>2, DoneStays DEF DaysDone, Day
<1>5. \A h \in 1 .. Pieces : how # "other" /\ h <= hour => Got(list, day, h)'
  <2> SUFFICES ASSUME NEW h \in 1 .. Pieces, how # "other", h <= hour PROVE Got(list, day, h)'
      OBVIOUS
  <2>1. h = hour \/ (h < hour /\ Got(list, day, h))
      BY <1>1 DEF HoursGot
  <2> QED
      BY <2>1
<1>6. HoursGot' /\ DayGot'
    BY <1>1, <1>5 DEF HoursGot, DayGot, Downloading
<1> QED
    BY <1>3, <1>4, <1>6

(* What is noted for the pieces before the one that ends.                  *)
LEMMA OthersStay ==
    ASSUME IInv, Downloading, NEW how \in End, EndPiece(how),
           UNCHANGED flat, NEW h \in 1 .. Pieces, h < hour
    PROVE  outcome'[list][day][h] = outcome[list][day][h]
<1>1. TypeOK /\ list \in List /\ day \in Day /\ h \in 1 .. Hours /\ h # hour
    BY Placed DEF IInv, Pieces, TypeOK
<1> QED
    BY <1>1, EndPieceType, Ends

LEMMA AppendedTo ==
    ASSUME NEW s \in Seq(1 .. Hours), NEW h \in 1 .. Hours
    PROVE  ToSet(Append(s, h)) = ToSet(s) \cup {h}
<1> DEFINE a == Append(s, h)
           n == Len(s)
<1>1. /\ n \in Nat /\ DOMAIN s = 1 .. n /\ DOMAIN a = 1 .. n + 1
      /\ \A i \in 1 .. n : a[i] = s[i]
      /\ a[n + 1] = h
    OBVIOUS
<1> HIDE DEF a, n
<1>2. 1 .. n + 1 = (1 .. n) \cup {n + 1}
    BY <1>1
<1>3. {a[i] : i \in 1 .. n + 1} = {s[i] : i \in 1 .. n} \cup {h}
    BY <1>1, <1>2
<1> QED
    BY <1>1, <1>3 DEF ToSet, a

LEMMA CompleteKeeps == ASSUME IInv, [Next]_vars PROVE Complete'
<1> USE DEF IInv, Complete
<1>0. TypeOK /\ TypeOK'
    BY TypeKeeps
<1>1. CASE NextList
  <2> USE <1>1 DEF NextList
  <2>1. ListsDone'
      BY DEF ListsDone, Running, Success, Done, Excused, Held, Pieces
  <2> QED
      BY <2>1 DEF DaysDone, HoursGot, DayGot, AtHand, AtDay, Downloading, Day
<1>2. CASE Finish
    BY <1>2 DEF Finish, ListsDone, DaysDone, HoursGot, DayGot, AtHand, Success, AtDay, Downloading,
                Running, Done, Excused, Held, Pieces
<1>3. CASE ListFails
    BY <1>3 DEF ListFails, ListsDone, DaysDone, HoursGot, DayGot, AtHand, Success, AtDay,
                Downloading, Running
<1>4. CASE EndList
  <2> USE <1>4 DEF EndList
  <2>1. CASE err = "none"
    <3>1. day > Days /\ Running /\ list \in List /\ list' = list + 1 /\ pc' = "list" /\ Pieces' = Pieces
        BY <1>0, <2>1 DEF Running, TypeOK, List, Pieces
    <3>2. \A d \in Day, h \in 1 .. Pieces : Done(list, d, h)
        BY <1>0, <2>1, <3>1 DEF DaysDone, Day, TypeOK
    <3>3. \A l \in List, d \in Day : l < list' => \A h \in 1 .. Pieces : Done(l, d, h)
        BY <3>1, <3>2 DEF ListsDone, List
    <3>4. ListsDone'
        BY <3>1, <3>3 DEF ListsDone, Success, Done, Excused, Held
    <3> QED
        BY <3>1, <3>4 DEF DaysDone, HoursGot, DayGot, AtHand, AtDay, Downloading
  <2>2. CASE err # "none"
      BY <2>2 DEF ListsDone, DaysDone, HoursGot, DayGot, AtHand, Success, AtDay, Downloading, Running
  <2> QED
      BY <2>1, <2>2
<1>5. CASE BeginDay
  <2> USE <1>5 DEF BeginDay
  <2>1. list \in List /\ day \in Day /\ Work /\ Running /\ Pieces' = Pieces
      BY <1>0 DEF TypeOK, List, Day, Work, Running, Pieces
  <2>2. ListsDone'
      BY <2>1, DoneStays DEF ListsDone, Success, List
  <2>3. DaysDone'
      BY <2>1, DoneStays DEF DaysDone, Day
  <2>4. HoursGot' /\ DayGot'
      BY DEF HoursGot, DayGot, Downloading
  <2>5. AtHand'
    <3>1. /\ [NoFile EXCEPT !.state = "open"].entries = << >>
          /\ ~ [NoFile EXCEPT !.state = "open"].torn
        BY DEF NoFile
    <3>2. ~ flat => file'[list][day] = [NoFile EXCEPT !.state = "open"]
        BY <1>0, <2>1, FileTypes, SetType
    <3> QED
        BY <2>1, <3>1, <3>2 DEF AtHand
  <2> QED
      BY <2>2, <2>3, <2>4, <2>5
<1>6. CASE BeginFails
  <2> USE <1>6 DEF BeginFails
  <2>1. ListsDone'
      BY DEF ListsDone, Running, Success, Done, Excused, Held, Pieces
  <2> QED
      BY <2>1 DEF DaysDone, HoursGot, DayGot, AtHand, AtDay, Downloading
<1>7. CASE GetPiece
  <2> USE <1>7 DEF GetPiece
  <2>1. Downloading /\ Work
      BY DEF Downloading, Work
  <2>2. CASE /\ ~ flat /\ pc' = "append" /\ written' = written + 1
             /\ UNCHANGED <<file, hour, err, outcome>>
    <3>1. ListsDone' /\ DaysDone'
        BY <2>1, <2>2 DEF ListsDone, DaysDone, Running, Success, AtDay, Downloading, Done, Excused,
                          Held, Pieces
    <3>2. HoursGot' /\ DayGot'
        BY <2>1, <2>2 DEF HoursGot, DayGot, Downloading, Got, Excused, Held, Pieces
    <3>3. AtHand'
      <4>1. written' # 0
          BY <1>0, <2>2 DEF TypeOK
      <4> QED
          BY <2>1, <2>2, <4>1 DEF AtHand
    <3> QED
        BY <3>1, <3>2, <3>3
  <2>3. ASSUME NEW s \in Stored, flat, EndPiece(got'),
               Set([state |-> s, entries |-> <<hour>>, torn |-> FALSE])
        PROVE  Complete'
    <3>1. list \in List /\ day \in Day /\ hour \in 1 .. Hours /\ Pieces = 1 /\ hour = 1
        BY <1>0, <2>1, <2>3, Placed DEF Pieces
    <3>2. file'[list][day] = [state |-> s, entries |-> <<hour>>, torn |-> FALSE]
        BY <1>0, <2>3, <3>1, FileTypes, SetType
    <3>3. hour \in ToSet(<<hour>>)
        BY DEF ToSet
    <3>4. ASSUME NEW h \in 1 .. Pieces PROVE Got(list, day, h)'
      <4>1. h = hour /\ outcome'[list][day][h] \in Answer
          BY <1>0, <2>1, <2>3, <3>1, EndPieceType, Ends DEF End
      <4> QED
          BY <2>3, <3>1, <3>2, <3>3, <4>1 DEF Got, Held
    <3> QED
        BY <2>1, <2>3, <3>1, <3>4, PieceEnds, Ends DEF AtHand, End
  <2> QED
      BY <2>2, <2>3
<1>8. CASE GetNothing
  <2> USE <1>8 DEF GetNothing
  <2>1. Downloading /\ Work /\ EndPiece("empty") /\ UNCHANGED <<flat, list, day>>
      BY DEF Downloading, Work
  <2>2. list \in List /\ day \in Day /\ hour \in 1 .. Hours /\ hour <= Pieces /\ Pieces \in 1 .. Hours
      BY <1>0, <2>1, Placed, Elsewhere
  <2>3. ASSUME NEW h \in 1 .. Pieces, h = hour PROVE Got(list, day, h)'
    <3>1. outcome'[list][day][h] = "empty"
        BY <1>0, <2>1, <2>2, <2>3, EndPieceType, Ends
    <3> QED
        BY <2>1, <3>1 DEF Got, Excused
  <2>4. ASSUME NEW h \in 1 .. Pieces, h < hour, Got(list, day, h) PROVE Got(list, day, h)'
    <3>1. ~ flat
        BY <2>2, <2>4 DEF Pieces
    <3>2. outcome'[list][day][h] = outcome[list][day][h]
        BY <1>0, <2>1, <2>2, <2>4, OthersStay, Ends
    <3> QED
        BY <2>1, <2>4, <3>1, <3>2 DEF Got, Excused, Held
  <2>5. AtHand'
    <3>1. pc = "hour" /\ (~ flat => UNCHANGED <<file, written>>)
        OBVIOUS
    <3> QED
        BY <2>1, <3>1 DEF AtHand, AtDay
  <2> QED
      BY <2>1, <2>3, <2>4, <2>5, PieceEnds, Ends
<1>9. CASE GetFails
  <2> USE <1>9 DEF GetFails
  <2>1. Downloading /\ Work /\ UNCHANGED <<flat, list, day, written>>
      BY DEF Downloading, Work
  <2>2. list \in List /\ day \in Day /\ hour \in 1 .. Hours /\ hour <= Pieces /\ Pieces \in 1 .. Hours
        /\ Pieces' = Pieces
      BY <1>0, <2>1, Placed, Elsewhere
  <2>3. ~ flat => UNCHANGED file
      OBVIOUS
  <2>4. AtHand'
      BY <2>1, <2>3 DEF AtHand, AtDay, Downloading
  <2>5. CASE UNCHANGED <<pc, hour, err, outcome>>
    <3>1. ListsDone'
        BY <2>1, <2>2, <2>5, DoneStays DEF ListsDone, Running, Success, Downloading, List
    <3>2. DaysDone'
        BY <2>1, <2>2, <2>5, DoneStays DEF DaysDone, Running, AtDay, Downloading, Day
    <3>3. HoursGot' /\ DayGot'
      <4>1. ASSUME NEW h \in 1 .. Pieces, h < hour PROVE Got(list, day, h)'
        <5>1. ~ flat
            BY <2>2, <4>1 DEF Pieces
        <5> QED
            BY <2>1, <2>3, <2>5, <4>1, <5>1 DEF HoursGot, Got, Excused, Held
      <4> QED
          BY <2>1, <2>2, <2>5, <4>1 DEF HoursGot, DayGot, Downloading
    <3> QED
        BY <3>1, <3>2, <3>3, <2>4
  <2>6. ASSUME NEW how \in {"eof", "other"}, EndPiece(how) PROVE Complete'
    <3>1. ASSUME NEW h \in 1 .. Pieces, h = hour, how # "other" PROVE Got(list, day, h)'
      <4>1. outcome'[list][day][h] = "eof"
          BY <1>0, <2>1, <2>2, <2>6, <3>1, EndPieceType, Ends
      <4> QED
          BY <2>1, <4>1 DEF Got, Excused
    <3>2. ASSUME NEW h \in 1 .. Pieces, h < hour, Got(list, day, h) PROVE Got(list, day, h)'
      <4>1. ~ flat
          BY <2>2, <3>2 DEF Pieces
      <4>2. outcome'[list][day][h] = outcome[list][day][h]
          BY <1>0, <2>1, <2>2, <2>6, <3>2, OthersStay, Ends
      <4> QED
          BY <2>1, <2>3, <3>2, <4>1, <4>2 DEF Got, Excused, Held
    <3> QED
        BY <2>1, <2>4, <2>6, <3>1, <3>2, PieceEnds, Ends
  <2> QED
      BY <2>5, <2>6
<1>10. CASE Append1
  <2> USE <1>10 DEF Append1
  <2> DEFINE g == [file[list][day] EXCEPT !.entries = Append(@, hour)]
  <2>1. Downloading /\ Work /\ ~ flat /\ 0 < written /\ EndPiece(got)
        /\ got \in Answer \cap End /\ UNCHANGED <<flat, list, day, written>>
      BY <1>0 DEF Downloading, Work, Counting, TypeOK, End
  <2>2. list \in List /\ day \in Day /\ hour \in 1 .. Hours /\ hour <= Pieces /\ Pieces \in 1 .. Hours
      BY <1>0, <2>1, Placed, Elsewhere
  <2>3. file[list][day] \in File /\ file'[list][day] = g
      BY <1>0, <2>2, FileTypes, SetType DEF At
  <2>4. /\ g.torn = file[list][day].torn
        /\ ToSet(g.entries) = ToSet(file[list][day].entries) \cup {hour}
    <3>1. g.torn = file[list][day].torn /\ g.entries = Append(file[list][day].entries, hour)
        BY <2>3 DEF File
    <3>2. file[list][day].entries \in Seq(1 .. Hours)
        BY <2>3 DEF File
    <3> QED
        BY <2>2, <3>1, <3>2, AppendedTo
  <2>5. ASSUME NEW h \in 1 .. Pieces, h < hour, Got(list, day, h) PROVE Got(list, day, h)'
    <3>1. outcome'[list][day][h] = outcome[list][day][h]
        BY <1>0, <2>1, <2>2, <2>5, OthersStay, Ends
    <3> QED
        BY <2>1, <2>3, <2>4, <2>5, <3>1 DEF Got, Excused, Held
  <2>6. ASSUME NEW h \in 1 .. Pieces, h = hour PROVE Got(list, day, h)'
    <3>1. ~ file[list][day].torn /\ outcome'[list][day][h] \in Answer
        BY <1>0, <2>1, <2>2, <2>6, EndPieceType, Ends DEF AtHand
    <3> QED
        BY <2>1, <2>3, <2>4, <2>6, <3>1 DEF Got, Held
  <2>7. AtHand'
    <3>1. written' # 0 /\ ~ file[list][day].torn
        BY <1>0, <2>1 DEF TypeOK, AtHand
    <3> QED
        BY <2>1, <2>3, <2>4, <3>1 DEF AtHand
  <2> QED
      BY <2>1, <2>5, <2>6, <2>7, PieceEnds, Ends
<1>11. CASE AppendFails
  <2> USE <1>11 DEF AppendFails
  <2>1. Downloading /\ Work /\ ~ flat /\ 0 < written /\ EndPiece("other")
        /\ UNCHANGED <<flat, list, day, written>>
      BY DEF Downloading, Work, Counting
  <2>2. pc' = "close"
      BY DEF EndPiece
  <2>3. AtHand'
      BY <1>0, <2>1, <2>2 DEF AtHand, Downloading, TypeOK
  <2> QED
      BY <2>1, <2>3, PieceEnds, Ends
<1>12. CASE EndDay
  <2>0. Work
      BY <1>12 DEF Work
  <2>1. /\ list \in List /\ day \in Day /\ Running /\ Work /\ pc = "close" /\ pc' = "day"
        /\ Pieces' = Pieces /\ Pieces \in 1 .. Hours
        /\ day' = day + 1 /\ UNCHANGED <<list, flat, outcome, err>>
      BY <1>0, <1>12, <2>0, Elsewhere DEF EndDay, TypeOK, List, Day, Running
  <2>6. /\ flat => UNCHANGED file
        /\ ~ flat /\ 0 < written => \E s \in Stored : Set([At(file) EXCEPT !.state = s])
      BY <1>12 DEF EndDay
  <2>2. ListsDone'
      BY <2>1, DoneStays DEF ListsDone, Running, Success, List
  <2>3. ASSUME err # "other", NEW h \in 1 .. Pieces, NEW d \in Day, d = day PROVE Done(list, d, h)'
    <3>1. Got(list, d, h)
        BY <2>1, <2>3 DEF DayGot
    <3>2. CASE Excused(list, d, h)
        BY <2>1, <3>2 DEF Done, Excused
    <3>3. CASE flat
        BY <2>1, <2>6, <3>1, <3>3 DEF Done, Got, Held, Excused
    <3>4. CASE ~ flat /\ ~ Excused(list, d, h)
      <4>1. Held(list, d, h)
          BY <3>1, <3>4 DEF Got
      <4>2. 0 < written
        <5>1. ToSet(<< >>) = {}
            BY DEF ToSet
        <5> QED
            BY <1>0, <2>1, <2>3, <3>4, <4>1, <5>1, SMTT(30) DEF AtHand, AtDay, Held, TypeOK
      <4>3. PICK s \in Stored : Set([At(file) EXCEPT !.state = s])
          BY <2>6, <3>4, <4>2
      <4>4. file'[list][day] = [file[list][day] EXCEPT !.state = s] /\ file[list][day] \in File
          BY <1>0, <2>1, <4>3, FileTypes, SetType DEF At
      <4> QED
          BY <2>1, <2>3, <4>1, <4>4 DEF Done, Held, File
    <3> QED
        BY <3>2, <3>3, <3>4
  <2>4. ASSUME err # "other", NEW d \in Day, d < day, NEW h \in 1 .. Pieces PROVE Done(list, d, h)'
    <3>1. Done(list, d, h)
        BY <2>1, <2>4 DEF DaysDone, AtDay
    <3>2. d # day
        BY <1>0, <2>4 DEF TypeOK, Day
    <3>3. \A l \in List : l = list => Done(l, d, h)'
        BY <2>1, <3>1, <3>2, DoneStays
    <3> QED
        BY <2>1, <3>3
  <2>5. DaysDone'
      BY <2>1, <2>3, <2>4 DEF DaysDone, AtDay, Day
  <2> QED
      BY <2>1, <2>2, <2>5 DEF HoursGot, DayGot, AtHand, AtDay, Downloading
<1>13. CASE Kill
    BY <1>13 DEF Kill, ListsDone, DaysDone, HoursGot, DayGot, AtHand, Success, AtDay, Downloading, Running
<1>14. CASE Rerun
  <2> USE <1>14 DEF Rerun
  <2>1. ListsDone'
      BY DEF ListsDone, Success, List
  <2> QED
      BY <2>1 DEF DaysDone, HoursGot, DayGot, AtHand, AtDay, Downloading, Day
<1>15. CASE UNCHANGED vars
    BY <1>15 DEF vars, ListsDone, DaysDone, HoursGot, DayGot, AtHand, Success, AtDay, Downloading,
                 Running, Done, Got, Excused, Held, Pieces
<1> HIDE DEF IInv, Complete
<1>16. CASE Work
    BY <1>1, <1>2, <1>3, <1>4, <1>5, <1>6, <1>7, <1>8, <1>9, <1>10, <1>11, <1>12, <1>16 DEF Work
<1> QED
    BY <1>13, <1>14, <1>15, <1>16 DEF Next
----------------------------------------------------------------------------
LEMMA Grown ==
    ASSUME NEW s \in Seq(1 .. Hours), NEW h \in 1 .. Hours PROVE Append(s, h) # << >>
OBVIOUS

(* The other archives stay, and the one at hand keeps what was counted.    *)
LEMMA TidyStays ==
    ASSUME IInv, Work, AtDay, AtDay', UNCHANGED <<list, day, run>>,
           ~ flat => \/ written' = 0 \/ pc' = "append" \/ Kept(file'[list][day])
    PROVE  Tidy'
<1>1. Running /\ flat' = flat /\ list \in List /\ day \in Day
    BY Elsewhere DEF Running, AtDay, IInv, TypeOK, List, Day
<1>2. \A l \in List, d \in Day : (l # list \/ d # day) => file'[l][d] = file[l][d]
    BY Elsewhere
<1> QED
    BY <1>1, <1>2 DEF IInv, Tidy, Running

LEMMA TidyKeeps == ASSUME IInv, [Next]_vars PROVE Tidy'
<1> USE DEF IInv
<1>0. TypeOK /\ TypeOK'
    BY TypeKeeps
<1>1. CASE NextList \/ Finish \/ ListFails \/ EndList \/ BeginFails
    BY <1>1 DEF NextList, Finish, ListFails, EndList, BeginFails, Tidy, AtDay
<1>2. CASE BeginDay
  <2> USE <1>2 DEF BeginDay
  <2>1. Work /\ list \in List /\ day \in Day /\ pc' = "hour" /\ written' = 0 /\ ~ AtDay /\ AtDay'
        /\ UNCHANGED <<flat, list, day, run>> /\ pc = "day"
    <3>1. list \in List /\ day \in Day /\ ~ AtDay /\ AtDay'
        BY <1>0 DEF TypeOK, List, Day, AtDay
    <3>2. Work
        BY <1>2 DEF Work
    <3> QED
        BY <3>1, <3>2
  <2>2. \A l \in List, d \in Day : (l # list \/ d # day) => file'[l][d] = file[l][d]
      BY <2>1, Elsewhere
  <2> HIDE <1>2 DEF BeginDay
  <2> QED
      BY <2>1, <2>2 DEF Tidy
<1>3. CASE GetPiece
  <2> USE <1>3 DEF GetPiece
  <2>1. Work /\ Downloading /\ AtDay /\ UNCHANGED <<flat, list, day, run>>
      BY DEF Work, AtDay, Downloading
  <2>2. CASE ~ flat /\ pc' = "append"
      BY <2>1, <2>2, TidyStays DEF AtDay
  <2>3. CASE flat /\ EndPiece(got')
      BY <1>0, <2>1, <2>3, TidyStays, EndPieceType, Ends DEF AtDay, End
  <2> QED
      BY <2>2, <2>3
<1>4. CASE GetNothing \/ GetFails
  <2>1. Work /\ Downloading /\ AtDay /\ AtDay' /\ UNCHANGED <<flat, list, day, run, written>>
      BY <1>4 DEF Work, AtDay, Downloading, GetNothing, GetFails, EndPiece
  <2>2. pc = "hour" /\ (~ flat => UNCHANGED file)
      BY <1>4 DEF GetNothing, GetFails
  <2>3. CASE flat \/ run # 1
      BY <2>1, <2>3 DEF Tidy
  <2>4. CASE ~ flat /\ run = 1
    <3>1. written = 0 \/ Kept(file[list][day])
        BY <2>1, <2>2, <2>4 DEF Tidy
    <3> QED
        BY <2>1, <2>2, <2>4, <3>1, TidyStays
  <2> QED
      BY <2>3, <2>4
<1>5. CASE Append1 \/ AppendFails
  <2>1. Work /\ Downloading /\ AtDay /\ AtDay' /\ ~ flat /\ UNCHANGED <<flat, list, day, run>>
      BY <1>5 DEF Work, AtDay, Downloading, Append1, AppendFails, EndPiece, Counting
  <2>2. list \in List /\ day \in Day /\ hour \in 1 .. Hours /\ file[list][day] \in File
      BY <1>0, <2>1, Placed, FileTypes
  <2>3. Append(file[list][day].entries, hour) # << >>
    <3>1. file[list][day].entries \in Seq(1 .. Hours)
        BY <2>2 DEF File
    <3> QED
        BY <2>2, <3>1, Grown
  <2>4. CASE Append1
    <3>1. file'[list][day] = [file[list][day] EXCEPT !.entries = Append(@, hour)]
        BY <1>0, <2>2, <2>4, FileTypes, SetType DEF Append1, At
    <3> QED
        BY <2>1, <2>2, <2>3, <3>1, TidyStays DEF Kept, File
  <2>5. CASE AppendFails
    <3>1. file'[list][day] \in {[file[list][day] EXCEPT !.torn = TRUE],
                [file[list][day] EXCEPT !.entries = Append(@, hour), !.torn = TRUE]}
        BY <1>0, <2>2, <2>5, FileTypes, SetType DEF AppendFails, At
    <3>2. file'[list][day].torn
        BY <2>2, <3>1 DEF File
    <3> QED
        BY <2>1, <3>2, TidyStays DEF Kept
  <2> QED
      BY <1>5, <2>4, <2>5
<1>6. CASE EndDay
  <2>1. Work /\ list \in List /\ day \in Day /\ AtDay /\ pc' = "day" /\ pc = "close"
        /\ UNCHANGED <<flat, list, run>>
    <3>1. pc = "close" /\ pc' = "day" /\ UNCHANGED <<flat, list, run>>
        BY <1>6 DEF EndDay
    <3>2. list \in List /\ day \in Day /\ AtDay
        BY <1>0, <3>1 DEF TypeOK, List, Day, AtDay
    <3>3. Work
        BY <1>6 DEF Work
    <3> QED
        BY <3>1, <3>2, <3>3
  <2>5. /\ ~ flat /\ written = 0 =>
             Set(NoFile) \/ Set([file[list][day] EXCEPT !.state = "stuck"])
        /\ ~ flat /\ written # 0 =>
             \E s \in Stored : Set([file[list][day] EXCEPT !.state = s])
      BY <1>6 DEF EndDay, At
  <2>2. \A l \in List, d \in Day : (l # list \/ d # day) => file'[l][d] = file[l][d]
      BY <2>1, Elsewhere
  <2>3. CASE flat \/ run # 1
      BY <2>1, <2>3 DEF Tidy
  <2>4. CASE ~ flat /\ run = 1
    <3>1. file[list][day] \in File
        BY <1>0, <2>1, FileTypes
    <3>2. CASE written = 0
      <4>1. \/ file'[list][day] = NoFile
            \/ file'[list][day] = [file[list][day] EXCEPT !.state = "stuck"]
          BY <1>0, <2>1, <2>4, <2>5, <3>2, FileTypes, SetType
      <4>2. Whole(file'[list][day])
          BY <3>1, <4>1 DEF Whole, NoFile, File
      <4> QED
          BY <2>1, <2>2, <2>4, <4>2 DEF Tidy, AtDay
    <3>3. CASE written # 0
      <4>1. PICK s \in Stored : Set([file[list][day] EXCEPT !.state = s])
          BY <2>4, <2>5, <3>3
      <4>2. file'[list][day] = [file[list][day] EXCEPT !.state = s]
          BY <1>0, <2>1, <4>1, FileTypes, SetType
      <4>3. Kept(file[list][day])
          BY <2>1, <2>4, <3>3 DEF Tidy
      <4>4. Whole(file'[list][day])
          BY <3>1, <4>2, <4>3 DEF Whole, Kept, File
      <4> QED
          BY <2>1, <2>2, <2>4, <4>4 DEF Tidy, AtDay
    <3> QED
        BY <3>2, <3>3
  <2> QED
      BY <2>3, <2>4
<1>7. CASE Kill
    BY <1>7 DEF Kill, Tidy
<1>8. CASE Rerun
  <2>1. run' # 1
      BY <1>0, <1>8 DEF Rerun, TypeOK
  <2> QED
      BY <2>1 DEF Tidy
<1>9. CASE UNCHANGED vars
    BY <1>9 DEF vars, Tidy, AtDay
<1> QED
    BY <1>1, <1>2, <1>3, <1>4, <1>5, <1>6, <1>7, <1>8, <1>9 DEF Next, Work
----------------------------------------------------------------------------
LEMMA Inductive == Spec => []IInv
<1>1. IInv /\ [Next]_vars => IInv'
    BY TypeKeeps, AscendingKeeps, CompleteKeeps, TidyKeeps DEF IInv
<1> QED
    BY Start, <1>1, PTL DEF Spec

(* All that retriev keeps has the right type, for any number of lists,     *)
(* days, hours, attempts and runs.                                         *)
THEOREM TypeCorrect == Spec => []TypeOK
<1>1. IInv => TypeOK
    BY DEF IInv
<1> QED
    BY Inductive, <1>1, PTL

(* However often an hour is tried, no archive has it twice, or before an   *)
(* earlier one (createArchive).                                            *)
THEOREM InOrder == Spec => []EntriesInOrder
<1>1. IInv => EntriesInOrder
    BY DEF IInv, Ascending, Sorted, EntriesInOrder, List, Day
<1> QED
    BY Inductive, <1>1, PTL

(* A run that reports success was answered for each piece of each day, and *)
(* stored the body of each answer in the file of the day, which it closed; *)
(* what the answer was, and whether the file is whole, it does not know    *)
(* (timeRange, createArchive, createFile).                                 *)
THEOREM SuccessAnswered == Spec => []SuccessIsAnswered
<1>1. IInv => SuccessIsAnswered
  <2> SUFFICES ASSUME IInv, pc = "exit", status = 0, NEW l \in List, NEW d \in Day,
                      NEW h \in 1 .. Pieces
               PROVE  Done(l, d, h)
      BY DEF SuccessIsAnswered, Done, Excused, Held, List, Day
  <2>1. l < list
      BY DEF IInv, Complete, ListsDone, Success, TypeOK, List
  <2> QED
      BY <2>1 DEF IInv, Complete, ListsDone, Success
<1> QED
    BY Inductive, <1>1, PTL

(* The first run leaves no archive open, and none without an entry that    *)
(* could be written and removed (createArchive, its deferred function).    *)
THEOREM NothingHalf == Spec => []NothingHalfDone
<1>1. IInv => NothingHalfDone
    BY DEF IInv, Tidy, Whole, Kept, AtDay, NothingHalfDone, List, Day
<1> QED
    BY Inductive, <1>1, PTL
============================================================================
