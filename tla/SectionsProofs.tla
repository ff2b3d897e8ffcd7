--------------------------- MODULE SectionsProofs ---------------------------
(***************************************************************************)
(* Proofs about Sections, with Patterns and Times: the ranges of a pattern *)
(* on a path of any depth, durations of any length, the way from the name  *)
(* of a file to the name of its place, and what the documents of any       *)
(* configuration say.                                                      *)
(***************************************************************************)
EXTENDS Sections, FiniteSetTheorems, TLAPS

(* A bound of a range, counted from the end when it is negative, is cut to *)
(* the length of the path (normalize).                                     *)
LEMMA NormalizeIs ==
    ASSUME NEW i \in Int, NEW dirs, Len(dirs) \in Nat
    PROVE  /\ normalize(i, Len(dirs)) \in 0 .. Len(dirs)
           /\ \/ normalize(i, Len(dirs)) = Bound(i, dirs)
              \/ Bound(i, dirs) < 0 /\ normalize(i, Len(dirs)) = 0
              \/ Bound(i, dirs) > Len(dirs) /\ normalize(i, Len(dirs)) = Len(dirs)
BY DEF normalize, Bound

(* The directories that a range names are taken, in their order and        *)
(* without a gap: those from the first bound to before the second          *)
(* (slice.Resolve, normalize).                                             *)
THEOREM RangeTakes ==
    ASSUME NEW S, NEW dirs \in Seq(S), NEW piece, piece.from \in Int, piece.to \in Int
    PROVE  LET named == {k \in DOMAIN dirs : Bound(piece.from, dirs) < k /\ k <= Bound(piece.to, dirs)}
           IN  named # {} =>
               \E first \in 0 .. Len(dirs) - 1 : \E len \in 1 .. Len(dirs) - first :
                 /\ named = first + 1 .. first + len
                 /\ RangeOf(piece, dirs) = << <<"dirs", [j \in 1 .. len |-> dirs[first + j]]>> >>
<1> DEFINE named == {k \in DOMAIN dirs : Bound(piece.from, dirs) < k /\ k <= Bound(piece.to, dirs)}
           size  == Len(dirs)
           begin == normalize(piece.from, size)
           end   == normalize(piece.to, size)
<1> SUFFICES ASSUME named # {}
             PROVE  \E first \in 0 .. Len(dirs) - 1 : \E len \in 1 .. Len(dirs) - first :
                      /\ named = first + 1 .. first + len
                      /\ RangeOf(piece, dirs) = << <<"dirs", [j \in 1 .. len |-> dirs[first + j]]>> >>
    OBVIOUS
<1>1. size \in Nat /\ DOMAIN dirs = 1 .. size
    OBVIOUS
<1>2. begin \in 0 .. size /\ end \in 0 .. size
    BY <1>1, NormalizeIs
<1>3. named = {k \in 1 .. size : begin < k /\ k <= end}
    <2>1. ASSUME NEW k \in 1 .. size
          PROVE  /\ Bound(piece.from, dirs) < k <=> begin < k
                 /\ k <= Bound(piece.to, dirs) <=> k <= end
        <3> DEFINE b == Bound(piece.from, dirs)
                   e == Bound(piece.to, dirs)
        <3>1. b \in Int /\ e \in Int
            BY <1>1 DEF Bound
        <3>2. begin = b \/ (b < 0 /\ begin = 0) \/ (b > size /\ begin = size)
            BY <1>1, <3>1, NormalizeIs
        <3>3. end = e \/ (e < 0 /\ end = 0) \/ (e > size /\ end = size)
            BY <1>1, <3>1, NormalizeIs
        <3> HIDE DEF b, e, begin, end
        <3>4. /\ b < k <=> begin < k
              /\ k <= e <=> k <= end
            BY <1>1, <3>1, <3>2, <3>3
        <3> QED
            BY <3>4 DEF b, e
    <2> QED
        BY <1>1, <2>1
<1> HIDE DEF named, begin, end
<1>4. begin < end
    BY <1>1, <1>2, <1>3
<1>5. named = begin + 1 .. begin + (end - begin)
    <2>1. \A k \in 1 .. size : begin < k /\ k <= end <=> k \in begin + 1 .. begin + (end - begin)
        BY <1>1, <1>2
    <2>2. \A k \in begin + 1 .. begin + (end - begin) : k \in 1 .. size
        BY <1>1, <1>2
    <2> HIDE DEF size
    <2> QED
        BY <1>3, <2>1, <2>2
<1>6. RangeOf(piece, dirs) = << <<"dirs", SubSeq(dirs, begin + 1, end)>> >>
    BY <1>2, <1>4, SMTT(30) DEF RangeOf, begin, end
<1>7. SubSeq(dirs, begin + 1, end) = [j \in 1 .. end - begin |-> dirs[begin + j]]
    BY <1>1, <1>2, <1>4
<1>8. begin \in 0 .. size - 1 /\ end - begin \in 1 .. size - begin
    BY <1>1, <1>2, <1>4
<1> QED
    BY <1>5, <1>6, <1>7, <1>8

(* A range ends the command with an index out of range exactly when both   *)
(* its bounds lie at or past the end; in all other cases what it takes is  *)
(* among the directories (slice.Resolve).                                  *)
THEOREM RangePanics ==
    ASSUME NEW S, NEW dirs \in Seq(S), dirs # << >>,
           NEW piece, piece.is = "range", piece.from \in Int, piece.to \in Int
    PROVE  /\ Panics(piece, dirs) <=> piece.from >= Len(dirs) /\ piece.to >= Len(dirs)
           /\ ~ Panics(piece, dirs) =>
                \/ RangeOf(piece, dirs) = << >>
                \/ \E k \in DOMAIN dirs : RangeOf(piece, dirs) = << <<"dirs", <<dirs[k]>> >> >>
                \/ \E k, l \in DOMAIN dirs :
                     k <= l /\ RangeOf(piece, dirs) = << <<"dirs", SubSeq(dirs, k, l)>> >>
<1> DEFINE size  == Len(dirs)
           begin == normalize(piece.from, size)
           end   == normalize(piece.to, size)
<1>1. size \in Nat /\ size > 0 /\ DOMAIN dirs = 1 .. size
    OBVIOUS
<1>2. begin \in 0 .. size /\ end \in 0 .. size
    BY <1>1, NormalizeIs
<1>3. /\ begin = size <=> piece.from >= size
      /\ end = size <=> piece.to >= size
    BY <1>1 DEF normalize
<1>4. Panics(piece, dirs) <=> begin = size /\ end = size
    BY DEF Panics
<1> HIDE DEF begin, end
<1>5. CASE end < begin
    BY <1>3, <1>4, <1>5 DEF RangeOf, begin, end
<1>6. CASE end = begin /\ begin < size
    <2>1. RangeOf(piece, dirs) = << <<"dirs", <<dirs[begin + 1]>> >> >>
        BY <1>2, <1>6 DEF RangeOf, begin, end
    <2>2. begin + 1 \in DOMAIN dirs
        BY <1>1, <1>2, <1>6
    <2> QED
        BY <1>3, <1>4, <2>1, <2>2
<1>7. CASE begin < end
    <2>1. RangeOf(piece, dirs) = << <<"dirs", SubSeq(dirs, begin + 1, end)>> >>
        BY <1>2, <1>7 DEF RangeOf, begin, end
    <2>2. begin + 1 \in DOMAIN dirs /\ end \in DOMAIN dirs /\ begin + 1 <= end
        BY <1>1, <1>2, <1>7
    <2> QED
        BY <1>3, <1>4, <2>1, <2>2
<1>8. CASE end = begin /\ begin = size
    BY <1>3, <1>4, <1>8
<1>9. end < begin \/ end = begin \/ begin < end
    BY <1>1, <1>2
<1>10. begin < size \/ begin = size
    <2> HIDE DEF size
    <2> QED
        BY <1>1, <1>2
<1> QED
    BY <1>5, <1>6, <1>7, <1>8, <1>9, <1>10
----------------------------------------------------------------------------
(* The text of a duration names its seconds, cut into units that are never *)
(* full (FormatDurationISO).                                               *)
THEOREM DurationsReadBack ==
    ASSUME NEW t \in Nat, NEW exact \in BOOLEAN
    PROVE  /\ Worth(Text(t, exact)) = t
           /\ Text(t, exact).hour \in 0 .. 23
           /\ Text(t, exact).min \in 0 .. 59 /\ Text(t, exact).sec \in 0 .. 59
<1> DEFINE m == t \div 60
           h == t \div 3600
<1>1. m \in Nat /\ h \in Nat /\ h = m \div 60 /\ t \div 86400 = h \div 24
    OBVIOUS
<1>2. t = 60 * m + (t % 60) /\ m = 60 * (m \div 60) + (m % 60) /\ h = 24 * (h \div 24) + (h % 24)
    OBVIOUS
<1>3. t % 60 \in 0 .. 59 /\ m % 60 \in 0 .. 59 /\ h % 24 \in 0 .. 23
    OBVIOUS
<1> QED
    BY <1>1, <1>2, <1>3 DEF Worth, Text

(* The parts of a time out of the name of a file are those of the name.    *)
LEMMA MomentParts ==
    ASSUME NEW y \in Int, NEW doy \in Int, NEW h \in Int, NEW m \in Int,
           Moment(y, doy, h, m) # Failed
    PROVE  LET t == Moment(y, doy, h, m)
           IN  /\ t \in Nat
               /\ YearOf(t) = y /\ YearDay(t) = doy
               /\ HourOf(t) = h /\ MinuteOf(t) = m /\ SecondOf(t) = 0
<1>1. /\ y >= 1 /\ doy \in 1 .. 365 /\ h \in 0 .. 23 /\ m \in 0 .. 59
      /\ Moment(y, doy, h, m) = (y - 1) * Year + (doy - 1) * Day + h * Hour + m * Minute
    BY DEF Moment
<1> DEFINE t == Moment(y, doy, h, m)
<1>2. t = (y - 1) * 63072000 + (doy - 1) * 172800 + h * 7200 + m * 120
    BY <1>1 DEF Year, Day, Hour, Minute, Second
<1> HIDE DEF t
<1>3. t \in Nat /\ t \div 63072000 = y - 1
    BY <1>1, <1>2
<1>4. t % 63072000 = (doy - 1) * 172800 + h * 7200 + m * 120
    BY <1>1, <1>2
<1>5. (t % 63072000) \div 172800 = doy - 1
    BY <1>1, <1>4
<1>6. t % 172800 = h * 7200 + m * 120 /\ (t % 172800) \div 7200 = h
    BY <1>1, <1>2
<1>7. t % 7200 = m * 120 /\ (t % 7200) \div 120 = m /\ t % 120 = 0
    BY <1>1, <1>2
<1> QED
    BY <1>1, <1>3, <1>5, <1>6, <1>7
       DEF t, YearOf, YearDay, HourOf, MinuteOf, SecondOf, Year, Day, Hour, Minute, Second

(* A file whose time is found by year and day goes to a place of the same  *)
(* year and day, at midnight (TimeYearDoy, fragment.Resolve).              *)
THEOREM PlacedWhereFound ==
    ASSUME NEW d, d.file.dirs \in Seq(Int), d.file.dirs # << >>, d.file.base \in Seq(Int),
           d.acq = TimeYearDoy(d.file), d.acq # Failed
    PROVE  /\ Fragment("year", d) = << <<"4", d.file.dirs[Len(d.file.dirs)]>> >>
           /\ Fragment("doy", d) = << <<"3", d.file.base[1]>> >>
           /\ Fragment("hour", d) = << <<"2", 0>> >>
<1> DEFINE y == d.file.dirs[Len(d.file.dirs)]
           doy == d.file.base[1]
<1>1. Len(d.file.base) = 1 /\ d.acq = Moment(y, doy, 0, 0)
    BY DEF TimeYearDoy, FromEnd
<1>2. y \in Int /\ doy \in Int
    BY <1>1
<1> HIDE DEF y, doy
<1>3. YearOf(d.acq) = y /\ YearDay(d.acq) = doy /\ HourOf(d.acq) = 0
    BY <1>1, <1>2, MomentParts
<1> QED
    BY <1>3 DEF Fragment, y, doy
----------------------------------------------------------------------------
(* The Data of a document.  The provers do not know that what the tools    *)
(* write themselves are strings.                                           *)
Words == {"", "data", "image", "application", "octet-stream", "jpeg", "text", "plain",
          "parameters table", "encoding", "gzip", "invalid", "true", "duration", "numrec",
          "science.run", "run", "run.numrec", "run.duration"}
Strings == STRING \cup Words
Durations == [day : Nat, hour : Nat, min : Nat, sec : Nat, none : BOOLEAN]
Values == Strings \cup Nat \cup Durations
Pairs == Strings \X Values
Params == Pairs \cup (Strings \X Nat \X Values)
MimeType == [main : Strings, sub : Strings, type : Strings, subtype : Strings]
DataType ==
    [type : Strings, mime : MimeType, level : Int, source : STRING, model : STRING,
     acq : Nat, mod : Nat, incs : SUBSET STRING, exts : SUBSET STRING, mimes : MimeSet,
     func : TimeFuncs, pattern : Pattern, params : Seq(Params), file : FileType]

(* What filling a Data leaves of it.                                       *)
Same(d, e) == d.incs = e.incs /\ d.pattern = e.pattern /\ d.file = e.file /\ d.func = e.func
Timely(d, e) == d.acq = e.acq /\ d.mod = e.mod

(* A set of numbers that is not empty has a least one.                     *)
LEMMA LeastExists ==
    ASSUME NEW S \in SUBSET Nat, S # {}
    PROVE  /\ Min(S) \in S
           /\ \A k \in S : Min(S) <= k
<1>1. PICK m \in S : \A k \in S : k >= m
    <2>1. PICK m \in S : \A k \in SetLessThan(m, OpToRel(<, Nat), Nat) : k \notin S
        <3>1. IsWellFoundedOn(OpToRel(<, Nat), Nat)
            BY NatLessThanWellFounded
        <3> QED
            BY <3>1, WFMin DEF SetLessThan
    <2>2. ASSUME NEW k \in S, k < m
          PROVE  FALSE
        BY <2>1, <2>2 DEF SetLessThan, OpToRel
    <2> QED
        BY <2>2
<1> QED
    BY <1>1 DEF Min

(* The configured Data of a section, before and after the walk enters it.  *)
LEMMA ConfiguredTyped ==
    ASSUME NEW d \in DataWith(Parameter)
    PROVE  d \in DataType
<1>1. Parameter \subseteq Params
    BY DEF Parameter, Params, Pairs, Values, Strings
<1>2. Seq(Parameter) \subseteq Seq(Params)
    BY <1>1
<1>3. Mime \subseteq MimeType
    BY DEF Mime, MimeType, Strings
<1> QED
    BY <1>2, <1>3 DEF DataWith, DataType, Strings

(* Each way of filling a Data keeps its type and says what it changes.     *)
LEMMA RegisterKeeps ==
    ASSUME NEW d \in DataType, NEW name \in Strings, NEW value \in Values
    PROVE  LET r == Register(d, name, value)
           IN  /\ r \in DataType
               /\ Same(r, d) /\ Timely(r, d) /\ r.type = d.type
               /\ r.params = Append(d.params, <<name, value>>)
<1>1. <<name, value>> \in Params
    BY DEF Params, Pairs
<1>2. Append(d.params, <<name, value>>) \in Seq(Params)
    BY <1>1 DEF DataType
<1>3. Register(d, name, value) = [d EXCEPT !.params = Append(d.params, <<name, value>>)]
    BY DEF Register
<1> QED
    BY <1>2, <1>3 DEF DataType, Same, Timely

LEMMA TimedKeeps ==
    ASSUME NEW d \in DataType, NEW a \in Nat, NEW m \in Nat
    PROVE  LET t == Timed(d, a, m)
           IN  /\ t \in DataType
               /\ t.acq = a /\ t.mod = m
               /\ Same(t, d) /\ t.type = d.type /\ t.params = d.params
               /\ \A b, l \in Nat : Timed(t, b, l) = Timed(d, b, l)
BY DEF Timed, DataType, Same

LEMMA TypedKeeps ==
    ASSUME NEW d \in DataType, NEW mimes \in MimeSet, NEW ext
    PROVE  LET t == Typed(mimes, d, ext)
           IN  /\ t \in DataType
               /\ Same(t, d) /\ Timely(t, d) /\ t.params = d.params
               /\ \A a, m \in Nat : Typed(mimes, Timed(d, a, m), ext) = Timed(t, a, m)
<1> DEFINE fit == {k \in DOMAIN mimes : ext \in mimes[k].exts}
           m   == mimes[Min(fit)]
<1>1. CASE fit = {}
    <2>1. Typed(mimes, d, ext) = d
        BY <1>1 DEF Typed
    <2>2. \A a, b \in Nat : Typed(mimes, Timed(d, a, b), ext) = Timed(d, a, b)
        BY <1>1 DEF Typed
    <2> QED
        BY <2>1, <2>2 DEF Same, Timely
<1>2. CASE fit # {}
    <2>1. fit \in SUBSET Nat
        BY DEF MimeSet
    <2>2. Min(fit) \in DOMAIN mimes
        BY <1>2, <2>1, LeastExists
    <2>3. m.type \in STRING /\ m.mime \in Mime
        <3> DEFINE R == [exts : SUBSET STRING, type : STRING, mime : Mime]
                   k == Min(fit)
        <3>1. mimes \in Seq(R) /\ k \in DOMAIN mimes
            BY <2>2 DEF MimeSet
        <3> HIDE DEF R, k
        <3>2. mimes[k] \in R
            BY <3>1
        <3> QED
            BY <3>2 DEF R, k
    <2>4. \A e : Typed(mimes, e, ext) =
                   [e EXCEPT !.type = IF @ = "" THEN m.type ELSE @,
                             !.mime = IF @ = NoMime THEN m.mime ELSE @]
        BY <1>2 DEF Typed
    <2> HIDE DEF fit, m
    <2> DEFINE y == IF d.type = "" THEN m.type ELSE d.type
               z == IF d.mime = NoMime THEN m.mime ELSE d.mime
    <2>5. Typed(mimes, d, ext) = [d EXCEPT !.type = y, !.mime = z]
        BY <2>4
    <2>6. y \in Strings /\ z \in MimeType
        BY <2>3 DEF DataType, Strings, Mime, MimeType
    <2>7. \A a, b \in Nat : Typed(mimes, Timed(d, a, b), ext) =
                              [Timed(d, a, b) EXCEPT !.type = y, !.mime = z]
        BY <2>4 DEF Timed, DataType
    <2> HIDE DEF y, z
    <2>8. Typed(mimes, d, ext) \in DataType
        BY <2>5, <2>6 DEF DataType
    <2>9. LET t == Typed(mimes, d, ext)
          IN  Same(t, d) /\ Timely(t, d) /\ t.params = d.params
        BY <2>5 DEF DataType, Same, Timely
    <2>10. ASSUME NEW a \in Nat, NEW b \in Nat
          PROVE  Typed(mimes, Timed(d, a, b), ext) = Timed(Typed(mimes, d, ext), a, b)
        <3>1. Typed(mimes, Timed(d, a, b), ext) = [Timed(d, a, b) EXCEPT !.type = y, !.mime = z]
            BY <2>7
        <3>2. [Timed(d, a, b) EXCEPT !.type = y, !.mime = z]
                = Timed([d EXCEPT !.type = y, !.mime = z], a, b)
            BY DEF Timed, DataType
        <3> QED
            BY <2>5, <3>1, <3>2
    <2> QED
        BY <2>8, <2>9, <2>10
<1> QED
    BY <1>1, <1>2
----------------------------------------------------------------------------
(* What a file and a row have.                                             *)
LEMMA FileParts ==
    ASSUME NEW file \in FileType
    PROVE  /\ file.dirs \in Seq(Int) /\ file.dirs # << >>
           /\ file.base \in Seq(Int) /\ file.base # << >>
           /\ file.ext \in STRING /\ file.made \in Nat /\ file.changed \in Nat
           /\ file.rows \in Seq(RowType)
           /\ \A k \in DOMAIN file.rows : file.rows[k] \in RowType
BY DEF FileType, FileWith

LEMMA RowParts ==
    ASSUME NEW row \in RowType
    PROVE  row.when \in Int /\ row.upi \in STRING /\ row.file \in FileType
<1>1. Seq({}) \subseteq Seq(RowType)
    OBVIOUS
<1>2. row.file \in FileWith({}) /\ row.when \in Int /\ row.upi \in STRING
    BY DEF RowType
<1>3. FileWith({}) \subseteq FileType
    BY <1>1 DEF FileWith, FileType
<1> QED
    BY <1>2, <1>3

(* What is found of a time in a name is a time, or it fails; only a name   *)
(* with too few parts ends the command.                                    *)
LEMMA MomentType ==
    ASSUME NEW y \in Int, NEW doy \in Int, NEW h \in Int, NEW m \in Int
    PROVE  Moment(y, doy, h, m) \in Nat \cup {Failed}
<1>1. CASE Moment(y, doy, h, m) = Failed
    BY <1>1
<1>2. CASE Moment(y, doy, h, m) # Failed
    BY <1>2, MomentParts
<1> QED
    BY <1>1, <1>2

LEMMA TimesFound ==
    ASSUME NEW file \in FileType
    PROVE  /\ NoteTime(file) \in Nat
           /\ TimeYearDoy(file) \in Nat \cup {Failed}
           /\ TimeRT(file) \in Nat \cup {Failed} \/ (TimeRT(file) = Panic /\ Len(file.base) < 2)
           /\ TimeHDK(file) \in Nat \cup {Failed} \/ (TimeHDK(file) = Panic /\ Len(file.base) < 3)
<1>0. file.base \in Seq(Int) /\ Len(file.base) \in Nat
    BY FileParts
<1>1. \A k \in Nat : FromEnd(file.dirs, k) \in Int
    BY FileParts DEF FromEnd, NaN
<1>2. TimeYearDoy(file) \in Nat \cup {Failed}
    <2>1. CASE Len(file.base) = 1
        <3>1. file.base[1] \in Int
            BY <2>1, FileParts
        <3> QED
            BY <1>1, <3>1, MomentType DEF TimeYearDoy
    <2> QED
        BY <2>1 DEF TimeYearDoy
<1>3. TimeRT(file) \in Nat \cup {Failed} \/ (TimeRT(file) = Panic /\ Len(file.base) < 2)
    <2>1. CASE Len(file.base) >= 2
        <3> DEFINE x == Len(file.base) = 2 /\ file.ext # ""
                   m == IF x THEN NaN ELSE file.base[2]
        <3>1. m \in Int
            <4>1. file.base[2] \in Int
                BY <1>0, <2>1
            <4> HIDE DEF x
            <4> QED
                BY <4>1 DEF NaN
        <3>2. TimeRT(file) = Moment(FromEnd(file.dirs, 2), FromEnd(file.dirs, 1), FromEnd(file.dirs, 0), m)
            <4>1. ~ Len(file.base) < 2
                BY <1>0, <2>1
            <4> QED
                BY <4>1, Zenon DEF TimeRT
        <3> HIDE DEF m
        <3> QED
            BY <1>1, <3>1, <3>2, MomentType
    <2>2. CASE Len(file.base) < 2
        BY <2>2 DEF TimeRT
    <2> QED
        BY <1>0, <2>1, <2>2
<1>4. TimeHDK(file) \in Nat \cup {Failed} \/ (TimeHDK(file) = Panic /\ Len(file.base) < 3)
    <2>1. CASE Len(file.base) >= 3
        <3> DEFINE day  == file.base[Len(file.base) - 2]
                   time == file.base[Len(file.base) - 1]
        <3>1. day \in Int /\ time \in Int
            BY <1>0, <2>1
        <3>2. TimeHDK(file) = IF day < 1 \/ time \notin 0 .. Day - 1 THEN Failed
                              ELSE (day - 1) * Day + time
            BY <1>0, <2>1 DEF TimeHDK
        <3> HIDE DEF day, time
        <3>3. ASSUME day >= 1, time \in 0 .. Day - 1
              PROVE  (day - 1) * Day + time \in Nat
            <4>1. Day = 172800
                BY DEF Day, Hour, Minute, Second
            <4>2. day - 1 \in Nat /\ time \in Nat
                <5>1. day - 1 \in Nat
                    BY <3>1, <3>3
                <5>2. Day - 1 \in Int
                    BY <4>1
                <5>3. time \in Nat
                    BY <3>1, <3>3, <5>2, SMTT(30)
                <5> QED
                    BY <5>1, <5>3
            <4>3. (day - 1) * 172800 + time \in Nat
                BY <4>2
            <4> QED
                BY <4>1, <4>3
        <3> QED
            BY <3>1, <3>2, <3>3
    <2>2. CASE Len(file.base) < 3
        BY <2>2 DEF TimeHDK
    <2> QED
        BY <1>0, <2>1, <2>2
<1>5. NoteTime(file) \in Nat
    <2>1. \A k \in Nat : OrZero(Moment(FromEnd(file.dirs, k + 1), FromEnd(file.dirs, k), 0, 0)) \in Nat
        BY <1>1, MomentType DEF OrZero, Zero, Failed
    <2> QED
        BY <2>1 DEF NoteTime
<1> QED
    BY <1>2, <1>3, <1>4, <1>5

LEMMA TimeTypes ==
    ASSUME NEW file \in FileType
    PROVE  /\ TimeHDK(file) \in Int
           /\ NoteTime(file) \in Nat
           /\ \A func \in TimeFuncs, now \in Clock :
                /\ GetTime(func, file, now) \in Int
                /\ func # "now" => \A x \in Clock : GetTime(func, file, x) = GetTime(func, file, now)
<1>1. TimeHDK(file) \in Int /\ TimeRT(file) \in Int /\ TimeYearDoy(file) \in Int
    BY TimesFound DEF Failed, Panic
<1>2. \A func \in TimeFuncs, now \in Clock : GetTime(func, file, now) \in Int
    BY <1>1, TimesAssumption DEF TimeFuncs, GetTime, Zero
<1>3. \A func \in TimeFuncs \ {"now"} : \A x, now : GetTime(func, file, x) = GetTime(func, file, now)
    BY DEF TimeFuncs, GetTime
<1> QED
    BY <1>1, <1>2, <1>3, TimesFound

(* Only the name of a file that has too few parts ends the command.        *)
LEMMA TimePanics ==
    ASSUME NEW file \in FileType, NEW func \in TimeFuncs, NEW now \in Clock,
           GetTime(func, file, now) = Panic
    PROVE  Len(file.base) < 3
<1>1. Len(file.base) \in Nat
    BY FileParts
<1>2. Failed # Panic /\ Panic \notin Nat /\ Zero # Panic /\ now # Panic
    BY TimesAssumption DEF Failed, Panic, Zero
<1>3. TimeYearDoy(file) # Panic
    BY <1>2, TimesFound
<1>4. TimeRT(file) = Panic => Len(file.base) < 2
    BY <1>2, TimesFound
<1>5. TimeHDK(file) = Panic => Len(file.base) < 3
    BY <1>2, TimesFound
<1>6. func \notin {"none", "now", "year.doy"}
    BY <1>2, <1>3 DEF GetTime
<1>7. CASE func \in {"rt", "year.doy.hour"}
    <2>1. TimeRT(file) = Panic
        BY <1>7 DEF GetTime
    <2> QED
        BY <1>1, <1>4, <2>1
<1>8. CASE func \in {"hadock", "hdk"}
    BY <1>5, <1>8 DEF GetTime
<1> QED
    BY <1>6, <1>7, <1>8 DEF TimeFuncs

(* The Data of a file: its time is that of the section, when there is one, *)
(* else that of its name; what the section has as times is only asked to   *)
(* find the time (ReadFile).                                               *)
LEMMA ReadFileKeeps ==
    ASSUME NEW d \in DataType, NEW file \in FileType, NEW now \in Clock
    PROVE  LET r == ReadFile(d, file, now)
           IN  /\ r \in DataType
               /\ \/ r.params = d.params
                  \/ r.params = Append(d.params, <<"encoding", "gzip">>)
               /\ r.incs = d.incs /\ r.pattern = d.pattern /\ r.func = d.func /\ r.file = file
               /\ d.acq # Zero => r.acq = d.acq
               /\ d.acq = Zero /\ GetTime(d.func, file, now) >= 0 => r.acq = GetTime(d.func, file, now)
               /\ d.func # "now" => \A x \in Clock : ReadFile(d, file, x) = r
               /\ \A a, m, b, l \in Nat, x \in Clock :
                    Timed(ReadFile(Timed(d, a, m), file, x), b, l) = Timed(r, b, l)
<1> DEFINE e == [d EXCEPT !.file = file]
           t == Typed(d.mimes, e, file.ext)
           W(x) == IF t.acq = Zero /\ WhenOf(t, file, x) >= 0
                   THEN Timed(t, WhenOf(t, file, x), WhenOf(t, file, x)) ELSE t
           w == W(now)
           Gz(x) == IF file.ext = ".gz" THEN Register(x, "encoding", "gzip") ELSE x
<1>1. e \in DataType /\ d.mimes \in MimeSet /\ d.func \in TimeFuncs /\ d.acq \in Nat /\ d.mod \in Nat
    BY DEF DataType
<1>2. /\ t \in DataType /\ Same(t, e)
      /\ t.acq = d.acq /\ t.mod = d.mod /\ t.func = d.func /\ t.params = d.params
    <2>2. e.acq = d.acq /\ e.mod = d.mod /\ e.func = d.func /\ e.params = d.params
        BY DEF DataType
    <2> HIDE DEF e
    <2>1. t \in DataType /\ Same(t, e) /\ Timely(t, e) /\ t.params = e.params
        BY <1>1, TypedKeeps
    <2> QED
        BY <2>1, <2>2 DEF Same, Timely
<1>3. \A x \in Clock : /\ WhenOf(t, file, x) = GetTime(d.func, file, x) /\ WhenOf(t, file, x) \in Int
                       /\ d.func # "now" => WhenOf(t, file, x) = WhenOf(t, file, now)
    <2>1. \A x \in Clock : /\ GetTime(d.func, file, x) \in Int
                           /\ d.func # "now" => GetTime(d.func, file, x) = GetTime(d.func, file, now)
        BY <1>1, TimeTypes
    <2> QED
        BY <1>2, <2>1 DEF WhenOf
<1>4. \A x : ReadFile(d, file, x) = Gz(W(x))
    BY DEF ReadFile, Timed
<1>5. ASSUME NEW x \in DataType
      PROVE  /\ Gz(x) \in DataType /\ Same(Gz(x), x) /\ Gz(x).acq = x.acq
             /\ Gz(x).params = x.params \/ Gz(x).params = Append(x.params, <<"encoding", "gzip">>)
             /\ \A b, l \in Nat : Timed(Gz(x), b, l) = Gz(Timed(x, b, l))
    <2>1. "encoding" \in Strings /\ "gzip" \in Values
        BY DEF Strings, Words, Values
    <2>2. LET r == Register(x, "encoding", "gzip")
          IN  /\ r \in DataType /\ Same(r, x) /\ Timely(r, x)
              /\ r.params = Append(x.params, <<"encoding", "gzip">>)
        BY <2>1, RegisterKeeps
    <2>3. Same(Gz(x), x) /\ Gz(x).acq = x.acq
        BY <2>2 DEF Same, Timely
    <2>4. ASSUME NEW b \in Nat, NEW l \in Nat
          PROVE  Timed(Register(x, "encoding", "gzip"), b, l) = Register(Timed(x, b, l), "encoding", "gzip")
        BY DEF Timed, Register, DataType
    <2> QED
        BY <2>2, <2>3, <2>4
<1> HIDE DEF Gz
<1>6. w \in DataType /\ Same(w, e) /\ w.params = d.params
    <2>1. \A a \in Nat : /\ Timed(t, a, a) \in DataType /\ Same(Timed(t, a, a), e)
                         /\ Timed(t, a, a).params = t.params
        BY <1>2, TimedKeeps DEF Same
    <2> QED
        BY <1>2, <1>3, <2>1
<1>7. /\ d.acq # Zero => w.acq = d.acq
      /\ d.acq = Zero /\ GetTime(d.func, file, now) >= 0 => w.acq = GetTime(d.func, file, now)
      /\ d.func # "now" => \A x \in Clock : ReadFile(d, file, x) = ReadFile(d, file, now)
    <2>1. /\ d.acq # Zero => w.acq = d.acq
          /\ d.acq = Zero /\ GetTime(d.func, file, now) >= 0 => w.acq = GetTime(d.func, file, now)
        BY <1>2, <1>3, TimedKeeps
    <2>2. ASSUME d.func # "now", NEW x \in Clock
          PROVE  W(x) = W(now)
        BY <1>3, <2>2
    <2> HIDE DEF W
    <2> QED
        BY <1>4, <2>1, <2>2
<1>8. ASSUME NEW b \in Nat, NEW l \in Nat
      PROVE  Timed(ReadFile(d, file, now), b, l) = Gz(Timed(t, b, l))
    <2>1. \A a \in Nat : Timed(Timed(t, a, a), b, l) = Timed(t, b, l)
        BY <1>2, TimedKeeps
    <2> QED
        BY <1>2, <1>3, <1>4, <1>5, <1>6, <2>1
<1>9. ASSUME NEW a \in Nat, NEW m \in Nat, NEW b \in Nat, NEW l \in Nat, NEW x \in Clock
      PROVE  Timed(ReadFile(Timed(d, a, m), file, x), b, l) = Gz(Timed(t, b, l))
    <2> DEFINE d2 == Timed(d, a, m)
               t2 == Timed(t, a, m)
               w2 == IF t2.acq = Zero /\ WhenOf(t2, file, x) >= 0
                     THEN Timed(t2, WhenOf(t2, file, x), WhenOf(t2, file, x)) ELSE t2
    <2>1. [d2 EXCEPT !.file = file] = Timed(e, a, m) /\ d2.mimes = d.mimes
        BY DEF Timed, DataType
    <2>2. Typed(d.mimes, Timed(e, a, m), file.ext) = t2
        BY <1>1, TypedKeeps
    <2>3. ReadFile(d2, file, x) = Gz(w2)
        <3>1. ReadFile(d2, file, x) =
                LET u == Typed(d2.mimes, [d2 EXCEPT !.file = file], file.ext)
                    v == IF u.acq = Zero /\ WhenOf(u, file, x) >= 0
                         THEN Timed(u, WhenOf(u, file, x), WhenOf(u, file, x)) ELSE u
                IN  Gz(v)
            BY DEF ReadFile, Timed, Gz
        <3> HIDE DEF d2, t2, t, e
        <3> QED
            BY <2>1, <2>2, <3>1
    <2>4. t2 \in DataType /\ WhenOf(t2, file, x) = GetTime(d.func, file, x) /\ WhenOf(t2, file, x) \in Int
        BY <1>2, <1>3, TimedKeeps DEF Same, WhenOf
    <2>5. w2 \in DataType /\ Timed(w2, b, l) = Timed(t, b, l)
        <3>1. Timed(t2, b, l) = Timed(t, b, l)
            BY <1>2, TimedKeeps
        <3>2. \A y \in Nat : Timed(t2, y, y) \in DataType /\ Timed(Timed(t2, y, y), b, l) = Timed(t2, b, l)
            BY <2>4, TimedKeeps
        <3> HIDE DEF t2
        <3> QED
            BY <2>4, <3>1, <3>2
    <2> HIDE DEF w2, d2
    <2>6. Timed(Gz(w2), b, l) = Gz(Timed(w2, b, l))
        BY <1>5, <2>5
    <2> QED
        BY <2>3, <2>5, <2>6 DEF d2
<1> QED
    <2>1. /\ Gz(w) \in DataType /\ Same(Gz(w), w) /\ Gz(w).acq = w.acq
          /\ Gz(w).params = w.params \/ Gz(w).params = Append(w.params, <<"encoding", "gzip">>)
        BY <1>5, <1>6
    <2>2. e.incs = d.incs /\ e.pattern = d.pattern /\ e.func = d.func /\ e.file = file
        BY DEF DataType
    <2> HIDE DEF w, e, t, W
    <2> QED
        BY <1>4, <1>6, <1>7, <1>8, <1>9, <2>1, <2>2 DEF Same, w

(* The tools fill the Data from the file: its increments, its pattern and  *)
(* its file stay (parseFilename, readConsoleNote, collectData).            *)
LEMMA FillKeeps ==
    ASSUME NEW d \in DataType, config.mimes \in MimeSet,
           Tool = "mknef" => \A k \in DOMAIN d.file.rows : d.file.rows[k].when \in Nat
    PROVE  LET r == Fill(Tool, d)
           IN  /\ r \in DataType /\ Same(r, d)
               /\ Tool \in {"mkcsv", "mkmma", "mkrt"} => r = d
               /\ Tool = "mkfile" => r.acq = d.acq
<1>1. d.file \in FileType /\ d.file.made \in Nat /\ d.file.changed \in Nat
    BY FileParts DEF DataType
<1>2. \A a, m \in Nat : Timed(d, a, m) \in DataType /\ Same(Timed(d, a, m), d)
    BY TimedKeeps
<1>3. CASE Tool = "mkfile"
    <2>1. Fill(Tool, d) = Typed(config.mimes, d, d.file.ext)
        BY <1>3 DEF Fill
    <2> QED
        BY <1>3, <2>1, TypedKeeps DEF Timely
<1>4. CASE Tool \in {"mkmov", "mkpdf"}
    <2>1. Fill(Tool, d) = Timed(d, d.file.made, d.file.changed)
        BY <1>4 DEF Fill
    <2> QED
        BY <1>1, <1>2, <1>4, <2>1
<1>5. CASE Tool = "mknef"
    <2>1. Fill(Tool, d) = IF d.file.rows = << >> THEN d
                          ELSE Timed(d, d.file.rows[1].when, d.file.rows[1].when)
        BY <1>5 DEF Fill
    <2>2. d.file.rows # << >> => 1 \in DOMAIN d.file.rows
        BY <1>1, FileParts
    <2> QED
        BY <1>2, <1>5, <2>1, <2>2 DEF Same
<1>6. CASE Tool = "mkhdk"
    <2> DEFINE r == IF d.level = 0 THEN Timed(d, d.file.made, d.file.made) ELSE d
               b == IF d.file.ext = ".bad" THEN Register(r, "invalid", "true") ELSE r
               w == OrZero(TimeHDK(d.file))
    <2>1. Fill(Tool, d) = IF b.acq = Zero THEN Timed(b, w, w) ELSE b
        BY <1>6 DEF Fill, Hadock
    <2>2. r \in DataType /\ Same(r, d)
        BY <1>1, <1>2 DEF Same
    <2>3. b \in DataType /\ Same(b, d)
        <3>1. "invalid" \in Strings /\ "true" \in Values
            BY DEF Strings, Words, Values
        <3>2. Register(r, "invalid", "true") \in DataType /\ Same(Register(r, "invalid", "true"), r)
            BY <2>2, <3>1, RegisterKeeps
        <3> HIDE DEF r
        <3> QED
            BY <2>2, <3>2 DEF Same
    <2>4. w \in Nat
        BY <1>1, TimeTypes DEF OrZero, Zero
    <2> HIDE DEF b, w
    <2>5. Timed(b, w, w) \in DataType /\ Same(Timed(b, w, w), d)
        BY <2>3, <2>4, TimedKeeps DEF Same
    <2> QED
        BY <1>6, <2>1, <2>3, <2>5
<1>7. CASE Tool = "mkicn"
    <2>1. Fill(Tool, d) = Note(d)
        BY <1>7 DEF Fill
    <2>2. NoteTime(d.file) \in Nat
        BY <1>1, TimeTypes
    <2> QED
        BY <1>1, <1>2, <1>7, <2>1, <2>2 DEF Note
<1>8. CASE Tool \notin {"mkfile", "mkmov", "mkpdf", "mknef", "mkhdk", "mkicn"}
    BY <1>8 DEF Fill, Same
<1> QED
    BY <1>3, <1>4, <1>5, <1>6, <1>7, <1>8

(* An image and a table are described by a clone of the Data of their file.*)
Derived(d, row, now) == IF Tool = "mkicn" THEN Table(d, row, now) ELSE Image(d, row)

LEMMA DerivedKeeps ==
    ASSUME NEW d \in DataType, NEW row \in RowType, NEW now \in Clock
    PROVE  LET r == Derived(d, row, now)
           IN  r \in DataType /\ r.incs = d.incs /\ r.pattern = d.pattern
<1>1. CASE Tool = "mkicn"
    <2> DEFINE w == OrZero(row.when)
               m == [NoMime EXCEPT !.main = "text", !.sub = "plain"]
               t == [Timed(d, w, w) EXCEPT !.type = "parameters table", !.mime = m]
               r == Register(t, "science.run", row.upi)
    <2>1. row.file \in FileType /\ w \in Nat
        BY RowParts DEF OrZero, Zero
    <2>2. Timed(d, w, w) \in DataType /\ Same(Timed(d, w, w), d)
        BY <2>1, TimedKeeps
    <2>3. m \in MimeType /\ "parameters table" \in Strings /\ "science.run" \in Strings
        BY DEF NoMime, MimeType, Strings, Words
    <2>4. row.upi \in Values
        BY RowParts DEF Values, Strings
    <2>5. t \in DataType /\ Same(t, d)
        <3> DEFINE e == Timed(d, w, w)
                   y == "parameters table"
        <3> HIDE DEF e, m, y
        <3>1. [e EXCEPT !.type = y, !.mime = m] \in DataType
            BY <2>2, <2>3 DEF DataType, e, y
        <3>2. Same([e EXCEPT !.type = y, !.mime = m], e)
            BY <2>2 DEF DataType, Same, e
        <3> QED
            BY <2>2, <3>1, <3>2 DEF Same, e, y
    <2> HIDE DEF t
    <2>6. r \in DataType /\ Same(r, t)
        BY <2>3, <2>4, <2>5, RegisterKeeps
    <2>7. Derived(d, row, now) = ReadFile(r, row.file, now)
        BY <1>1 DEF Derived, Table, t
    <2> HIDE DEF r
    <2> QED
        BY <2>1, <2>5, <2>6, <2>7, ReadFileKeeps DEF Same
<1>2. CASE Tool # "mkicn"
    <2> DEFINE ty == IF row.raw THEN "data" ELSE "image"
               mn == IF row.raw THEN "application" ELSE "image"
               sb == IF row.raw THEN "octet-stream" ELSE "jpeg"
               lv == IF row.raw THEN 0 ELSE 1
    <2>1. ty \in Strings /\ mn \in Strings /\ sb \in Strings /\ lv \in Int
        BY DEF Strings, Words
    <2>2. Derived(d, row, now) = [d EXCEPT !.type = ty, !.mime = [d.mime EXCEPT !.main = mn, !.sub = sb], !.level = lv]
        BY <1>2 DEF Derived, Image, DataType, MimeType
    <2> HIDE DEF ty, mn, sb, lv
    <2>3. [d.mime EXCEPT !.main = mn, !.sub = sb] \in MimeType
        BY <2>1 DEF DataType, MimeType
    <2> QED
        BY <2>1, <2>2, <2>3 DEF DataType
<1> QED
    BY <1>1, <1>2

(* Store adds the increments, and nothing else (update).                   *)
Falls(t) == {i.num : i \in {j \in context.incs : Within(j, t)}}

LEMMA UpdateKeeps ==
    ASSUME NEW d \in DataType, context \in Context
    PROVE  LET u == update(d)
           IN  /\ u \in DataType
               /\ u.pattern = d.pattern /\ u.file = d.file /\ u.params = d.params
               /\ u.type = d.type /\ Timely(u, d)
               /\ u.incs = IF d.acq = Zero \/ d.incs # {} THEN d.incs ELSE Falls(d.acq)
<1>1. Falls(d.acq) \subseteq STRING
    BY DEF Falls, Context, Increment
<1>2. update(d) = IF d.acq = Zero \/ d.incs # {} THEN d ELSE [d EXCEPT !.incs = Falls(d.acq)]
    BY DEF update, Falls
<1>3. LET u == [d EXCEPT !.incs = Falls(d.acq)]
      IN  /\ u \in DataType
          /\ u.pattern = d.pattern /\ u.file = d.file /\ u.params = d.params
          /\ u.type = d.type /\ Timely(u, d) /\ u.incs = Falls(d.acq)
    BY <1>1 DEF DataType, Timely
<1> QED
    BY <1>2, <1>3 DEF Timely

(* The Data of the closure, of a section that is configured as c.          *)
Base(c) == Update(c)

LEMMA BaseKeeps ==
    ASSUME NEW c \in DataWith(Parameter), context \in Context
    PROVE  /\ Base(c) \in DataType
           /\ Base(c).pattern = c.pattern /\ Base(c).func = c.func
           /\ Base(c).acq = c.acq /\ Base(c).params \in Seq(Parameter)
           /\ Base(c).incs = IF c.acq = Zero \/ c.incs # {} THEN c.incs ELSE Falls(c.acq)
<1> DEFINE y == Or(c.model, context.model)
           z == Or(c.source, context.source)
           p == c.params \o context.metadata
           e == [c EXCEPT !.model = y, !.source = z, !.params = p]
<1>1. y \in STRING /\ z \in STRING
    BY DEF Or, DataWith, Context
<1>2. p \in Seq(Parameter)
    BY DEF DataWith, Context
<1>3. Base(c) = update(e)
    BY DEF Base, Update
<1> HIDE DEF y, z, p
<1>4. e \in DataWith(Parameter)
    BY <1>1, <1>2 DEF DataWith
<1>5. Same(e, c) /\ Timely(e, c) /\ e.params \in Seq(Parameter)
    BY <1>2 DEF DataWith, Same, Timely
<1>6. e \in DataType
    BY <1>4, ConfiguredTyped
<1> HIDE DEF e
<1>7. update(e).func = e.func
    BY <1>6 DEF update, DataType
<1> QED
    BY <1>3, <1>5, <1>6, <1>7, UpdateKeeps DEF Same, Timely
----------------------------------------------------------------------------
(* What is said of a file in a section configured as c: when the tool has  *)
(* filled the clone, when k rows were counted, and when it is stored.  The *)
(* clock may be read when the file is, and at its first and its last row.  *)
Counting == Tool \in {"mkcsv", "mkmma", "mkrt"}
Readings == [{1, 2, 3} -> Clock]

New(c, file, now) == Fill(Tool, ReadFile(Base(c), file, now))

TimeOfRow(d, row, now) == IF Tool = "mkrt" /\ ~ Known(d) THEN now ELSE row.when
Upto(c, file, k, w) ==
    LET d == New(c, file, w[1])
    IN  IF k = 0 THEN d
        ELSE Timed(d, TimeOfRow(d, file.rows[1], w[2]), TimeOfRow(d, file.rows[k], w[3]))

Upis(file, k) == {file.rows[l].upi : l \in 1 .. k}
TallyUpto(file, k) ==
    [u \in Upis(file, k) |-> Cardinality({l \in 1 .. k : file.rows[l].upi = u})]

Fine(file, k) == k \in 0 .. Len(file.rows) /\ \A l \in 1 .. k : file.rows[l].is = "row"
EndsAt(file, k) ==
    k < Len(file.rows) => file.rows[k + 1].is = IF Tool = "mkrt" THEN "odd" ELSE "cut"

Marked(d, file, k) ==
    IF k < Len(file.rows) /\ file.rows[k + 1].is = "odd" THEN Register(d, "invalid", "true") ELSE d

SummaryOf(tool, e, tally, d, k) ==
    \/ /\ tool # "mkmma"
       /\ \E x \in FormatDurationISO(Sub(e.mod, e.acq)) : d = Summary(e, x, k)
    \/ /\ tool = "mkmma"
       /\ \E x \in FormatDurationISO(k * Between) : \E order \in SetToSeqs(DOMAIN tally) :
            d = [Summary(e, x, k) EXCEPT !.params = @ \o RunParams(order, tally)]

Summarized(c, file, d, k, w) ==
    SummaryOf(Tool, Marked(Upto(c, file, k, w), file, k), TallyUpto(file, k), d, k)

FilledAt(c, file, d, w) ==
    IF Counting
    THEN \E k \in Nat : /\ Fine(file, k) /\ EndsAt(file, k) /\ (Tool = "mkrt" \/ k > 0)
                        /\ Summarized(c, file, d, k, w)
    ELSE IF Tool = "mknef"
    THEN \E a, m \in Nat : /\ d = Timed(ReadFile(Base(c), file, w[1]), a, m)
                           /\ file.rows # << >> => a = file.rows[1].when /\ m = a
    ELSE d = New(c, file, w[1])
Filled(c, file, d) == \E w \in Readings : FilledAt(c, file, d, w)

IsDocument(x) ==
    /\ x.s \in DOMAIN Sections /\ x.f \in DOMAIN Sections[x.s].files
    /\ x.row # 0 => ~ Counting /\ Tool # "mkfile" /\ x.row \in DOMAIN FileOf(x).rows
    /\ x.place = Resolve(x.data.pattern, x.data)
    /\ \E d \in DataType, now \in Clock :
         /\ Filled(Configured(x), FileOf(x), d)
         /\ x.data = update(IF x.row = 0 THEN d ELSE Derived(d, FileOf(x).rows[x.row], now))

(* The inductive invariant.  In the section lies nothing but what was      *)
(* configured, except for the times of mknef; in the Data at hand, what    *)
(* the file and its rows up to here give; in each document, what its own   *)
(* section and its own file give.                                          *)
Held ==
    IF Tool = "mknef" THEN \E a, m \in Nat : section = Timed(Base(Sections[s].data), a, m)
    ELSE section = Base(Sections[s].data)

AtRows ==
    LET c == Sections[s].data
    IN  /\ Counting /\ count = n - 1 /\ Fine(File, count)
        /\ \E w \in Readings : dat = Upto(c, File, count, w)
        /\ runs = TallyUpto(File, count)

AtStore == dat \in DataType /\ Filled(Sections[s].data, File, dat)

IInv ==
    /\ config \in Configs
    /\ s \in Nat \ {0} /\ f \in Nat \ {0} /\ n \in Nat \ {0}
    /\ pc \in {"load", "section", "file", "rows", "tables", "store", "images",
               "done", "panic", "refused"}
    /\ pc = "load" => docs = {}
    /\ pc # "load" => context = Included(config)
    /\ pc \in {"file", "rows", "tables", "store", "images"} => s \in DOMAIN Sections /\ Held
    /\ pc \in {"rows", "tables", "store", "images"} => f \in DOMAIN Files
    /\ pc = "tables" => Tool = "mkicn"
    /\ pc = "images" => Tool = "mknef"
    /\ pc = "rows" => AtRows
    /\ pc \in {"tables", "store", "images"} => AtStore
    /\ \A x \in docs : IsDocument(x)
    /\ Stops
----------------------------------------------------------------------------
(* What is assumed of the configuration at hand.                           *)
LEMMA ConfigParts ==
    ASSUME config \in Configs
    PROVE  /\ Included(config) \in Context /\ config.mimes \in MimeSet
           /\ Tool \in {"mkfile", "mkmov", "mknef", "mkpdf", "mkcsv", "mkmma", "mkicn", "mkrt", "mkhdk"}
           /\ \A k \in DOMAIN Sections :
                /\ Sections[k].data \in DataWith(Parameter)
                /\ \A g \in DOMAIN Sections[k].files : Sections[k].files[g] \in FileType
                /\ Tool # "mkicn" => \A g \in DOMAIN Sections[k].files :
                     \A l \in DOMAIN Sections[k].files[g].rows :
                       Sections[k].files[g].rows[l].when \in Nat
<1>1. /\ Included(config) \in Context /\ config.mimes \in MimeSet
      /\ Tool \in {"mkfile", "mkmov", "mknef", "mkpdf", "mkcsv", "mkmma", "mkicn", "mkrt", "mkhdk"}
      /\ Sections \in Seq([data : DataWith(Parameter), files : Seq(FileType)])
    BY SectionsAssumption DEF Tool, Sections
<1>2. ASSUME NEW k \in DOMAIN Sections
      PROVE  /\ Sections[k].data \in DataWith(Parameter)
             /\ Sections[k].files \in Seq(FileType)
    <2> DEFINE R == [data : DataWith(Parameter), files : Seq(FileType)]
    <2>1. Sections \in Seq(R)
        BY <1>1
    <2> HIDE DEF R
    <2>2. Sections[k] \in R
        BY <2>1
    <2> QED
        BY <2>2 DEF R
<1>3. ASSUME Tool # "mkicn", NEW k \in DOMAIN Sections, NEW g \in DOMAIN Sections[k].files,
             NEW l \in DOMAIN Sections[k].files[g].rows
      PROVE  Sections[k].files[g].rows[l].when \in Nat
    <2> DEFINE file == Sections[k].files[g]
    <2>1. \A row \in ToSet(file.rows) : row.when \in Nat
        BY <1>3, SectionsAssumption DEF Tool, Sections
    <2>2. file.rows[l] \in ToSet(file.rows)
        BY DEF ToSet
    <2> QED
        BY <2>1, <2>2
<1> QED
    BY <1>1, <1>2, <1>3

(* A time has one text, but a negative one may have any of several.        *)
LEMMA DurationTypes ==
    ASSUME NEW t \in Int
    PROVE  /\ FormatDurationISO(t) \subseteq Durations
           /\ FormatDurationISO(t) # {}
           /\ t >= 0 => \E x : FormatDurationISO(t) = {x}
<1>1. ASSUME NEW sec \in Nat, NEW exact \in BOOLEAN
      PROVE  Text(sec, exact) \in Durations
    BY DEF Text, Durations
<1>2. Seconds(t) \subseteq Nat /\ Seconds(t) # {} /\ (t >= 0 => Seconds(t) = {t \div 2})
    <2>1. (Wrap - (- t) \div 2) % Wrap \in Nat
        BY TimesAssumption
    <2> QED
        BY <2>1 DEF Seconds, Second
<1>3. CASE t = 0
    BY <1>1, <1>3 DEF FormatDurationISO
<1>4. CASE t # 0
    <2>1. FormatDurationISO(t) = {Text(sec, FALSE) : sec \in Seconds(t)}
        BY <1>4 DEF FormatDurationISO
    <2>2. FormatDurationISO(t) \subseteq Durations
        BY <1>1, <1>2, <2>1
    <2>3. FormatDurationISO(t) # {}
        BY <1>2, <2>1
    <2>4. t >= 0 => FormatDurationISO(t) = {Text(t \div 2, FALSE)}
        BY <1>2, <2>1
    <2> QED
        BY <2>2, <2>3, <2>4
<1> QED
    BY <1>3, <1>4

Ready(c, file) ==
    /\ context \in Context /\ config.mimes \in MimeSet
    /\ c \in DataWith(Parameter) /\ file \in FileType
    /\ Tool # "mkicn" => \A l \in DOMAIN file.rows : file.rows[l].when \in Nat

Own(d, c, file) ==
    d \in DataType /\ d.incs = Base(c).incs /\ d.pattern = c.pattern /\ d.func = c.func /\ d.file = file

(* A Data that is filled keeps its section and file, and is typed.         *)
LEMMA NewKeeps ==
    ASSUME NEW c, NEW file, Ready(c, file), NEW now \in Clock
    PROVE  /\ Own(ReadFile(Base(c), file, now), c, file) /\ Own(New(c, file, now), c, file)
           /\ Counting => New(c, file, now) = ReadFile(Base(c), file, now)
           /\ Tool = "mkfile" => New(c, file, now).acq = ReadFile(Base(c), file, now).acq
<1> DEFINE r == ReadFile(Base(c), file, now)
<1>1. Own(r, c, file)
    BY BaseKeeps, ReadFileKeeps DEF Ready, Own
<1> HIDE DEF r
<1>2. Tool = "mknef" => \A k \in DOMAIN r.file.rows : r.file.rows[k].when \in Nat
    BY <1>1 DEF Own, Ready
<1>3. r \in DataType /\ config.mimes \in MimeSet
    BY <1>1 DEF Own, Ready
<1> QED
    BY <1>1, <1>2, <1>3, FillKeeps DEF Own, New, Same, Counting, r

LEMMA NewPlain ==
    ASSUME NEW c, NEW file, Ready(c, file), Counting, NEW now \in Clock
    PROVE  New(c, file, now).params \in Seq(Pairs)
<1> DEFINE b == Base(c)
<1>1. b \in DataType /\ b.params \in Seq(Parameter) /\ file \in FileType
    BY BaseKeeps DEF Ready
<1>2. Parameter \subseteq Pairs /\ <<"encoding", "gzip">> \in Pairs
    BY DEF Parameter, Pairs, Values, Strings, Words
<1>3. b.params \in Seq(Pairs)
    BY <1>1, <1>2
<1>4. Append(b.params, <<"encoding", "gzip">>) \in Seq(Pairs)
    BY <1>2, <1>3
<1>5. \/ New(c, file, now).params = b.params
      \/ New(c, file, now).params = Append(b.params, <<"encoding", "gzip">>)
    BY <1>1, NewKeeps, ReadFileKeeps
<1> QED
    BY <1>3, <1>4, <1>5

LEMMA UptoKeeps ==
    ASSUME NEW c, NEW file, Ready(c, file), NEW k, Fine(file, k), Counting, NEW w \in Readings
    PROVE  /\ Own(Upto(c, file, k, w), c, file)
           /\ Upto(c, file, k, w).type = New(c, file, w[1]).type
           /\ Upto(c, file, k, w).params = New(c, file, w[1]).params
           /\ \A a, m \in Nat : Timed(Upto(c, file, k, w), a, m) = Timed(New(c, file, w[1]), a, m)
           /\ k > 0 => /\ Upto(c, file, k, w).acq = TimeOfRow(New(c, file, w[1]), file.rows[1], w[2])
                       /\ Upto(c, file, k, w).mod = TimeOfRow(New(c, file, w[1]), file.rows[k], w[3])
<1> DEFINE d == New(c, file, w[1])
<1>0. w[1] \in Clock /\ w[2] \in Clock /\ w[3] \in Clock
    BY DEF Readings
<1>1. Own(d, c, file)
    BY <1>0, NewKeeps
<1>2. file.rows \in Seq(RowType) /\ k \in Nat /\ (k > 0 => k \in DOMAIN file.rows /\ 1 \in DOMAIN file.rows)
    BY FileParts DEF Ready, Fine
<1>3. \A l \in DOMAIN file.rows, now \in Clock : TimeOfRow(d, file.rows[l], now) \in Nat
    BY TimesAssumption DEF TimeOfRow, Ready, Counting
<1> HIDE DEF d
<1>4. CASE k = 0
    BY <1>1, <1>4 DEF Upto, d
<1>5. CASE k > 0
    <2>1. Upto(c, file, k, w) = Timed(d, TimeOfRow(d, file.rows[1], w[2]), TimeOfRow(d, file.rows[k], w[3]))
        BY <1>5, <1>2 DEF Upto, d
    <2> DEFINE a == TimeOfRow(d, file.rows[1], w[2])
               m == TimeOfRow(d, file.rows[k], w[3])
               t == Timed(d, a, m)
    <2>2. a \in Nat /\ m \in Nat
        BY <1>0, <1>2, <1>3, <1>5
    <2>3. d \in DataType
        BY <1>1 DEF Own
    <2> HIDE DEF a, m
    <2>4. /\ t \in DataType /\ t.acq = a /\ t.mod = m
          /\ Same(t, d) /\ t.type = d.type /\ t.params = d.params
          /\ \A b, l \in Nat : Timed(t, b, l) = Timed(d, b, l)
        BY <2>2, <2>3, TimedKeeps
    <2> HIDE DEF t
    <2>5. Own(t, c, file)
        BY <1>1, <2>4 DEF Own, Same
    <2>6. Upto(c, file, k, w) = t
        BY <2>1 DEF t, a, m
    <2> QED
        BY <1>5, <2>4, <2>5, <2>6 DEF d, a, m
<1> QED
    BY <1>2, <1>4, <1>5

LEMMA MarkedKeeps ==
    ASSUME NEW d \in DataType, NEW file, NEW k
    PROVE  LET e == Marked(d, file, k)
           IN  /\ e \in DataType /\ Same(e, d) /\ Timely(e, d) /\ e.type = d.type
               /\ \/ e.params = d.params
                  \/ e.params = Append(d.params, <<"invalid", "true">>)
<1>1. "invalid" \in Strings /\ "true" \in Values
    BY DEF Strings, Words, Values
<1> QED
    BY <1>1, RegisterKeeps DEF Marked, Same, Timely

(* The end of a count adds its parameters and nothing else.                *)
LEMMA SummaryKeeps ==
    ASSUME NEW d \in DataType, NEW x \in Durations, NEW k \in Nat
    PROVE  LET e == Summary(d, x, k)
           IN  /\ e \in DataType /\ Same(e, d) /\ Timely(e, d) /\ e.type = d.type
               /\ e.params = Append(Append(d.params, <<"duration", x>>), <<"numrec", k>>)
<1> DEFINE r == Register(d, "duration", x)
<1>1. "duration" \in Strings /\ "numrec" \in Strings /\ x \in Values /\ k \in Values
    BY DEF Strings, Words, Values
<1>2. r \in DataType /\ Same(r, d) /\ Timely(r, d) /\ r.type = d.type
      /\ r.params = Append(d.params, <<"duration", x>>)
    BY <1>1, RegisterKeeps
<1> HIDE DEF r
<1>3. LET e == Register(r, "numrec", k)
      IN  /\ e \in DataType /\ Same(e, r) /\ Timely(e, r) /\ e.type = r.type
          /\ e.params = Append(r.params, <<"numrec", k>>)
    BY <1>1, <1>2, RegisterKeeps
<1> QED
    BY <1>2, <1>3 DEF Summary, Same, Timely, r

(* The parameters of the runs: three for each, in the order of the runs.   *)
LEMMA TallyKeeps ==
    ASSUME NEW file \in FileType, NEW k, Fine(file, k)
    PROVE  LET tally == TallyUpto(file, k)
           IN  /\ IsFiniteSet(DOMAIN tally) /\ DOMAIN tally = Upis(file, k)
               /\ DOMAIN tally \subseteq STRING
               /\ \A u \in DOMAIN tally : tally[u] \in Nat
               /\ \A order \in SetToSeqs(DOMAIN tally) :
                    /\ order \in Seq(DOMAIN tally)
                    /\ {order[l] : l \in 1 .. Len(order)} = DOMAIN tally
<1> DEFINE tally == TallyUpto(file, k)
<1>1. k \in Nat /\ \A l \in 1 .. k : l \in DOMAIN file.rows /\ file.rows[l] \in RowType
    BY FileParts DEF Fine
<1>2. Upis(file, k) \subseteq STRING
    BY <1>1, RowParts DEF Upis
<1>3. DOMAIN tally = Upis(file, k)
    BY DEF TallyUpto
<1>4. IsFiniteSet(1 .. k)
    BY <1>1, FS_Interval
<1>5. IsFiniteSet(Upis(file, k))
    <2> DEFINE g == [l \in 1 .. k |-> file.rows[l].upi]
    <2>1. g \in Surjection(1 .. k, Upis(file, k))
        BY DEF Surjection, Upis
    <2> QED
        BY <1>4, <2>1, FS_Surjection
<1>6. ASSUME NEW u \in DOMAIN tally
      PROVE  tally[u] \in Nat
    <2>1. IsFiniteSet({l \in 1 .. k : file.rows[l].upi = u})
        BY <1>4, FS_Subset
    <2> QED
        BY <1>6, <2>1, FS_CardinalityType DEF TallyUpto
<1>7. ASSUME NEW order \in SetToSeqs(DOMAIN tally)
      PROVE  /\ order \in Seq(DOMAIN tally)
             /\ {order[l] : l \in 1 .. Len(order)} = DOMAIN tally
    <2> DEFINE S == DOMAIN tally
               c == Cardinality(S)
    <2>1. c \in Nat /\ IsFiniteSet(S)
        BY <1>3, <1>5, FS_CardinalityType
    <2>2. order \in [1 .. c -> S] /\ \A i, j \in 1 .. c : i # j => order[i] # order[j]
        BY DEF SetToSeqs
    <2> HIDE DEF S, c
    <2>3. order \in Injection(1 .. c, S)
        BY <2>2 DEF Injection, IsInjective
    <2>4. IsFiniteSet(1 .. c) /\ Cardinality(1 .. c) = c
        BY <2>1, FS_Interval
    <2>5. order \in Surjection(1 .. c, S)
        BY <2>1, <2>3, <2>4, FS_Injection DEF c
    <2>6. order \in Seq(S) /\ Len(order) = c
        BY <2>1, <2>2
    <2> QED
        BY <2>5, <2>6 DEF Surjection, S
<1> QED
    BY <1>2, <1>3, <1>5, <1>6, <1>7

RunsGiven(p, order, tally) ==
    /\ p \in Seq(Params) /\ Len(p) = 3 * Len(order)
    /\ \A l \in 1 .. Len(order) :
         /\ p[3 * l - 2] = <<"run", l, order[l]>>
         /\ p[3 * l - 1] = <<"run.numrec", l, tally[order[l]]>>
         /\ \E x \in FormatDurationISO(tally[order[l]] * Between) :
              p[3 * l] = <<"run.duration", l, x>>
    /\ \A j \in 1 .. Len(p) :
         /\ p[j][1] \notin {"numrec", "duration", "invalid"}
         /\ p[j][1] = "run" => \E l \in 1 .. Len(order) : j = 3 * l - 2

LEMMA RunParamsAre ==
    ASSUME NEW S \in SUBSET STRING, NEW order \in Seq(S), NEW tally, \A u \in S : tally[u] \in Nat
    PROVE  RunsGiven(RunParams(order, tally), order, tally)
<1> DEFINE p == RunParams(order, tally)
           len == Len(order)
           dur(u) == CHOOSE x \in FormatDurationISO(tally[u] * Between) : TRUE
           at(j) == LET l == (j + 2) \div 3
                    IN  IF j % 3 = 1 THEN <<"run", l, order[l]>>
                        ELSE IF j % 3 = 2 THEN <<"run.numrec", l, tally[order[l]]>>
                        ELSE <<"run.duration", l, dur(order[l])>>
<1>1. len \in Nat /\ \A l \in 1 .. len : order[l] \in S
    OBVIOUS
<1>2. p = [j \in 1 .. 3 * len |-> at(j)]
    BY DEF RunParams
<1>3. \A j \in 1 .. 3 * len : (j + 2) \div 3 \in 1 .. len
    BY <1>1
<1>4. \A u \in S : /\ dur(u) \in FormatDurationISO(tally[u] * Between)
                   /\ dur(u) \in Durations
    <2>1. ASSUME NEW u \in S
          PROVE  tally[u] * Between \in Int
        BY SectionsAssumption
    <2> QED
        BY <2>1, DurationTypes
<1> HIDE DEF dur
<1>5. ASSUME NEW j \in 1 .. 3 * len
      PROVE  at(j) \in Params
    <2> DEFINE l == (j + 2) \div 3
    <2>1. l \in Nat /\ order[l] \in S
        BY <1>1, <1>3
    <2> HIDE DEF l
    <2>2. "run" \in Strings /\ "run.numrec" \in Strings /\ "run.duration" \in Strings
        BY DEF Strings, Words
    <2>3. /\ order[l] \in Values /\ tally[order[l]] \in Values /\ dur(order[l]) \in Values
        BY <1>4, <2>1 DEF Values, Strings
    <2>4. /\ <<"run", l, order[l]>> \in Params
          /\ <<"run.numrec", l, tally[order[l]]>> \in Params
          /\ <<"run.duration", l, dur(order[l])>> \in Params
        BY <2>1, <2>2, <2>3 DEF Params
    <2> QED
        BY <2>4 DEF l
<1>6. p \in Seq(Params) /\ Len(p) = 3 * len
    <2>1. 3 * len \in Nat
        BY <1>1
    <2> HIDE DEF p, at
    <2> QED
        BY <1>2, <1>5, <2>1
<1>7. ASSUME NEW l \in 1 .. len
      PROVE  /\ p[3 * l - 2] = <<"run", l, order[l]>>
             /\ p[3 * l - 1] = <<"run.numrec", l, tally[order[l]]>>
             /\ p[3 * l] = <<"run.duration", l, dur(order[l])>>
    <2>1. /\ 3 * l - 2 \in 1 .. 3 * len /\ 3 * l - 1 \in 1 .. 3 * len /\ 3 * l \in 1 .. 3 * len
          /\ (3 * l - 2) % 3 = 1 /\ (3 * l - 1) % 3 = 2 /\ (3 * l) % 3 = 0
          /\ (3 * l - 2 + 2) \div 3 = l /\ (3 * l - 1 + 2) \div 3 = l /\ (3 * l + 2) \div 3 = l
        BY <1>1
    <2>2. /\ at(3 * l - 2) = <<"run", l, order[l]>>
          /\ at(3 * l - 1) = <<"run.numrec", l, tally[order[l]]>>
          /\ at(3 * l) = <<"run.duration", l, dur(order[l])>>
        BY <2>1
    <2> HIDE DEF p, at
    <2> QED
        BY <1>2, <2>1, <2>2
<1>8. ASSUME NEW j \in 1 .. 3 * len
      PROVE  /\ p[j][1] \notin {"numrec", "duration", "invalid"}
             /\ p[j][1] = "run" => \E l \in 1 .. len : j = 3 * l - 2
    <2> DEFINE l == (j + 2) \div 3
    <2>1. p[j] = at(j)
        BY <1>2
    <2>2. CASE j % 3 = 1
        <3>1. l \in 1 .. len /\ j = 3 * l - 2
            BY <1>1, <2>2
        <3>2. at(j) = <<"run", l, order[l]>>
            BY <2>2
        <3> QED
            BY <2>1, <3>1, <3>2
    <2>3. CASE j % 3 # 1
        <3>1. at(j)[1] \in {"run.numrec", "run.duration"}
            BY <2>3
        <3> QED
            BY <2>1, <3>1
    <2> QED
        BY <2>2, <2>3
<1> HIDE DEF p, at
<1> QED
    BY <1>1, <1>4, <1>6, <1>7, <1>8 DEF p, RunsGiven


(* The parameters of a table: those of the file, then the duration and the *)
(* number of records, then those of the runs.                              *)
Tabled(d, file, k) ==
    \E base \in Seq(Pairs), tail \in Seq(Params) : \E x \in Durations :
        /\ k < Len(file.rows) /\ file.rows[k + 1].is = "odd" =>
             base # << >> /\ base[Len(base)] = <<"invalid", "true">>
        /\ x \in FormatDurationISO(IF Tool = "mkmma" THEN k * Between ELSE Sub(d.mod, d.acq))
        /\ d.params = Append(Append(base, <<"duration", x>>), <<"numrec", k>>) \o tail
        /\ Tool # "mkmma" => tail = << >>
        /\ Tool = "mkmma" => \E order \in SetToSeqs(DOMAIN TallyUpto(file, k)) :
                               tail = RunParams(order, TallyUpto(file, k))

LEMMA SummarizedKeeps ==
    ASSUME NEW c, NEW file, Ready(c, file), Counting, NEW k, Fine(file, k),
           NEW d, NEW w \in Readings, Summarized(c, file, d, k, w)
    PROVE  /\ Own(d, c, file) /\ Timely(d, Upto(c, file, k, w)) /\ d.type = Upto(c, file, k, w).type
           /\ Tabled(d, file, k)
<1> DEFINE u == Upto(c, file, k, w)
           e == Marked(u, file, k)
           tally == TallyUpto(file, k)
           base == e.params
           t == IF Tool = "mkmma" THEN k * Between ELSE Sub(e.mod, e.acq)
<1>1. Own(u, c, file)
    BY UptoKeeps
<1>2. /\ e \in DataType /\ Same(e, u) /\ Timely(e, u) /\ e.type = u.type
      /\ base \in Seq(Pairs)
    <2>1. u \in DataType
        BY <1>1 DEF Own
    <2>2. u.params \in Seq(Pairs)
        <3>1. w[1] \in Clock
            BY DEF Readings
        <3> QED
            BY <3>1, UptoKeeps, NewPlain
    <2> HIDE DEF u
    <2>3. /\ e \in DataType /\ Same(e, u) /\ Timely(e, u) /\ e.type = u.type
          /\ base = u.params \/ base = Append(u.params, <<"invalid", "true">>)
        BY <2>1, MarkedKeeps
    <2>4. <<"invalid", "true">> \in Pairs
        BY DEF Pairs, Values, Strings, Words
    <2>5. Append(u.params, <<"invalid", "true">>) \in Seq(Pairs)
        BY <2>2, <2>4
    <2> HIDE DEF e
    <2> QED
        BY <2>2, <2>3, <2>5
<1>3. k < Len(file.rows) /\ file.rows[k + 1].is = "odd" =>
        base # << >> /\ base[Len(base)] = <<"invalid", "true">>
    <2> SUFFICES ASSUME k < Len(file.rows) /\ file.rows[k + 1].is = "odd"
                 PROVE  base # << >> /\ base[Len(base)] = <<"invalid", "true">>
        OBVIOUS
    <2> HIDE DEF u
    <2>0. u \in DataType
        BY <1>1 DEF Own, u
    <2>1. e = Register(u, "invalid", "true")
        BY DEF Marked
    <2>2. base = Append(u.params, <<"invalid", "true">>)
        BY <2>0, <2>1 DEF Register, DataType
    <2>3. u.params \in Seq(Params)
        BY <2>0 DEF DataType
    <2> HIDE DEF e
    <2> QED
        BY <2>2, <2>3
<1>4. k \in Nat /\ file \in FileType
    BY FileParts DEF Fine, Ready
<1>5. t \in Int
    <2>1. e.acq \in Nat /\ e.mod \in Nat
        BY <1>2 DEF DataType
    <2> QED
        BY <1>4, <2>1, SectionsAssumption, TimesAssumption DEF Sub, Zero
<1>6. FormatDurationISO(t) \subseteq Durations
    BY <1>5, DurationTypes
<1>7. PICK x \in FormatDurationISO(t) :
        \/ Tool # "mkmma" /\ d = Summary(e, x, k)
        \/ /\ Tool = "mkmma"
           /\ \E order \in SetToSeqs(DOMAIN tally) :
                d = [Summary(e, x, k) EXCEPT !.params = @ \o RunParams(order, tally)]
    <2> HIDE DEF e, tally
    <2> QED
        BY Zenon DEF Summarized, SummaryOf, e, tally, u
<1> DEFINE m == Summary(e, x, k)
<1> HIDE DEF e, t, u
<1>8. /\ m \in DataType /\ Same(m, e) /\ Timely(m, e) /\ m.type = e.type
      /\ m.params = Append(Append(base, <<"duration", x>>), <<"numrec", k>>)
      /\ x \in Durations /\ m.params \in Seq(Params)
    <2>1. x \in Durations
        BY <1>6, <1>7
    <2>2. /\ m \in DataType /\ Same(m, e) /\ Timely(m, e) /\ m.type = e.type
          /\ m.params = Append(Append(base, <<"duration", x>>), <<"numrec", k>>)
        BY <1>2, <1>4, <2>1, SummaryKeeps
    <2> QED
        BY <2>1, <2>2 DEF DataType
<1> HIDE DEF m
<1>9. \E tail \in Seq(Params) :
        /\ d \in DataType /\ Same(d, m) /\ Timely(d, m) /\ d.type = m.type
        /\ d.params = m.params \o tail
        /\ Tool # "mkmma" => tail = << >>
        /\ Tool = "mkmma" => \E order \in SetToSeqs(DOMAIN tally) : tail = RunParams(order, tally)
    <2>1. CASE Tool # "mkmma"
        <3>1. d = m
            BY <1>7, <2>1 DEF m
        <3>2. << >> \in Seq(Params) /\ m.params \o << >> = m.params
            BY <1>8
        <3> QED
            BY <1>8, <2>1, <3>1, <3>2 DEF Same, Timely
    <2>2. CASE Tool = "mkmma"
        <3>1. PICK order \in SetToSeqs(DOMAIN tally) : d = [m EXCEPT !.params = @ \o RunParams(order, tally)]
            BY <1>7, <2>2 DEF m
        <3> DEFINE p == RunParams(order, tally)
        <3>2. p \in Seq(Params)
            <4>1. /\ DOMAIN tally \in SUBSET STRING /\ \A v \in DOMAIN tally : tally[v] \in Nat
                  /\ order \in Seq(DOMAIN tally)
                BY <1>4, TallyKeeps
            <4> HIDE DEF tally
            <4> QED
                BY <4>1, RunParamsAre DEF RunsGiven
        <3> HIDE DEF p
        <3>3. d = [m EXCEPT !.params = m.params \o p] /\ m.params \o p \in Seq(Params)
            BY <1>8, <3>1, <3>2 DEF p, DataType
        <3>4. d \in DataType /\ Same(d, m) /\ Timely(d, m) /\ d.type = m.type /\ d.params = m.params \o p
            BY <1>8, <3>3 DEF DataType, Same, Timely
        <3> QED
            BY <2>2, <3>2, <3>4 DEF p
    <2> QED
        BY <2>1, <2>2
<1>10. Same(d, u) /\ Timely(d, u) /\ d.type = u.type
    BY <1>2, <1>8, <1>9 DEF Same, Timely
<1>11. Own(d, c, file)
    BY <1>1, <1>9, <1>10 DEF Own, Same, u
<1>12. t = IF Tool = "mkmma" THEN k * Between ELSE Sub(d.mod, d.acq)
    BY <1>2, <1>10 DEF Timely, t
<1> QED
    BY <1>2, <1>3, <1>7, <1>8, <1>9, <1>10, <1>11, <1>12 DEF u, Tabled

(* However a tool fills it, a Data is of its own file and section.         *)
LEMMA FilledKeeps ==
    ASSUME NEW c, NEW file, Ready(c, file), NEW d, Filled(c, file, d)
    PROVE  Own(d, c, file)
<1>0. PICK w \in Readings : FilledAt(c, file, d, w)
    BY DEF Filled
<1>4. w[1] \in Clock
    BY DEF Readings
<1>1. CASE Counting
    BY <1>0, <1>1, SummarizedKeeps DEF FilledAt
<1>2. CASE ~ Counting /\ Tool = "mknef"
    <2>1. PICK a, m \in Nat : d = Timed(ReadFile(Base(c), file, w[1]), a, m)
        BY <1>0, <1>2 DEF FilledAt
    <2> QED
        BY <1>4, <2>1, NewKeeps, TimedKeeps DEF Own, Same
<1>3. CASE ~ Counting /\ Tool # "mknef"
    BY <1>0, <1>3, <1>4, NewKeeps DEF FilledAt
<1> QED
    BY <1>1, <1>2, <1>3
----------------------------------------------------------------------------
(* What parsing makes of a pattern.                                        *)
Bad(seg, k) ==
    \/ seg[k].is \in {"open", "nothing", "numeral"}
    \/ k > 1 /\ seg[k].size = seg[k - 1].size /\ seg[k - 1].is = "text"

LEMMA ParseSays ==
    ASSUME NEW pattern \in Pattern
    PROVE  /\ Parse(pattern) \in {"fine", "panic", "refused"}
           /\ Parse(pattern) = "panic" =>
                \E j \in DOMAIN pattern : \E k \in DOMAIN pattern[j] : pattern[j][k].is = "nothing"
           /\ Parse(pattern) = "refused" =>
                \E j \in DOMAIN pattern : \E k \in DOMAIN pattern[j] : Bad(pattern[j], k)
<1> DEFINE P == {p \in [is : {"text", "name", "index", "range", "nothing", "numeral", "open"},
                        text : STRING, from : Int, to : Int, size : Nat] :
                   p.size = 0 => p.is \in {"text", "nothing", "open"}}
           wrong(seg) == {k \in DOMAIN seg : Verdict(seg, k) # "fine"}
           segs == {j \in DOMAIN pattern : wrong(pattern[j]) # {}}
           seg == pattern[Min(segs)]
<1>1. pattern \in Seq(Seq(P))
    BY DEF Pattern
<1>2. \A j \in DOMAIN pattern : pattern[j] \in Seq(P)
    <2> HIDE DEF P
    <2> QED
        BY <1>1
<1>3. CASE segs = {}
    BY <1>3 DEF Parse
<1>4. CASE segs # {}
    <2>1. segs \in SUBSET Nat
        <3> HIDE DEF P, wrong
        <3> QED
            BY <1>1
    <2>2. Min(segs) \in segs
        BY <1>4, <2>1, LeastExists
    <2>3. Min(segs) \in DOMAIN pattern /\ seg \in Seq(P) /\ wrong(seg) # {}
        BY <1>2, <2>2
    <2>4. Parse(pattern) = Verdict(seg, Min(wrong(seg)))
        BY <1>4, Zenon DEF Parse
    <2> DEFINE k == Min(wrong(seg))
    <2> HIDE DEF seg
    <2>5. wrong(seg) \in SUBSET Nat
        <3> HIDE DEF P
        <3> QED
            BY <2>3
    <2>6. k \in wrong(seg)
        BY <2>3, <2>5, LeastExists
    <2>7. k \in DOMAIN seg /\ Verdict(seg, k) # "fine" /\ k \in Nat
        BY <2>5, <2>6
    <2>8. seg[k] \in P /\ k >= 1
        <3> HIDE DEF P, k
        <3> QED
            BY <2>3, <2>7
    <2> HIDE DEF k
    <2>9. /\ Verdict(seg, k) \in {"panic", "refused"}
          /\ Verdict(seg, k) = "panic" => seg[k].is = "nothing"
          /\ Verdict(seg, k) = "refused" => Bad(seg, k)
        BY <2>7, <2>8 DEF Verdict, Ahead, Bad
    <2> QED
        BY <2>3, <2>4, <2>7, <2>9 DEF k, seg
<1> QED
    BY <1>3, <1>4

(* A step that keeps the configuration keeps what it says of the files.    *)
LEMMA Still ==
    ASSUME config' = config, context' = context
    PROVE  /\ Tool' = Tool /\ Sections' = Sections /\ (Counting <=> Counting')
           /\ \A c : Base(c)' = Base(c)
           /\ \A c, file, k, w : Upto(c, file, k, w)' = Upto(c, file, k, w)
           /\ \A c, file, d : Filled(c, file, d)' <=> Filled(c, file, d)
           /\ \A x : IsDocument(x)' <=> IsDocument(x)
<1>1. Tool' = Tool /\ Sections' = Sections /\ (Counting <=> Counting')
    BY DEF Tool, Sections, Counting
<1>2. \A d : update(d)' = update(d)
    BY DEF update
<1>3. \A c : Base(c)' = Base(c)
    BY <1>2 DEF Base, Update
<1>4. \A c, file, now : New(c, file, now)' = New(c, file, now)
    <2>1. \A d : Fill(Tool, d)' = Fill(Tool, d)
        BY <1>1 DEF Fill
    <2> QED
        BY <1>3, <2>1 DEF New
<1>5. \A c, file, k, w : Upto(c, file, k, w)' = Upto(c, file, k, w)
    <2>1. \A d, row, now : TimeOfRow(d, row, now)' = TimeOfRow(d, row, now)
        BY <1>1 DEF TimeOfRow
    <2> QED
        BY <1>4, <2>1 DEF Upto
<1>6. \A c, file, d : Filled(c, file, d)' <=> Filled(c, file, d)
    <2>1. \A c, file, d, k, w : Summarized(c, file, d, k, w)' <=> Summarized(c, file, d, k, w)
        BY <1>1, <1>5 DEF Summarized
    <2>2. \A file, k : EndsAt(file, k)' <=> EndsAt(file, k)
        BY <1>1 DEF EndsAt
    <2>3. \A c, file, d, w : FilledAt(c, file, d, w)' <=> FilledAt(c, file, d, w)
        BY <1>1, <1>3, <1>4, <2>1, <2>2 DEF FilledAt
    <2> QED
        BY <2>3 DEF Filled
<1>7. \A d, row, now : Derived(d, row, now)' = Derived(d, row, now)
    BY <1>1 DEF Derived
<1>8. \A x : IsDocument(x)' <=> IsDocument(x)
    <2>1. \A x : Configured(x)' = Configured(x) /\ FileOf(x)' = FileOf(x)
        BY <1>1 DEF Configured, FileOf
    <2> QED
        BY <1>1, <1>2, <1>6, <1>7, <2>1 DEF IsDocument
<1> QED
    BY <1>1, <1>3, <1>5, <1>6, <1>8

(* Every section and file of the configuration is what the lemmas ask for. *)
LEMMA AllReady ==
    ASSUME config \in Configs, context = Included(config)
    PROVE  \A k \in DOMAIN Sections : /\ Sections[k].data \in DataWith(Parameter)
                                      /\ \A g \in DOMAIN Sections[k].files :
                                           Ready(Sections[k].data, Sections[k].files[g])
BY ConfigParts DEF Ready

(* The configuration that is loaded says nothing of any file yet (Build).  *)
THEOREM SectionsInit ==
    Init => IInv
BY DEF Init, IInv, Stops

(* A Data is itself with its own times.                                    *)
LEMMA TimedSame ==
    ASSUME NEW d \in DataType
    PROVE  Timed(d, d.acq, d.mod) = d /\ d.acq \in Nat /\ d.mod \in Nat
BY DEF Timed, DataType

(* The clone of a section is filled from nothing but the section and the   *)
(* file: what a file before left in the section of mknef does not matter   *)
(* but for the times.                                                      *)
LEMMA TakeFills ==
    ASSUME NEW c, NEW file, Ready(c, file), NEW h,
           IF Tool = "mknef" THEN \E a, m \in Nat : h = Timed(Base(c), a, m) ELSE h = Base(c),
           NEW now \in Clock
    PROVE  LET d == Fill(Tool, ReadFile(h, file, now))
           IN  IF Counting THEN \E w \in Readings : d = Upto(c, file, 0, w)
               ELSE d \in DataType /\ Filled(c, file, d)
<1> DEFINE d == Fill(Tool, ReadFile(h, file, now))
           r == ReadFile(h, file, now)
           b == ReadFile(Base(c), file, now)
           w == [j \in {1, 2, 3} |-> now]
<1>0. w \in Readings /\ w[1] = now
    BY DEF Readings
<1> HIDE DEF w
<1>1. CASE Tool # "mknef"
    <2>1. d = New(c, file, now)
        BY <1>1 DEF New
    <2> QED
        BY <1>0, <1>1, <2>1, NewKeeps DEF Upto, Filled, FilledAt, Own
<1>2. CASE Tool = "mknef"
    <2>1. ~ Counting
        BY <1>2 DEF Counting
    <2>2. Base(c) \in DataType /\ file \in FileType
        BY BaseKeeps DEF Ready
    <2>3. PICK a, m \in Nat : h = Timed(Base(c), a, m)
        BY <1>2
    <2>4. h \in DataType
        BY <2>2, <2>3, TimedKeeps
    <2>5. r \in DataType /\ r.file = file
        BY <2>2, <2>4, ReadFileKeeps
    <2>6. b \in DataType /\ \A x, y \in Nat : Timed(r, x, y) = Timed(b, x, y)
        BY <2>2, <2>3, ReadFileKeeps
    <2>7. d = IF file.rows = << >> THEN r ELSE Timed(r, file.rows[1].when, file.rows[1].when)
        BY <1>2, <2>5 DEF Fill
    <2> HIDE DEF r, b
    <2>8. ASSUME NEW x \in Nat, NEW y \in Nat, d = Timed(r, x, y),
                 file.rows # << >> => x = file.rows[1].when /\ y = x
          PROVE  d \in DataType /\ Filled(c, file, d)
        <3>1. d = Timed(b, x, y)
            BY <2>6, <2>8
        <3>2. d \in DataType
            BY <2>6, <3>1, TimedKeeps
        <3> QED
            BY <1>0, <1>2, <2>1, <2>8, <3>1, <3>2 DEF Filled, FilledAt, b
    <2>9. CASE file.rows = << >>
        <3>1. d = Timed(r, r.acq, r.mod) /\ r.acq \in Nat /\ r.mod \in Nat
            BY <2>5, <2>7, <2>9, TimedSame
        <3> HIDE DEF d
        <3>2. d \in DataType /\ Filled(c, file, d)
            BY <2>8, <2>9, <3>1
        <3> QED
            BY <2>1, <3>2 DEF d, r
    <2>10. CASE file.rows # << >>
        <3>1. 1 \in DOMAIN file.rows
            BY <2>2, <2>10, FileParts
        <3>2. file.rows[1].when \in Nat
            BY <1>2, <3>1 DEF Ready
        <3> QED
            BY <2>1, <2>7, <2>8, <2>10, <3>2
    <2> QED
        BY <2>9, <2>10
<1> QED
    BY <1>1, <1>2

(* The clock always shows something.                                       *)
LEMMA SomeReading ==
    \E now : now \in Clock
BY TimesAssumption

(* A document that is stored is what its section and file give.            *)
LEMMA NewDocument ==
    ASSUME s \in DOMAIN Sections, f \in DOMAIN Files, Ready(Sections[s].data, File),
           NEW d \in DataType, Filled(Sections[s].data, File, d), NEW row,
           row # 0 => ~ Counting /\ Tool # "mkfile" /\ row \in DOMAIN File.rows,
           NEW now \in Clock
    PROVE  IsDocument(Document(IF row = 0 THEN d ELSE Derived(d, File.rows[row], now), row))
<1> DEFINE e == IF row = 0 THEN d ELSE Derived(d, File.rows[row], now)
           x == Document(e, row)
<1>1. x.s = s /\ x.f = f /\ x.row = row /\ x.data = update(e) /\ x.place = Resolve(e.pattern, update(e))
    BY DEF Document
<1>2. Configured(x) = Sections[s].data /\ FileOf(x) = File
    BY <1>1 DEF Configured, FileOf, File, Files
<1>3. e \in DataType
    <2>1. row # 0 => File.rows[row] \in RowType
        BY FileParts DEF Ready
    <2> QED
        BY <2>1, DerivedKeeps
<1>4. update(e).pattern = e.pattern
    BY <1>3, UpdateKeeps DEF Ready
<1> HIDE DEF x
<1>5. IsDocument(x)
    BY <1>1, <1>2, <1>4 DEF IsDocument, Files
<1> QED
    BY <1>5 DEF x

(* One more row.                                                           *)
Plus(tally, upi) ==
    [v \in DOMAIN tally \cup {upi} |->
        (IF v \in DOMAIN tally THEN tally[v] ELSE 0) + (IF v = upi THEN 1 ELSE 0)]

(* A row that is counted is one more of its run.                           *)
LEMMA OneMore ==
    ASSUME NEW c, NEW file, Ready(c, file), Counting, NEW k, Fine(file, k),
           k < Len(file.rows), file.rows[k + 1].is = "row",
           NEW w \in Readings, NEW now \in Clock, NEW later \in Clock
    PROVE  LET row == file.rows[k + 1]
               u == Upto(c, file, k, w)
               t == TimeOfRow(u, row, later)
           IN  /\ Fine(file, k + 1)
               /\ \E v \in Readings :
                    Upto(c, file, k + 1, v) = Timed(u, IF k = 0 THEN TimeOfRow(u, row, now) ELSE u.acq, t)
               /\ TallyUpto(file, k + 1) = Plus(TallyUpto(file, k), row.upi)
<1> DEFINE row == file.rows[k + 1]
           u == Upto(c, file, k, w)
           t == TimeOfRow(u, row, later)
           d == New(c, file, w[1])
           v == [w EXCEPT ![2] = IF k = 0 THEN now ELSE w[2], ![3] = later]
           first == TimeOfRow(d, file.rows[1], v[2])
           tally == TallyUpto(file, k)
<1>0. /\ v \in Readings /\ v[1] = w[1] /\ v[2] = (IF k = 0 THEN now ELSE w[2]) /\ v[3] = later
      /\ \A j \in {1, 2, 3} : w[j] \in Clock /\ v[j] \in Clock
    BY DEF Readings
<1> HIDE DEF v
<1>1. k \in Nat /\ Len(file.rows) \in Nat /\ k + 1 \in DOMAIN file.rows
      /\ (1 .. k + 1) = (1 .. k) \cup {k + 1} /\ k + 1 \notin 1 .. k
    BY FileParts DEF Fine, Ready
<1>2. Fine(file, k + 1)
    BY <1>1 DEF Fine
<1>3. u.type = d.type /\ Own(d, c, file)
    BY <1>0, UptoKeeps, NewKeeps
<1>4. t = TimeOfRow(d, row, later) /\ TimeOfRow(u, row, now) = TimeOfRow(d, row, now)
    BY <1>3 DEF TimeOfRow, Known
<1>5. \A l \in DOMAIN file.rows, x \in Clock : TimeOfRow(d, file.rows[l], x) \in Nat
    BY TimesAssumption DEF TimeOfRow, Ready, Counting
<1>6. Upto(c, file, k + 1, v) = Timed(d, first, t)
    BY <1>0, <1>1, <1>4 DEF Upto
<1>7. Timed(u, IF k = 0 THEN TimeOfRow(u, row, now) ELSE u.acq, t) = Timed(d, first, t)
    <2>1. CASE k = 0
        BY <1>0, <1>4, <2>1 DEF Upto
    <2>2. CASE k # 0
        <3>1. u = Timed(d, first, TimeOfRow(d, file.rows[k], w[3]))
            BY <1>0, <2>2 DEF Upto
        <3>2. first \in Nat /\ t \in Nat /\ TimeOfRow(d, file.rows[k], w[3]) \in Nat
            <4>1. k \in DOMAIN file.rows /\ 1 \in DOMAIN file.rows
                BY <1>1, <2>2, FileParts DEF Ready
            <4> HIDE DEF d, u
            <4>2. first \in Nat /\ TimeOfRow(d, file.rows[k], w[3]) \in Nat
                BY <1>0, <1>5, <4>1
            <4>3. t \in Nat
                BY <1>1, <1>4, <1>5
            <4> QED
                BY <4>2, <4>3
        <3>3. u.acq = first /\ Timed(u, first, t) = Timed(d, first, t)
            <4>1. d \in DataType
                BY <1>3 DEF Own
            <4> HIDE DEF d, u, t, first
            <4> QED
                BY <3>1, <3>2, <4>1, TimedKeeps, SMTT(30)
        <3> QED
            BY <2>2, <3>3
    <2> QED
        BY <2>1, <2>2
<1>8. TallyUpto(file, k + 1) = Plus(tally, row.upi)
    <2>1. DOMAIN tally = Upis(file, k) /\ Upis(file, k + 1) = Upis(file, k) \cup {row.upi}
        BY <1>1 DEF TallyUpto, Upis
    <2>2. ASSUME NEW y
          PROVE  Cardinality({l \in 1 .. k + 1 : file.rows[l].upi = y}) =
                   (IF y \in Upis(file, k) THEN tally[y] ELSE 0) + (IF y = row.upi THEN 1 ELSE 0)
        <3> DEFINE A == {l \in 1 .. k : file.rows[l].upi = y}
                   B == {l \in 1 .. k + 1 : file.rows[l].upi = y}
        <3>1. IsFiniteSet(A) /\ Cardinality(A) \in Nat
            <4>1. IsFiniteSet(1 .. k) /\ A \in SUBSET (1 .. k)
                BY <1>1, FS_Interval
            <4> HIDE DEF A
            <4> QED
                BY <4>1, FS_Subset, FS_CardinalityType
        <3>2. y \notin Upis(file, k) => Cardinality(A) = 0
            BY FS_EmptySet DEF Upis
        <3>3. y \in Upis(file, k) => tally[y] = Cardinality(A)
            BY DEF TallyUpto
        <3>4. B = IF y = row.upi THEN A \cup {k + 1} ELSE A
            BY <1>1
        <3>5. Cardinality(A \cup {k + 1}) = Cardinality(A) + 1
            <4>1. k + 1 \notin A
                BY <1>1
            <4> HIDE DEF A
            <4> QED
                BY <3>1, <4>1, FS_AddElement
        <3> HIDE DEF A, B, row, tally
        <3>6. Cardinality(B) = (IF y \in Upis(file, k) THEN tally[y] ELSE 0) + (IF y = row.upi THEN 1 ELSE 0)
            BY <3>1, <3>2, <3>3, <3>4, <3>5
        <3> QED
            BY <3>6 DEF B, row, tally
    <2> HIDE DEF row, tally
    <2> QED
        BY <2>1, <2>2 DEF TallyUpto, Plus
<1> QED
    BY <1>0, <1>2, <1>6, <1>7, <1>8

(* The pieces of a pattern.                                                *)
LEMMA PieceParts ==
    ASSUME NEW pattern \in Pattern, NEW j \in DOMAIN pattern
    PROVE  /\ Len(pattern[j]) \in Nat /\ DOMAIN pattern[j] = 1 .. Len(pattern[j])
           /\ \A k \in DOMAIN pattern[j] :
                pattern[j][k].from \in Int /\ pattern[j][k].to \in Int
<1> DEFINE P == {p \in [is : {"text", "name", "index", "range", "nothing", "numeral", "open"},
                        text : STRING, from : Int, to : Int, size : Nat] :
                   p.size = 0 => p.is \in {"text", "nothing", "open"}}
<1>1. \A p \in P : p.from \in Int /\ p.to \in Int
    OBVIOUS
<1>2. pattern \in Seq(Seq(P))
    BY DEF Pattern
<1> HIDE DEF P
<1>3. pattern[j] \in Seq(P)
    BY <1>2
<1> QED
    BY <1>1, <1>3

LEMMA PiecesAre ==
    ASSUME NEW k \in DOMAIN Sections, NEW j \in DOMAIN Sections[k].data.pattern,
           NEW l \in DOMAIN Sections[k].data.pattern[j]
    PROVE  Sections[k].data.pattern[j][l] \in Pieces
<1>1. Sections[k].data.pattern[j] \in ToSet(Sections[k].data.pattern)
    BY DEF ToSet
<1>2. Sections[k].data.pattern[j][l] \in ToSet(Sections[k].data.pattern[j])
    BY DEF ToSet
<1> QED
    BY <1>1, <1>2 DEF Pieces
----------------------------------------------------------------------------
(* Each operation leaves in the section, in the Data at hand and in the    *)
(* documents what the inductive invariant says (Build, the collectData of  *)
(* each tool, Store and CreateFile).                                       *)
THEOREM SectionsStep ==
    IInv /\ [Next]_vars => IInv'
<1> SUFFICES ASSUME IInv, [Next]_vars
             PROVE  IInv'
    OBVIOUS
<1> DEFINE c == Sections[s].data
<1>1. config \in Configs /\ config' = config
    BY DEF IInv, Next, vars, Load, EnterSection, EndWalk, End, Pass, Take, TakeFails, CountRow,
           EndRows, RowsFail, StoreTable, EndTables, Store, StoreImage, EndImages, StorePanics
<1>2. /\ Tool' = Tool /\ Sections' = Sections
      /\ Tool \in {"mkfile", "mkmov", "mknef", "mkpdf", "mkcsv", "mkmma", "mkicn", "mkrt", "mkhdk"}
    BY <1>1, ConfigParts DEF Tool, Sections
<1>3. ASSUME context' = context, pc # "load"
      PROVE  /\ \A k \in DOMAIN Sections : /\ Sections[k].data \in DataWith(Parameter)
                                           /\ \A g \in DOMAIN Sections[k].files :
                                                Ready(Sections[k].data, Sections[k].files[g])
             /\ \A k : Base(k)' = Base(k)
             /\ (Counting <=> Counting')
             /\ \A e, file, k, w : Upto(e, file, k, w)' = Upto(e, file, k, w)
             /\ \A e, file, d : Filled(e, file, d)' <=> Filled(e, file, d)
             /\ \A x : IsDocument(x)' <=> IsDocument(x)
             /\ \A x \in docs : IsDocument(x)'
             /\ context' = Included(config)'
    <2>1. context = Included(config) /\ Included(config)' = Included(config)
        BY <1>1, <1>3 DEF IInv, Included
    <2>2. \A k \in DOMAIN Sections : /\ Sections[k].data \in DataWith(Parameter)
                                     /\ \A g \in DOMAIN Sections[k].files :
                                          Ready(Sections[k].data, Sections[k].files[g])
        BY <1>1, <2>1, AllReady
    <2>3. \A x \in docs : IsDocument(x)
        BY DEF IInv
    <2>4. \A x : IsDocument(x)' <=> IsDocument(x)
        BY <1>1, <1>3, Still
    <2>5. /\ \A k : Base(k)' = Base(k)
          /\ (Counting <=> Counting')
          /\ \A e, file, k, w : Upto(e, file, k, w)' = Upto(e, file, k, w)
          /\ \A e, file, d : Filled(e, file, d)' <=> Filled(e, file, d)
        BY <1>1, <1>3, Still
    <2> QED
        BY <1>3, <2>1, <2>2, <2>3, <2>4, <2>5
<1>4. CASE Load
    <2> DEFINE verdict(k) == Parse(Sections[k].data.pattern)
               bad == {k \in DOMAIN Sections : verdict(k) # "fine"}
    <2>1. /\ pc = "load" /\ docs' = docs /\ context' = Included(config)
          /\ pc' = IF bad = {} THEN "section" ELSE verdict(Min(bad))
          /\ s' = s /\ f' = f /\ n' = n
        BY <1>4 DEF Load, walk, rows
    <2>2. docs' = {} /\ Included(config)' = Included(config)
        BY <1>1, <2>1 DEF IInv, Included
    <2>3. Pieces' = Pieces
        BY <1>2 DEF Pieces
    <2>4. CASE bad = {}
        BY <1>1, <2>1, <2>2, <2>4 DEF IInv, Stops
    <2>5. CASE bad # {}
        <3> DEFINE k == Min(bad)
                   pattern == Sections[k].data.pattern
        <3>1. k \in DOMAIN Sections /\ verdict(k) # "fine"
            <4>1. bad \in SUBSET Nat
                BY <1>1, SectionsAssumption DEF Sections
            <4> QED
                BY <2>5, <4>1, LeastExists
        <3> HIDE DEF k
        <3>2. pattern \in Pattern
            BY <1>1, <3>1, ConfigParts DEF DataWith
        <3>3. pc' = Parse(pattern) /\ pc' \in {"panic", "refused"}
            BY <2>1, <2>5, <3>1, <3>2, ParseSays DEF k
        <3>4. ASSUME pc' = "panic"
              PROVE  Stops'
            <4>1. PICK j \in DOMAIN pattern : \E l \in DOMAIN pattern[j] : pattern[j][l].is = "nothing"
                BY <3>2, <3>3, <3>4, ParseSays
            <4>2. PICK l \in DOMAIN pattern[j] : pattern[j][l].is = "nothing"
                BY <4>1
            <4>3. pattern[j][l] \in Pieces
                BY <3>1, <4>1, <4>2, PiecesAre
            <4> QED
                BY <2>3, <3>4, <4>2, <4>3 DEF Stops
        <3>5. ASSUME pc' = "refused"
              PROVE  Stops'
            <4>1. PICK j \in DOMAIN pattern : \E l \in DOMAIN pattern[j] : Bad(pattern[j], l)
                BY <3>2, <3>3, <3>5, ParseSays
            <4>2. PICK l \in DOMAIN pattern[j] : Bad(pattern[j], l)
                BY <4>1
            <4>3. pattern[j][l] \in Pieces
                BY <3>1, <4>1, <4>2, PiecesAre
            <4>4. CASE pattern[j][l].is \in {"open", "nothing", "numeral"}
                BY <2>3, <3>5, <4>3, <4>4 DEF Stops
            <4>5. CASE l > 1 /\ pattern[j][l].size = pattern[j][l - 1].size /\ pattern[j][l - 1].is = "text"
                <5>1. pattern[j] \in ToSet(pattern)
                    BY <4>1 DEF ToSet
                <5>2. l \in 2 .. Len(pattern[j])
                    BY <3>2, <4>1, <4>2, <4>5, PieceParts
                <5> QED
                    BY <1>2, <3>1, <3>5, <4>5, <5>1, <5>2 DEF Stops
            <4> QED
                BY <4>2, <4>4, <4>5 DEF Bad
        <3> QED
            BY <1>1, <2>1, <2>2, <3>3, <3>4, <3>5 DEF IInv
    <2> QED
        BY <2>4, <2>5
<1>5. CASE EnterSection
    <2>1. context' = context /\ pc # "load" /\ docs' = docs
        BY <1>5 DEF EnterSection
    <2>2. CASE Wanted(Sections[s].data)
        <3>1. /\ s \in DOMAIN Sections /\ s' = s /\ section' = Base(c) /\ pc' = "file" /\ f' = 1 /\ n' = n
            BY <1>5, <2>2 DEF EnterSection, Base, rows
        <3>2. Base(c) \in DataType
            BY <1>3, <2>1, <3>1, <1>1, ConfigParts, BaseKeeps DEF IInv
        <3>3. Held'
            BY <1>2, <1>3, <2>1, <3>1, <3>2, TimedSame DEF Held
        <3> QED
            BY <1>1, <1>2, <1>3, <2>1, <3>1, <3>3 DEF IInv, Stops
    <2>3. CASE ~ Wanted(Sections[s].data)
        <3>1. s' = s + 1 /\ f' = f /\ pc' = pc /\ pc = "section" /\ n' = n
            BY <1>5, <2>3 DEF EnterSection, rows
        <3> QED
            BY <1>1, <1>2, <1>3, <2>1, <3>1 DEF IInv, Stops
    <2> QED
        BY <2>2, <2>3
<1>6. CASE EndWalk
    <2>1. /\ context' = context /\ docs' = docs /\ pc = "file" /\ pc' = "section"
          /\ s' = s + 1 /\ f' = f /\ n' = n
        BY <1>6 DEF EndWalk, rows
    <2> QED
        BY <1>1, <1>2, <1>3, <2>1 DEF IInv, Stops
<1>7. CASE End
    <2>1. /\ context' = context /\ docs' = docs /\ pc = "section" /\ pc' = "done"
          /\ s' = s /\ f' = f /\ n' = n
        BY <1>7 DEF End, rows, walk
    <2> QED
        BY <1>1, <1>2, <1>3, <2>1 DEF IInv, Stops
<1>8. CASE Pass
    <2>1. /\ context' = context /\ docs' = docs /\ pc = "file" /\ pc' = "file"
          /\ s' = s /\ f' = f + 1 /\ n' = n /\ section' = section
        BY <1>8 DEF Pass, rows
    <2>2. Held'
        BY <1>2, <1>3, <2>1 DEF IInv, Held
    <2> QED
        BY <1>1, <1>2, <1>3, <2>1, <2>2 DEF IInv, Stops
<1>9. CASE Take
    <2>1. /\ context' = context /\ docs' = docs /\ pc = "file" /\ pc' = Stage
          /\ s' = s /\ f' = f /\ n' = 1 /\ count' = 0 /\ runs' = << >> /\ section' = section
          /\ f \in DOMAIN Files /\ \E now \in Clock : dat' = Fill(Tool, ReadFile(section, File, now))
        BY <1>9 DEF Take, walk
    <2>2. s \in DOMAIN Sections /\ Held
        BY <2>1 DEF IInv
    <2>3. Held'
        BY <1>2, <1>3, <2>1, <2>2 DEF Held
    <2>4. Ready(c, File)
        BY <1>3, <2>1, <2>2 DEF File, Files
    <2>5. IF Counting THEN \E w \in Readings : dat' = Upto(c, File, 0, w)
          ELSE dat' \in DataType /\ Filled(c, File, dat')
        BY <2>1, <2>2, <2>4, TakeFills DEF Held
    <2>6. Files' = Files /\ File' = File
        BY <1>2, <2>1 DEF File, Files
    <2>7. CASE Counting
        <3>1. pc' = "rows"
            BY <2>1, <2>7 DEF Stage, Counting
        <3>2. Fine(File, 0) /\ TallyUpto(File, 0) = << >>
            <4>1. Len(File.rows) \in Nat
                BY <2>4, FileParts DEF Ready
            <4>2. Upis(File, 0) = {}
                BY DEF Upis
            <4> QED
                BY <4>1, <4>2 DEF Fine, TallyUpto
        <3>3. AtRows'
            BY <1>2, <1>3, <2>1, <2>5, <2>6, <2>7, <3>2 DEF AtRows
        <3> QED
            BY <1>1, <1>2, <1>3, <2>1, <2>2, <2>3, <2>6, <3>1, <3>3 DEF IInv, Stops
    <2>8. CASE ~ Counting
        <3>1. AtStore'
            BY <1>2, <1>3, <2>1, <2>5, <2>6, <2>8 DEF AtStore
        <3>2. pc' \in {"tables", "store"} /\ (pc' = "tables" => Tool = "mkicn")
            BY <2>1, <2>8 DEF Stage, Counting
        <3> QED
            BY <1>1, <1>2, <1>3, <2>1, <2>2, <2>3, <2>6, <3>1, <3>2 DEF IInv, Stops
    <2> QED
        BY <2>7, <2>8
<1>10. CASE TakeFails
    <2>1. /\ context' = context /\ docs' = docs /\ pc = "file"
          /\ s' = s /\ n' = n /\ section' = section /\ f \in DOMAIN Files
        BY <1>10 DEF TakeFails, rows
    <2>2. s \in DOMAIN Sections /\ Held
        BY <2>1 DEF IInv
    <2>3. Held'
        BY <1>2, <1>3, <2>1, <2>2 DEF Held
    <2>4. CASE File.damaged /\ f' = f + 1 /\ UNCHANGED pc
        BY <1>1, <1>2, <1>3, <2>1, <2>2, <2>3, <2>4 DEF IInv, Stops
    <2>5. CASE NamePanics(section, File) /\ pc' = "panic" /\ UNCHANGED f
        <3>1. Ready(c, File)
            BY <1>3, <2>1, <2>2 DEF File, Files
        <3>2. section \in DataType
            <4>1. Base(c) \in DataType
                BY <3>1, BaseKeeps DEF Ready
            <4> QED
                BY <2>2, <4>1, TimedKeeps DEF Held
        <3>3. Len(File.base) < 3
            <4>1. section.func \in TimeFuncs /\ File \in FileType
                BY <3>1, <3>2 DEF DataType, Ready
            <4> QED
                BY <2>5, <4>1, TimePanics DEF NamePanics, WhenOf
        <3>4. File' = File
            BY <1>2, <2>1, <2>5 DEF File, Files
        <3>5. Stops'
            BY <2>5, <3>3, <3>4 DEF Stops
        <3> QED
            BY <1>1, <1>2, <1>3, <2>1, <2>2, <2>5, <3>5 DEF IInv
    <2> QED
        BY <1>10, <2>4, <2>5 DEF TakeFails
<1>11. CASE CountRow
    <2>1. /\ context' = context /\ docs' = docs /\ pc = "rows" /\ pc' = "rows"
          /\ s' = s /\ f' = f /\ n' = n + 1 /\ count' = count + 1 /\ section' = section
          /\ n \in DOMAIN File.rows /\ Row.is = "row" /\ runs' = Tally(Row.upi)
          /\ \E now, later \in Clock :
               dat' = Timed(dat, IF count = 0 THEN RowTime(now) ELSE dat.acq, RowTime(later))
        BY <1>11 DEF CountRow, walk
    <2>2. s \in DOMAIN Sections /\ f \in DOMAIN Files /\ Held /\ AtRows /\ n \in Nat \ {0}
        BY <2>1 DEF IInv
    <2>3. Held' /\ Files' = Files /\ File' = File
        BY <1>2, <1>3, <2>1, <2>2 DEF Held, File, Files
    <2>4. Ready(c, File)
        BY <1>3, <2>1, <2>2 DEF File, Files
    <2>5. /\ Counting /\ Fine(File, count) /\ count < Len(File.rows) /\ Row = File.rows[count + 1]
          /\ \E w \in Readings : dat = Upto(c, File, count, w)
          /\ runs = TallyUpto(File, count) /\ count + 1 = n' - 1
        <3>1. File.rows \in Seq(RowType)
            BY <2>4, FileParts DEF Ready
        <3> QED
            BY <2>1, <2>2, <3>1 DEF AtRows, Row
    <2>6. \A now : RowTime(now) = TimeOfRow(dat, Row, now)
        BY DEF RowTime, ReadsClock, TimeOfRow
    <2>7. /\ Fine(File, count + 1)
          /\ \E w \in Readings : dat' = Upto(c, File, count + 1, w)
          /\ runs' = TallyUpto(File, count + 1)
        <3> HIDE DEF c
        <3>1. Counting /\ Fine(File, count) /\ count < Len(File.rows) /\ File.rows[count + 1].is = "row"
            BY <2>1, <2>5
        <3>5. PICK w \in Readings : dat = Upto(c, File, count, w)
            BY <2>5
        <3>6. PICK now, later \in Clock :
                dat' = Timed(dat, IF count = 0 THEN TimeOfRow(dat, Row, now) ELSE dat.acq,
                             TimeOfRow(dat, Row, later))
            BY <2>1, <2>6
        <3>2. /\ Fine(File, count + 1)
              /\ \E v \in Readings : Upto(c, File, count + 1, v) =
                   Timed(Upto(c, File, count, w),
                         IF count = 0 THEN TimeOfRow(Upto(c, File, count, w), File.rows[count + 1], now)
                         ELSE Upto(c, File, count, w).acq,
                         TimeOfRow(Upto(c, File, count, w), File.rows[count + 1], later))
              /\ TallyUpto(File, count + 1) = Plus(TallyUpto(File, count), File.rows[count + 1].upi)
            BY <2>4, <3>1, OneMore
        <3>3. \E v \in Readings : dat' = Upto(c, File, count + 1, v)
            BY <2>5, <3>2, <3>5, <3>6
        <3>4. runs' = TallyUpto(File, count + 1)
            BY <2>1, <2>5, <3>2 DEF Tally, Plus
        <3> QED
            BY <3>2, <3>3, <3>4
    <2>8. AtRows'
        BY <1>2, <1>3, <2>1, <2>3, <2>5, <2>7 DEF AtRows
    <2> QED
        BY <1>1, <1>2, <1>3, <2>1, <2>2, <2>3, <2>8 DEF IInv, Stops
<1>12. CASE EndRows
    <2>1. /\ context' = context /\ docs' = docs /\ pc = "rows" /\ pc' = "store"
          /\ s' = s /\ f' = f /\ n' = n /\ section' = section
          /\ Over /\ (Tool = "mkrt" \/ count > 0)
        BY <1>12 DEF EndRows, walk, rows
    <2>2. s \in DOMAIN Sections /\ f \in DOMAIN Files /\ Held /\ AtRows /\ n \in Nat \ {0}
        BY <2>1 DEF IInv
    <2>3. Held' /\ Files' = Files /\ File' = File
        BY <1>2, <1>3, <2>1, <2>2 DEF Held, File, Files
    <2>4. Ready(c, File)
        BY <1>3, <2>1, <2>2 DEF File, Files
    <2>5. /\ Counting /\ Fine(File, count) /\ count \in Nat /\ n = count + 1
          /\ \E w \in Readings : dat = Upto(c, File, count, w)
          /\ runs = TallyUpto(File, count)
          /\ n \in DOMAIN File.rows <=> count < Len(File.rows)
        <3>1. File.rows \in Seq(RowType)
            BY <2>4, FileParts DEF Ready
        <3> QED
            BY <2>1, <2>2, <3>1 DEF AtRows
    <2>6. EndsAt(File, count)
        BY <2>1, <2>5 DEF EndsAt, Over, Row
    <2>7. (IF Odd THEN Register(dat, "invalid", "true") ELSE dat) = Marked(dat, File, count)
        BY <2>5 DEF Odd, Marked, Row
    <2>8. SummaryOf(Tool, Marked(dat, File, count), runs, dat', count)
        BY <1>12, <2>7 DEF EndRows, SummaryOf
    <2>9. Filled(c, File, dat')
        BY <2>1, <2>5, <2>6, <2>8 DEF Filled, FilledAt, Summarized
    <2>10. dat' \in DataType
        BY <2>4, <2>9, FilledKeeps DEF Own
    <2>11. AtStore'
        BY <1>2, <1>3, <2>1, <2>3, <2>9, <2>10 DEF AtStore
    <2> QED
        BY <1>1, <1>2, <1>3, <2>1, <2>2, <2>3, <2>11 DEF IInv, Stops
<1>13. CASE RowsFail
    <2>1. /\ context' = context /\ docs' = docs /\ pc = "rows" /\ pc' = "file"
          /\ s' = s /\ f' = f + 1 /\ n' = n /\ section' = section
        BY <1>13 DEF RowsFail, rows
    <2>2. s \in DOMAIN Sections /\ Held
        BY <2>1 DEF IInv
    <2>3. Held'
        BY <1>2, <1>3, <2>1, <2>2 DEF Held
    <2> QED
        BY <1>1, <1>2, <1>3, <2>1, <2>2, <2>3 DEF IInv, Stops
<1>14. CASE StoreTable
    <2>1. /\ context' = context /\ pc = "tables" /\ pc' = "tables"
          /\ s' = s /\ f' = f /\ n' = n + 1 /\ section' = section /\ dat' = dat
          /\ n \in DOMAIN File.rows
          /\ \/ docs' = docs
             \/ \E now \in Clock : docs' = docs \cup {Document(Table(dat, Row, now), n)}
        BY <1>14 DEF StoreTable, walk
    <2>2. /\ s \in DOMAIN Sections /\ f \in DOMAIN Files /\ Held /\ AtStore /\ n \in Nat \ {0}
          /\ Tool = "mkicn"
        BY <2>1 DEF IInv
    <2>3. Held' /\ Files' = Files /\ File' = File
        BY <1>2, <1>3, <2>1, <2>2 DEF Held, File, Files
    <2>4. AtStore'
        BY <1>2, <1>3, <2>1, <2>2, <2>3 DEF AtStore
    <2>5. \A now \in Clock : IsDocument(Document(Table(dat, Row, now), n))
        <3>1. Ready(c, File)
            BY <1>3, <2>1, <2>2 DEF File, Files
        <3>2. \A now : Table(dat, Row, now) = IF n = 0 THEN dat ELSE Derived(dat, File.rows[n], now)
            BY <2>2 DEF Derived, Row
        <3>3. ~ Counting /\ Tool # "mkfile"
            BY <2>2 DEF Counting
        <3> QED
            BY <2>1, <2>2, <3>1, <3>2, <3>3, NewDocument, SomeReading DEF AtStore
    <2>6. \A x \in docs' : IsDocument(x)'
        BY <1>3, <2>1, <2>5
    <2> QED
        BY <1>1, <1>2, <1>3, <2>1, <2>2, <2>3, <2>4, <2>6 DEF IInv, Stops
<1>15. CASE EndTables
    <2>1. /\ context' = context /\ docs' = docs /\ pc = "tables"
          /\ s' = s /\ n' = n /\ section' = section /\ dat' = dat
          /\ (pc' = "store" /\ f' = f) \/ (pc' = "file" /\ f' = f + 1)
        BY <1>15 DEF EndTables, rows
    <2>2. /\ s \in DOMAIN Sections /\ f \in DOMAIN Files /\ Held /\ AtStore
        BY <2>1 DEF IInv
    <2>3. Held' /\ Files' = Files
        BY <1>2, <1>3, <2>1, <2>2 DEF Held, File, Files
    <2>4. f' = f => AtStore'
        BY <1>2, <1>3, <2>1, <2>2, <2>3 DEF AtStore, File
    <2> QED
        BY <1>1, <1>2, <1>3, <2>1, <2>2, <2>3, <2>4 DEF IInv, Stops
<1>16. CASE Store
    <2>1. /\ context' = context /\ pc = "store"
          /\ s' = s /\ n' = 1 /\ dat' = dat
          /\ section' = IF Tool = "mknef" THEN Timed(section, dat.acq, dat.mod) ELSE section
          /\ IF Tool = "mknef" THEN pc' = "images" /\ f' = f ELSE pc' = "file" /\ f' = f + 1
          /\ docs' = docs \cup {Document(dat, 0)}
        BY <1>16 DEF Store
    <2>2. /\ s \in DOMAIN Sections /\ f \in DOMAIN Files /\ Held /\ AtStore /\ f \in Nat
        BY <2>1 DEF IInv
    <2>3. Ready(c, File)
        BY <1>3, <2>1, <2>2 DEF File, Files
    <2>4. Held'
        <3>1. Base(c) \in DataType
            BY <2>3, BaseKeeps DEF Ready
        <3>2. dat.acq \in Nat /\ dat.mod \in Nat
            BY <2>2, TimedSame DEF AtStore
        <3>3. Tool = "mknef" => section' = Timed(Base(c), dat.acq, dat.mod)
            BY <2>1, <2>2, <3>1, <3>2, TimedKeeps DEF Held
        <3> QED
            BY <1>2, <1>3, <2>1, <2>2, <3>2, <3>3 DEF Held
    <2>5. Files' = Files
        BY <1>2, <2>1 DEF Files
    <2>6. f' = f => AtStore'
        BY <1>2, <1>3, <2>1, <2>2, <2>5 DEF AtStore, File
    <2>7. IsDocument(Document(dat, 0))
        BY <2>2, <2>3, NewDocument, SomeReading DEF AtStore
    <2>8. \A x \in docs' : IsDocument(x)'
        BY <1>3, <2>1, <2>7 DEF IInv
    <2> QED
        BY <1>1, <1>2, <1>3, <2>1, <2>2, <2>4, <2>5, <2>6, <2>8 DEF IInv, Stops
<1>17. CASE StoreImage
    <2>1. /\ context' = context /\ pc = "images" /\ pc' = "images"
          /\ s' = s /\ f' = f /\ n' = n + 1 /\ section' = section /\ dat' = dat
          /\ n \in DOMAIN File.rows
          /\ docs' = docs \cup {Document(Image(dat, Row), n)} \/ docs' = docs
        BY <1>17 DEF StoreImage, walk
    <2>2. /\ s \in DOMAIN Sections /\ f \in DOMAIN Files /\ Held /\ AtStore /\ n \in Nat \ {0}
          /\ Tool = "mknef"
        BY <2>1 DEF IInv
    <2>3. Held' /\ Files' = Files /\ File' = File
        BY <1>2, <1>3, <2>1, <2>2 DEF Held, File, Files
    <2>4. AtStore'
        BY <1>2, <1>3, <2>1, <2>2, <2>3 DEF AtStore
    <2>5. IsDocument(Document(Image(dat, Row), n))
        <3>1. Ready(c, File)
            BY <1>3, <2>1, <2>2 DEF File, Files
        <3>2. \A now : Image(dat, Row) = IF n = 0 THEN dat ELSE Derived(dat, File.rows[n], now)
            BY <2>2 DEF Derived, Row
        <3>3. ~ Counting /\ Tool # "mkfile"
            BY <2>2 DEF Counting
        <3> QED
            BY <2>1, <2>2, <3>1, <3>2, <3>3, NewDocument, SomeReading DEF AtStore
    <2>6. \A x \in docs' : IsDocument(x)'
        BY <1>3, <2>1, <2>5
    <2> QED
        BY <1>1, <1>2, <1>3, <2>1, <2>2, <2>3, <2>4, <2>6 DEF IInv, Stops
<1>18. CASE EndImages
    <2>1. /\ context' = context /\ pc = "images" /\ pc' = "file"
          /\ s' = s /\ f' = f + 1 /\ n' = n /\ section' = section
          /\ docs' = docs \cup {Document(dat, 0)}
        BY <1>18 DEF EndImages, rows
    <2>2. /\ s \in DOMAIN Sections /\ f \in DOMAIN Files /\ Held /\ AtStore
        BY <2>1 DEF IInv
    <2>3. Held'
        BY <1>2, <1>3, <2>1, <2>2 DEF Held
    <2>4. Ready(c, File)
        BY <1>3, <2>1, <2>2 DEF File, Files
    <2>5. IsDocument(Document(dat, 0))
        BY <2>2, <2>4, NewDocument, SomeReading DEF AtStore
    <2>6. \A x \in docs' : IsDocument(x)'
        BY <1>3, <2>1, <2>5 DEF IInv
    <2> QED
        BY <1>1, <1>2, <1>3, <2>1, <2>2, <2>3, <2>6 DEF IInv, Stops
<1>19. CASE StorePanics
    <2>1. /\ context' = context /\ docs' = docs /\ pc \in {"tables", "store"} /\ pc' = "panic"
          /\ s' = s /\ f' = f /\ n' = n /\ ResolvePanics(dat.pattern, dat)
        BY <1>19 DEF StorePanics, walk, rows
    <2>2. s \in DOMAIN Sections /\ f \in DOMAIN Files /\ AtStore
        BY <2>1 DEF IInv
    <2>3. Ready(c, File) /\ c \in DataWith(Parameter)
        BY <1>3, <2>1, <2>2 DEF File, Files
    <2>4. dat.pattern = c.pattern /\ dat.file = File
        BY <2>2, <2>3, FilledKeeps DEF AtStore, Own
    <2>5. PICK j \in DOMAIN c.pattern : \E k \in DOMAIN c.pattern[j] : Panics(c.pattern[j][k], File.dirs)
        BY <2>1, <2>4 DEF ResolvePanics
    <2>6. PICK k \in DOMAIN c.pattern[j] : Panics(c.pattern[j][k], File.dirs)
        BY <2>5
    <2>7. c.pattern[j][k] \in Pieces
        BY <2>2, <2>5, <2>6, PiecesAre
    <2>8. c.pattern[j][k].from \in Int /\ c.pattern[j][k].to \in Int
        BY <2>3, <2>5, <2>6, PieceParts DEF DataWith
    <2>9. File.dirs \in Seq(Int) /\ File.dirs # << >>
        BY <2>3, FileParts DEF Ready
    <2>10. File' = File /\ Pieces' = Pieces
        BY <1>2, <2>1 DEF File, Files, Pieces
    <2>11. Stops'
        <3> DEFINE p == c.pattern[j][k]
        <3> HIDE DEF p
        <3>1. CASE p.is = "range"
            BY <2>1, <2>6, <2>7, <2>8, <2>9, <2>10, <3>1, RangePanics DEF Stops, p
        <3>2. CASE p.is # "range"
            BY <2>1, <2>6, <2>7, <2>10, <3>2 DEF Stops, Panics, p
        <3> QED
            BY <3>1, <3>2
    <2> QED
        BY <1>1, <1>2, <1>3, <2>1, <2>2, <2>11 DEF IInv
<1>20. CASE UNCHANGED vars
    <2>1. /\ config' = config /\ context' = context /\ pc' = pc /\ s' = s /\ f' = f /\ n' = n /\ docs' = docs
          /\ section' = section /\ dat' = dat /\ count' = count /\ runs' = runs
        BY <1>20 DEF vars, walk, rows
    <2>2. Files' = Files /\ File' = File /\ Pieces' = Pieces
        BY <1>2, <2>1 DEF File, Files, Pieces
    <2>3. Stops'
        BY <1>2, <2>1, <2>2 DEF IInv, Stops
    <2>4. CASE pc = "load"
        BY <2>1, <2>3, <2>4 DEF IInv
    <2>5. CASE pc # "load"
        <3>1. (Held => Held') /\ (AtRows => AtRows') /\ (AtStore => AtStore')
            BY <1>2, <1>3, <2>1, <2>2, <2>5 DEF Held, AtRows, AtStore
        <3> QED
            BY <1>1, <1>2, <1>3, <2>1, <2>2, <2>3, <2>5, <3>1 DEF IInv
    <2> QED
        BY <2>4, <2>5
<1> QED
    BY <1>4, <1>5, <1>6, <1>7, <1>8, <1>9, <1>10, <1>11, <1>12, <1>13, <1>14, <1>15, <1>16, <1>17,
       <1>18, <1>19, <1>20 DEF Next
----------------------------------------------------------------------------
(* In all that a command does, the Data at hand and the documents written  *)
(* say what the configuration, the file and its rows say, in closed form   *)
(* (Build and the collectData of each tool).                               *)
THEOREM SectionsInvariant ==
    Spec => []IInv
BY SectionsInit, SectionsStep, PTL DEF Spec

(* What a document says is that of its file, or of the part of it that it  *)
(* describes, with the increments.                                         *)
LEMMA DocumentParts ==
    ASSUME IInv, NEW x \in docs
    PROVE  LET c == Configured(x)
               file == FileOf(x)
           IN  /\ Ready(c, file)
               /\ x.row # 0 => ~ Counting /\ Tool # "mkfile"
               /\ x.place = Resolve(x.data.pattern, x.data)
               /\ \E d, e \in DataType, now \in Clock :
                    /\ Filled(c, file, d) /\ Own(d, c, file)
                    /\ e = IF x.row = 0 THEN d ELSE Derived(d, file.rows[x.row], now)
                    /\ e.incs = Base(c).incs /\ x.data = update(e)
<1> DEFINE c == Configured(x)
           file == FileOf(x)
<1>1. IsDocument(x) /\ config \in Configs /\ context = Included(config)
    BY DEF IInv
<1>2. Ready(c, file)
    BY <1>1, AllReady DEF IsDocument, Configured, FileOf
<1>3. PICK d \in DataType, now \in Clock :
        /\ Filled(c, file, d)
        /\ x.data = update(IF x.row = 0 THEN d ELSE Derived(d, file.rows[x.row], now))
    BY <1>1 DEF IsDocument
<1> DEFINE e == IF x.row = 0 THEN d ELSE Derived(d, file.rows[x.row], now)
<1>4. Own(d, c, file)
    BY <1>2, <1>3, FilledKeeps
<1>5. e \in DataType /\ e.incs = Base(c).incs
    <2>1. CASE x.row = 0
        BY <1>4, <2>1 DEF Own
    <2>2. CASE x.row # 0
        <3>1. file.rows[x.row] \in RowType
            BY <1>1, <1>2, <2>2, FileParts DEF IsDocument, Ready
        <3> QED
            BY <1>4, <2>2, <3>1, DerivedKeeps DEF Own
    <2> QED
        BY <2>1, <2>2
<1>6. /\ x.row # 0 => ~ Counting /\ Tool # "mkfile"
      /\ x.place = Resolve(x.data.pattern, x.data)
    BY <1>1 DEF IsDocument
<1> HIDE DEF c, file
<1>7. \E d2, e2 \in DataType, now2 \in Clock :
        /\ Filled(c, file, d2) /\ Own(d2, c, file)
        /\ e2 = IF x.row = 0 THEN d2 ELSE Derived(d2, file.rows[x.row], now2)
        /\ e2.incs = Base(c).incs /\ x.data = update(e2)
    BY <1>3, <1>4, <1>5
<1> QED
    BY <1>2, <1>6, <1>7 DEF c, file

(* The increments follow from what each document is.                       *)
LEMMA IncrementsFollow ==
    IInv => IncrementsHold
<1> SUFFICES ASSUME IInv, NEW x \in docs
             PROVE  LET t == x.data.acq
                        c == Configured(x)
                        labels == x.data.incs
                        named(l) == {i \in context.incs : i.num = l}
                    IN  IF c.incs # {} THEN labels = c.incs
                        ELSE ~ DefaultFalls(c) =>
                             /\ \A i \in context.incs : Inside(i, t) => i.num \in labels
                             /\ \A l \in labels : \E i \in named(l) : ~ Outside(i, t)
                             /\ \A l, m \in labels : \E i \in named(l), j \in named(m) : Meet(i, j)
    BY DEF IncrementsHold
<1> DEFINE c == Configured(x)
           t == x.data.acq
           labels == x.data.incs
           named(l) == {i \in context.incs : i.num = l}
<1>1. PICK e \in DataType : e.incs = Base(c).incs /\ x.data = update(e)
    BY DocumentParts
<1>2. c \in DataWith(Parameter) /\ context \in Context
    BY DocumentParts DEF Ready
<1>3. Base(c).incs = IF c.acq = Zero \/ c.incs # {} THEN c.incs ELSE Falls(c.acq)
    BY <1>2, BaseKeeps
<1>4. t \in Nat /\ labels = IF t = Zero \/ e.incs # {} THEN e.incs ELSE Falls(t)
    BY <1>1, <1>2, UpdateKeeps DEF Timely, DataType
<1>5. \A i \in context.incs : i.starts \in Nat /\ i.ends \in Nat
    BY <1>2 DEF Context, Increment
<1> HIDE DEF c, t, labels
<1>6. CASE c.incs # {}
    BY <1>1, <1>3, <1>4, <1>6 DEF c, t, labels
<1>7. CASE c.incs = {} /\ ~ DefaultFalls(c)
    <2>1. Falls(c.acq) = {}
        BY <1>7 DEF DefaultFalls, Falls, Inside, Within
    <2>2. labels = IF t = Zero THEN {} ELSE Falls(t)
        BY <1>1, <1>3, <1>4, <1>7, <2>1
    <2>3. Falls(t) = {i.num : i \in {j \in context.incs : Inside(j, t)}}
        BY DEF Falls, Inside, Within
    <2>4. \A i \in context.incs : ~ Inside(i, Zero)
        BY <1>5 DEF Inside, Zero
    <2>5. \A i \in context.incs : Inside(i, t) => i.num \in labels
        BY <2>2, <2>3, <2>4
    <2>6. \A l \in labels : \E i \in named(l) : Inside(i, t)
        BY <2>2, <2>3
    <2>7. \A l \in labels : \E i \in named(l) : ~ Outside(i, t)
        BY <1>4, <1>5, <2>6 DEF Inside, Outside
    <2>8. \A l, m \in labels : \E i \in named(l), j \in named(m) : Meet(i, j)
        BY <1>4, <1>5, <2>6 DEF Inside, Meet
    <2> QED
        BY <1>7, <2>5, <2>7, <2>8 DEF c, t, labels
<1> QED
    BY <1>6, <1>7 DEF c, t, labels

(* The increments of each document are those configured, else those that   *)
(* its own time falls in (Update, update, Store, CreateFile).              *)
THEOREM IncrementsAlwaysHold ==
    Spec => []IncrementsHold
BY SectionsInvariant, IncrementsFollow, PTL
----------------------------------------------------------------------------
(* The rows of a file that count are the same however it was come to.      *)
LEMMA CountIsOwn ==
    ASSUME NEW file \in FileType, Counting, NEW k, Fine(file, k), EndsAt(file, k),
           NEW l, Fine(file, l), EndsAt(file, l)
    PROVE  k = l
<1>1. k \in Nat /\ l \in Nat /\ Len(file.rows) \in Nat
    BY FileParts DEF Fine
<1>2. ASSUME NEW a \in Nat, NEW b \in Nat, a < b, EndsAt(file, a), Fine(file, b)
      PROVE  FALSE
    <2>1. a + 1 \in 1 .. b /\ a < Len(file.rows)
        BY <1>1, <1>2 DEF Fine
    <2>2. file.rows[a + 1].is = "row"
        BY <1>2, <2>1 DEF Fine
    <2> QED
        BY <1>2, <2>1, <2>2 DEF EndsAt
<1> QED
    BY <1>1, <1>2

(* What two Data have in common when nothing but their times, increments   *)
(* and parameters may differ.                                              *)
Alike(d, e) ==
    /\ d.type = e.type /\ d.mime = e.mime /\ d.level = e.level
    /\ d.source = e.source /\ d.model = e.model
    /\ d.exts = e.exts /\ d.mimes = e.mimes
    /\ d.func = e.func /\ d.pattern = e.pattern /\ d.file = e.file

LEMMA AlikeUndated ==
    ASSUME NEW d \in DataType, NEW e \in DataType, Alike(d, e)
    PROVE  Undated(d) = Undated(e)
BY DEF Alike, Undated, Timed, DataType

LEMMA AlikeTimed ==
    ASSUME NEW d \in DataType, NEW a, NEW m
    PROVE  Alike(Timed(d, a, m), d)
BY DEF Alike, Timed, DataType

LEMMA AlikeRegister ==
    ASSUME NEW d \in DataType, NEW name, NEW value
    PROVE  Alike(Register(d, name, value), d)
BY DEF Alike, Register, DataType

LEMMA AlikeUpdate ==
    ASSUME NEW d \in DataType
    PROVE  Alike(update(d), d)
BY DEF Alike, update, DataType

LEMMA AlikeTyped ==
    ASSUME NEW d \in DataType, NEW e \in DataType, Alike(d, e), NEW mimes, NEW ext
    PROVE  Alike(Typed(mimes, d, ext), Typed(mimes, e, ext))
<1> DEFINE fit == {k \in DOMAIN mimes : ext \in mimes[k].exts}
           m   == mimes[Min(fit)]
<1>1. \A x : Typed(mimes, x, ext) =
               IF fit = {} THEN x
               ELSE [x EXCEPT !.type = IF @ = "" THEN m.type ELSE @,
                              !.mime = IF @ = NoMime THEN m.mime ELSE @]
    BY DEF Typed
<1> HIDE DEF fit, m
<1> QED
    <2>1. CASE fit = {}
        BY <1>1, <2>1
    <2>2. CASE fit # {}
        <3> DEFINE y(x) == IF x.type = "" THEN m.type ELSE x.type
                   z(x) == IF x.mime = NoMime THEN m.mime ELSE x.mime
        <3>1. \A x : Typed(mimes, x, ext) = [x EXCEPT !.type = y(x), !.mime = z(x)]
            BY <1>1, <2>2
        <3>2. y(d) = y(e) /\ z(d) = z(e)
            BY DEF Alike
        <3> HIDE DEF y, z
        <3>3. Alike([d EXCEPT !.type = y(d), !.mime = z(d)], [e EXCEPT !.type = y(e), !.mime = z(e)])
            BY <3>2 DEF Alike, DataType
        <3> QED
            BY <3>1, <3>3
    <2> QED
        BY <2>1, <2>2

(* A file that is read for two Data that are alike leaves them alike,      *)
(* whatever the clock shows.                                               *)
LEMMA AlikeRead ==
    ASSUME NEW d \in DataType, NEW e \in DataType, Alike(d, e), NEW file \in FileType,
           NEW now \in Clock, NEW later \in Clock
    PROVE  Alike(ReadFile(d, file, now), ReadFile(e, file, later))
<1> DEFINE T(x) == Typed(x.mimes, [x EXCEPT !.file = file], file.ext)
           U(x, w) == IF T(x).acq = Zero /\ w >= 0 THEN Timed(T(x), w, w) ELSE T(x)
           Gz(x) == IF file.ext = ".gz" THEN Register(x, "encoding", "gzip") ELSE x
<1>1. ASSUME NEW x \in DataType, NEW t \in Clock
      PROVE  /\ T(x) \in DataType
             /\ U(x, WhenOf(T(x), file, t)) \in DataType /\ Alike(U(x, WhenOf(T(x), file, t)), T(x))
             /\ ReadFile(x, file, t) = Gz(U(x, WhenOf(T(x), file, t)))
    <2>1. [x EXCEPT !.file = file] \in DataType /\ x.mimes \in MimeSet
        BY DEF DataType
    <2>2. T(x) \in DataType
        BY <2>1, TypedKeeps
    <2>3. ReadFile(x, file, t) = Gz(U(x, WhenOf(T(x), file, t)))
        BY DEF ReadFile, Timed
    <2> HIDE DEF T
    <2>4. WhenOf(T(x), file, t) \in Int
        BY <2>2, TimeTypes DEF WhenOf, DataType
    <2>5. U(x, WhenOf(T(x), file, t)) \in DataType /\ Alike(U(x, WhenOf(T(x), file, t)), T(x))
        BY <2>2, <2>4, TimedKeeps, AlikeTimed DEF Alike
    <2> QED
        BY <2>2, <2>3, <2>5
<1>2. Alike(T(d), T(e))
    <2>1. [d EXCEPT !.file = file] \in DataType /\ [e EXCEPT !.file = file] \in DataType
        BY DEF DataType
    <2>2. Alike([d EXCEPT !.file = file], [e EXCEPT !.file = file]) /\ d.mimes = e.mimes
        BY DEF Alike, DataType
    <2> QED
        BY <2>1, <2>2, AlikeTyped
<1> HIDE DEF T, U
<1>3. \A x \in DataType : Alike(Gz(x), x)
    BY AlikeRegister DEF Alike
<1> HIDE DEF Gz
<1> QED
    BY <1>1, <1>2, <1>3 DEF Alike

(* So does a tool that fills them.                                         *)
LEMMA AlikeFill ==
    ASSUME NEW d \in DataType, NEW e \in DataType, Alike(d, e)
    PROVE  Alike(Fill(Tool, d), Fill(Tool, e))
<1>1. d.file = e.file /\ d.level = e.level
    BY DEF Alike
<1>2. \A a, m, b, l : Alike(Timed(d, a, m), Timed(e, b, l)) /\ Alike(Timed(d, a, m), e)
                      /\ Alike(d, Timed(e, b, l))
    BY AlikeTimed DEF Alike
<1>3. CASE Tool = "mkfile"
    <2>1. \A x : Fill(Tool, x) = Typed(config.mimes, x, x.file.ext)
        BY <1>3 DEF Fill
    <2> QED
        BY <1>1, <2>1, AlikeTyped
<1>4. CASE Tool \in {"mkmov", "mkpdf"}
    BY <1>2, <1>4 DEF Fill
<1>5. CASE Tool = "mknef"
    BY <1>1, <1>2, <1>5 DEF Fill
<1>6. CASE Tool = "mkhdk"
    <2> DEFINE r(x) == IF x.level = 0 THEN Timed(x, x.file.made, x.file.made) ELSE x
               b(x) == IF x.file.ext = ".bad" THEN Register(r(x), "invalid", "true") ELSE r(x)
               w(x) == OrZero(TimeHDK(x.file))
    <2>1. \A x : Fill(Tool, x) = IF b(x).acq = Zero THEN Timed(b(x), w(x), w(x)) ELSE b(x)
        <3>1. \A x : Fill(Tool, x) = Hadock(x)
            BY <1>6 DEF Fill
        <3>2. \A x : x.file = r(x).file
            BY DEF Timed
        <3> QED
            BY <3>1, <3>2 DEF Hadock
    <2>2. ASSUME NEW x \in DataType
          PROVE  Alike(Fill(Tool, x), x)
        <3>1. x.file \in FileType /\ x.file.made \in Nat
            BY FileParts DEF DataType
        <3>2. r(x) \in DataType /\ Alike(r(x), x)
            BY <3>1, TimedKeeps, AlikeTimed DEF Alike
        <3>3. "invalid" \in Strings /\ "true" \in Values
            BY DEF Strings, Words, Values
        <3> HIDE DEF r
        <3>4. b(x) \in DataType /\ Alike(b(x), x)
            BY <3>2, <3>3, RegisterKeeps, AlikeRegister DEF Alike
        <3> HIDE DEF b, w
        <3>5. Alike(Timed(b(x), w(x), w(x)), x)
            BY <3>4, AlikeTimed DEF Alike
        <3> QED
            BY <2>1, <3>4, <3>5
    <2> QED
        BY <2>2 DEF Alike
<1>7. CASE Tool = "mkicn"
    BY <1>2, <1>7 DEF Fill, Note
<1>8. CASE Tool \notin {"mkfile", "mkmov", "mkpdf", "mknef", "mkhdk", "mkicn"}
    BY <1>8 DEF Fill
<1> QED
    BY <1>3, <1>4, <1>5, <1>6, <1>7, <1>8

(* So does a tool that describes what it makes of them.                    *)
LEMMA AlikeDerived ==
    ASSUME NEW d \in DataType, NEW e \in DataType, Alike(d, e), NEW row \in RowType,
           NEW now \in Clock, NEW later \in Clock
    PROVE  Alike(Derived(d, row, now), Derived(e, row, later))
<1>1. CASE Tool = "mkicn"
    <2> DEFINE w == OrZero(row.when)
               m == [NoMime EXCEPT !.main = "text", !.sub = "plain"]
               y == "parameters table"
               t(x) == [Timed(x, w, w) EXCEPT !.type = y, !.mime = m]
               r(x) == Register(t(x), "science.run", row.upi)
    <2>1. row.file \in FileType /\ w \in Nat
        BY RowParts DEF OrZero, Zero
    <2>2. m \in MimeType /\ y \in Strings /\ "science.run" \in Strings /\ row.upi \in Values
        BY RowParts DEF NoMime, MimeType, Strings, Words, Values
    <2>3. \A x : Derived(x, row, now) = ReadFile(r(x), row.file, now)
                 /\ Derived(x, row, later) = ReadFile(r(x), row.file, later)
        BY <1>1 DEF Derived, Table
    <2> HIDE DEF w, m, y
    <2>4. ASSUME NEW x \in DataType
          PROVE  t(x) \in DataType /\ r(x) \in DataType /\ Alike(r(x), t(x))
        <3>1. Timed(x, w, w) \in DataType
            BY <2>1, TimedKeeps
        <3>2. t(x) \in DataType
            BY <2>2, <3>1 DEF DataType
        <3> HIDE DEF t
        <3> QED
            BY <2>2, <3>2, RegisterKeeps, AlikeRegister
    <2>5. Alike(t(d), t(e))
        <3>1. Alike(Timed(d, w, w), Timed(e, w, w))
            BY AlikeTimed DEF Alike
        <3> QED
            BY <3>1 DEF Alike, Timed, DataType
    <2> HIDE DEF r, t
    <2>6. Alike(r(d), r(e))
        BY <2>4, <2>5 DEF Alike
    <2> QED
        BY <2>1, <2>3, <2>4, <2>6, AlikeRead
<1>2. CASE Tool # "mkicn"
    <2>1. \A x, t : Derived(x, row, t) = Image(x, row)
        BY <1>2 DEF Derived
    <2>2. Alike(Image(d, row), Image(e, row))
        BY DEF Alike, Image, DataType
    <2> QED
        BY <2>1, <2>2
<1> QED
    BY <1>1, <1>2

(* The end of a count changes nothing but the parameters.                  *)
LEMMA SummarizedTerse ==
    ASSUME NEW c, NEW file, NEW d, NEW k, NEW w, Summarized(c, file, d, k, w)
    PROVE  Terse(d) = Terse(Upto(c, file, k, w))
<1> DEFINE u == Upto(c, file, k, w)
           e == Marked(u, file, k)
           tally == TallyUpto(file, k)
<1>1. \A z, name, value : Terse(Register(z, name, value)) = Terse(z)
    BY DEF Terse, Register
<1>2. Terse(e) = Terse(u)
    BY <1>1 DEF Marked
<1>3. \A x : Terse(Summary(e, x, k)) = Terse(e)
    BY <1>1 DEF Summary
<1>4. \A z, p : Terse([z EXCEPT !.params = p]) = Terse(z)
    BY DEF Terse
<1>5. SummaryOf(Tool, e, tally, d, k)
    BY DEF Summarized
<1> HIDE DEF e, tally
<1>6. Terse(d) = Terse(e)
    <2>1. CASE Tool # "mkmma"
        BY <1>3, <1>5, <2>1 DEF SummaryOf
    <2>2. CASE Tool = "mkmma"
        <3>1. PICK x, order : d = [Summary(e, x, k) EXCEPT !.params = @ \o RunParams(order, tally)]
            BY <1>5, <2>2 DEF SummaryOf
        <3> DEFINE z == Summary(e, x, k)
                   q == z.params \o RunParams(order, tally)
        <3>2. d = [z EXCEPT !.params = q]
            BY <3>1
        <3> HIDE DEF q
        <3>3. Terse(d) = Terse(z)
            BY <1>4, <3>2
        <3> QED
            BY <1>3, <3>3
    <2> QED
        BY <2>1, <2>2
<1> QED
    BY <1>2, <1>6

(* Two Data that are filled from equal files under equal sections are      *)
(* alike.                                                                  *)
LEMMA FilledAlike ==
    ASSUME NEW c, NEW file, Ready(c, file),
           NEW d \in DataType, Filled(c, file, d), NEW e \in DataType, Filled(c, file, e)
    PROVE  Alike(d, e)
<1> DEFINE b == Base(c)
<1>1. b \in DataType /\ file \in FileType
    BY BaseKeeps DEF Ready
<1>2. \A now \in Clock : ReadFile(b, file, now) \in DataType
    BY NewKeeps DEF Own
<1>3. \A now, later \in Clock : /\ Alike(ReadFile(b, file, now), ReadFile(b, file, later))
                                /\ Alike(New(c, file, now), New(c, file, later))
    <2>1. Alike(b, b)
        BY DEF Alike
    <2>2. \A now, later \in Clock : Alike(ReadFile(b, file, now), ReadFile(b, file, later))
        BY <1>1, <2>1, AlikeRead
    <2> QED
        BY <1>2, <2>2, AlikeFill DEF New
<1>4. ASSUME NEW x \in DataType, Filled(c, file, x)
      PROVE  \E now \in Clock : IF Tool = "mknef" THEN Alike(x, ReadFile(b, file, now))
                                ELSE Alike(x, New(c, file, now))
    <2>1. PICK w \in Readings : FilledAt(c, file, x, w)
        BY <1>4 DEF Filled
    <2>2. w[1] \in Clock
        BY DEF Readings
    <2>3. CASE Counting
        <3>1. PICK k \in Nat : Fine(file, k) /\ Summarized(c, file, x, k, w)
            BY <2>1, <2>3 DEF FilledAt
        <3> DEFINE u == Upto(c, file, k, w)
                   v == New(c, file, w[1])
        <3>2. u \in DataType /\ v \in DataType
            BY <2>2, <2>3, <3>1, NewKeeps, UptoKeeps DEF Own
        <3>3. Terse(x) = Terse(u) /\ Timed(u, 0, 0) = Timed(v, 0, 0)
            BY <2>3, <3>1, UptoKeeps, SummarizedTerse
        <3> HIDE DEF u, v
        <3>4. Alike(x, u)
            <4>1. \A z \in DataType : Alike(Terse(z), z)
                BY DEF Alike, Terse, DataType
            <4> QED
                BY <3>2, <3>3, <4>1 DEF Alike
        <3>5. Alike(x, v)
            BY <3>2, <3>3, <3>4, AlikeTimed DEF Alike
        <3> QED
            BY <2>2, <2>3, <3>5 DEF Counting, v
    <2>4. CASE ~ Counting /\ Tool = "mknef"
        <3>1. PICK a, m \in Nat : x = Timed(ReadFile(b, file, w[1]), a, m)
            BY <2>1, <2>4 DEF FilledAt
        <3> QED
            BY <1>2, <2>2, <2>4, <3>1, AlikeTimed
    <2>5. CASE ~ Counting /\ Tool # "mknef"
        <3>1. Alike(x, x) /\ x = New(c, file, w[1])
            BY <2>1, <2>5 DEF FilledAt, Alike
        <3> QED
            BY <2>2, <2>5, <3>1
    <2> QED
        BY <2>3, <2>4, <2>5
<1> HIDE DEF b
<1>5. PICK now \in Clock : IF Tool = "mknef" THEN Alike(d, ReadFile(b, file, now))
                           ELSE Alike(d, New(c, file, now))
    BY <1>4
<1>6. PICK later \in Clock : IF Tool = "mknef" THEN Alike(e, ReadFile(b, file, later))
                             ELSE Alike(e, New(c, file, later))
    BY <1>4
<1> QED
    BY <1>3, <1>5, <1>6 DEF Alike

(* They are equal when no clock was read for them, but for the parameters  *)
(* that may be any of several.                                             *)
LEMMA FilledIsOwn ==
    ASSUME NEW c, NEW file, Ready(c, file), c.func # "now",
           ~ (Tool = "mknef" /\ file.rows = << >>),
           NEW d, Filled(c, file, d), NEW e, Filled(c, file, e), Tool = "mkrt" => Known(d)
    PROVE  /\ Terse(d) = Terse(e)
           /\ Tool # "mkmma" /\ (Counting => d.acq <= d.mod) => d = e
<1>0. PICK w \in Readings : FilledAt(c, file, d, w)
    BY DEF Filled
<1>4. PICK v \in Readings : FilledAt(c, file, e, v)
    BY DEF Filled
<1>5. /\ w[1] \in Clock /\ v[1] \in Clock
      /\ ReadFile(Base(c), file, v[1]) = ReadFile(Base(c), file, w[1])
      /\ New(c, file, v[1]) = New(c, file, w[1])
    <2>1. w[1] \in Clock /\ v[1] \in Clock
        BY DEF Readings
    <2>2. Base(c) \in DataType /\ Base(c).func # "now" /\ file \in FileType
        BY BaseKeeps DEF Ready
    <2>3. ReadFile(Base(c), file, v[1]) = ReadFile(Base(c), file, w[1])
        BY <2>1, <2>2, ReadFileKeeps
    <2> QED
        BY <2>1, <2>3 DEF New
<1>1. CASE Counting
    <2>1. PICK k \in Nat : Fine(file, k) /\ EndsAt(file, k) /\ Summarized(c, file, d, k, w)
        BY <1>0, <1>1 DEF FilledAt
    <2>2. PICK l \in Nat : Fine(file, l) /\ EndsAt(file, l) /\ Summarized(c, file, e, l, v)
        BY <1>1, <1>4 DEF FilledAt
    <2>3. k = l
        BY <1>1, <2>1, <2>2, CountIsOwn DEF Ready
    <2> DEFINE u == Upto(c, file, k, w)
               m == Marked(u, file, k)
               t == Sub(m.mod, m.acq)
    <2>4. u \in DataType /\ Timely(m, u)
        <3>1. u \in DataType
            BY <1>1, <2>1, UptoKeeps DEF Own
        <3> QED
            BY <3>1, MarkedKeeps
    <2>6. d.acq = m.acq /\ d.mod = m.mod /\ m.acq \in Nat /\ m.mod \in Nat
          /\ d.type = New(c, file, w[1]).type
        <3>1. Timely(d, u) /\ d.type = u.type
            BY <1>1, <2>1, SummarizedKeeps
        <3>2. u.type = New(c, file, w[1]).type
            BY <1>1, <2>1, UptoKeeps
        <3> QED
            BY <2>4, <3>1, <3>2 DEF Timely, DataType
    <2>9. Upto(c, file, k, v) = u
        <3>1. \A row, x, y : TimeOfRow(New(c, file, w[1]), row, x) = TimeOfRow(New(c, file, w[1]), row, y)
            BY <2>6 DEF TimeOfRow, Known
        <3> QED
            BY <1>5, <3>1 DEF Upto
    <2>10. Terse(d) = Terse(e)
        BY <2>1, <2>2, <2>3, <2>9, SummarizedTerse
    <2>11. ASSUME Tool # "mkmma", d.acq <= d.mod
           PROVE  d = e
        <3>1. /\ \E x \in FormatDurationISO(t) : d = Summary(m, x, k)
              /\ \E x \in FormatDurationISO(t) : e = Summary(m, x, k)
            BY <2>1, <2>2, <2>3, <2>9, <2>11 DEF Summarized, SummaryOf
        <3> HIDE DEF m
        <3>2. t \in Int /\ t >= 0
            BY <2>6, <2>11, TimesAssumption DEF Sub, Zero
        <3>3. PICK x : FormatDurationISO(t) = {x}
            BY <3>2, DurationTypes
        <3> QED
            BY <3>1, <3>3
    <2> QED
        BY <1>1, <2>10, <2>11
<1>2. CASE ~ Counting /\ Tool = "mknef"
    BY <1>0, <1>2, <1>4, <1>5 DEF FilledAt
<1>3. CASE ~ Counting /\ Tool # "mknef"
    BY <1>0, <1>3, <1>4, <1>5 DEF FilledAt
<1> QED
    BY <1>1, <1>2, <1>3

(* What is made of a Data is the same at any time, but for timefunc "now". *)
LEMMA DerivedIsOwn ==
    ASSUME NEW d \in DataType, d.func # "now", NEW row \in RowType,
           NEW now \in Clock, NEW later \in Clock
    PROVE  Derived(d, row, now) = Derived(d, row, later)
<1>1. CASE Tool = "mkicn"
    <2> DEFINE w == OrZero(row.when)
               m == [NoMime EXCEPT !.main = "text", !.sub = "plain"]
               y == "parameters table"
               t == [Timed(d, w, w) EXCEPT !.type = y, !.mime = m]
               r == Register(t, "science.run", row.upi)
    <2>1. row.file \in FileType /\ w \in Nat
        BY RowParts DEF OrZero, Zero
    <2>2. m \in MimeType /\ y \in Strings /\ "science.run" \in Strings /\ row.upi \in Values
        BY RowParts DEF NoMime, MimeType, Strings, Words, Values
    <2>3. \A x : Derived(d, row, x) = ReadFile(r, row.file, x)
        BY <1>1 DEF Derived, Table
    <2> HIDE DEF w, m, y
    <2>4. Timed(d, w, w) \in DataType /\ Timed(d, w, w).func = d.func
        BY <2>1, TimedKeeps DEF Same
    <2>5. t \in DataType /\ t.func = d.func
        BY <2>2, <2>4 DEF DataType
    <2> HIDE DEF t
    <2>6. r \in DataType /\ r.func = d.func
        BY <2>2, <2>5, RegisterKeeps DEF Same
    <2> HIDE DEF r
    <2> QED
        BY <2>1, <2>3, <2>6, ReadFileKeeps
<1>2. CASE Tool # "mkicn"
    BY <1>2 DEF Derived
<1> QED
    BY <1>1, <1>2

(* The place of a Data has nothing to do with its parameters, nor have the *)
(* increments.                                                             *)
LEMMA TerseUpdate ==
    ASSUME NEW d \in DataType, NEW e \in DataType, Terse(d) = Terse(e)
    PROVE  /\ Terse(update(d)) = Terse(update(e))
           /\ Resolve(d.pattern, update(d)) = Resolve(e.pattern, update(e))
<1>1. \A z \in DataType : z.acq = Terse(z).acq /\ z.incs = Terse(z).incs /\ z.pattern = Terse(z).pattern
    BY DEF Terse, DataType
<1>2. ASSUME NEW z \in DataType
      PROVE  update(z) = [z EXCEPT !.incs = update(Terse(z)).incs]
    BY DEF update, Terse, DataType
<1>3. ASSUME NEW z \in DataType
      PROVE  Terse(update(z)) = update(Terse(z))
    BY DEF update, Terse, DataType
<1>4. Terse(update(d)) = Terse(update(e)) /\ d.pattern = e.pattern
    BY <1>1, <1>3
<1>5. ASSUME NEW z \in DataType, NEW piece
      PROVE  Piece(piece, update(z)) = Piece(piece, Terse(update(z)))
    <2> DEFINE y == update(z)
               x == Terse(update(z))
    <2>1. /\ y.source = x.source /\ y.model = x.model /\ y.mime = x.mime /\ y.type = x.type
          /\ y.level = x.level /\ y.acq = x.acq /\ y.file = x.file
        BY DEF update, Terse, DataType
    <2> HIDE DEF y, x
    <2>2. \A name : Fragment(name, y) = Fragment(name, x)
        BY <2>1 DEF Fragment
    <2>3. Piece(piece, y) = Piece(piece, x)
        BY <2>1, <2>2 DEF Piece
    <2> QED
        BY <2>3 DEF y, x
<1>6. \A piece : Piece(piece, update(d)) = Piece(piece, update(e))
    BY <1>4, <1>5
<1>7. \A seg : Segment(seg, update(d)) = Segment(seg, update(e))
    BY <1>6 DEF Segment
<1> QED
    BY <1>4, <1>7 DEF Resolve

(* Documents are their own since each is what its section and file give.   *)
LEMMA OwnFollows ==
    IInv => DocumentsAreOwn
<1> SUFFICES ASSUME IInv, NEW x \in docs, NEW y \in docs,
                    Configured(x) = Configured(y), FileOf(x) = FileOf(y), x.row = y.row
             PROVE  /\ Undated(x.data) = Undated(y.data)
                    /\ ~ Clocked(x) /\ ~ Timeless(x) =>
                         /\ Terse(x.data) = Terse(y.data) /\ x.place = y.place
                         /\ Tool # "mkmma" /\ Ordered(x) => x.data = y.data
    BY DEF DocumentsAreOwn
<1> DEFINE c == Configured(x)
           file == FileOf(x)
           Part(d, now) == IF x.row = 0 THEN d ELSE Derived(d, file.rows[x.row], now)
<1>1. /\ Ready(c, file) /\ (x.row # 0 => ~ Counting /\ file.rows[x.row] \in RowType)
      /\ x.place = Resolve(x.data.pattern, x.data)
    <2>1. x.row # 0 => x.row \in DOMAIN file.rows
        BY DEF IInv, IsDocument
    <2>2. /\ Ready(c, file) /\ (x.row # 0 => ~ Counting)
          /\ x.place = Resolve(x.data.pattern, x.data)
        BY DocumentParts
    <2> QED
        BY <2>1, <2>2, FileParts DEF Ready
<1>2. PICK d \in DataType, now \in Clock :
        Filled(c, file, d) /\ Own(d, c, file) /\ x.data = update(Part(d, now))
    BY DocumentParts
<1>3. PICK e \in DataType, later \in Clock :
        Filled(c, file, e) /\ Own(e, c, file) /\ y.data = update(Part(e, later))
    <2>1. \E e \in DataType, later \in Clock :
             /\ Filled(Configured(y), FileOf(y), e) /\ Own(e, Configured(y), FileOf(y))
             /\ y.data = update(IF y.row = 0 THEN e ELSE Derived(e, FileOf(y).rows[y.row], later))
        BY DocumentParts
    <2> QED
        BY <2>1
<1>4. y.place = Resolve(y.data.pattern, y.data)
    BY DocumentParts
<1>5. /\ Part(d, now) \in DataType /\ Part(e, later) \in DataType
      /\ \A z \in DataType : update(z) \in DataType /\ update(z).pattern = z.pattern
    BY <1>1, DerivedKeeps, UpdateKeeps DEF Ready
<1>6. Undated(x.data) = Undated(y.data)
    <2>1. Alike(d, e)
        BY <1>1, <1>2, <1>3, FilledAlike
    <2>2. Alike(Part(d, now), Part(e, later))
        BY <1>1, <2>1, AlikeDerived
    <2> HIDE DEF Part
    <2>3. Alike(update(Part(d, now)), update(Part(e, later)))
        BY <1>5, <2>2, AlikeUpdate DEF Alike
    <2> QED
        BY <1>2, <1>3, <1>5, <2>3, AlikeUndated
<1>7. ASSUME ~ Clocked(x), ~ Timeless(x)
      PROVE  /\ Terse(x.data) = Terse(y.data) /\ x.place = y.place
             /\ Tool # "mkmma" /\ Ordered(x) => x.data = y.data
    <2>1. c.func # "now" /\ d.func = c.func /\ ~ (Tool = "mknef" /\ file.rows = << >>)
        BY <1>2, <1>7 DEF Clocked, Timeless, Own
    <2>2. ASSUME Counting
          PROVE  Part(d, now) = d /\ Timely(x.data, d) /\ x.data.type = d.type
        BY <1>1, <1>2, <2>2, UpdateKeeps DEF Ready
    <2>3. Tool = "mkrt" => Known(d)
        BY <1>7, <2>2 DEF Clocked, Counting, Known
    <2>4. Counting /\ Ordered(x) => d.acq <= d.mod
        BY <2>2 DEF Ordered, Timely
    <2>5. /\ Terse(d) = Terse(e)
          /\ Tool # "mkmma" /\ (Counting => d.acq <= d.mod) => d = e
        <3> HIDE DEF c, file
        <3> QED
            BY <1>1, <1>2, <1>3, <2>1, <2>3, FilledIsOwn
    <2>6. d = e => Part(d, now) = Part(e, later)
        BY <1>1, <2>1, DerivedIsOwn
    <2>7. Terse(Part(d, now)) = Terse(Part(e, later))
        <3>1. CASE Counting
            BY <1>1, <2>5, <3>1
        <3>2. CASE ~ Counting
            BY <2>5, <2>6, <3>2 DEF Counting
        <3> QED
            BY <3>1, <3>2
    <2> HIDE DEF Part
    <2>8. Terse(x.data) = Terse(y.data) /\ x.place = y.place
        BY <1>1, <1>2, <1>3, <1>4, <1>5, <2>7, TerseUpdate
    <2>9. Tool # "mkmma" /\ Ordered(x) => x.data = y.data
        BY <1>2, <1>3, <2>4, <2>5, <2>6
    <2> QED
        BY <2>8, <2>9
<1> QED
    BY <1>6, <1>7

(* Nothing of one file gets into the document of another: documents of     *)
(* equal files under equal sections are equal in all but times, increments *)
(* and parameters, and in these as well, and in their place, unless the    *)
(* clock was read, mknef found no image or the parameters may be any of    *)
(* several (Build, collectData, Clone).                                    *)
THEOREM DocumentsAlwaysOwn ==
    Spec => []DocumentsAreOwn
BY SectionsInvariant, OwnFollows, PTL
----------------------------------------------------------------------------
(* What a range should take is what it takes.                              *)
LEMMA ChosenIs ==
    ASSUME NEW dirs \in Seq(Int), NEW piece, piece.from \in Int, piece.to \in Int,
           Chosen(piece, dirs) # << >>
    PROVE  RangeOf(piece, dirs) = << <<"dirs", Chosen(piece, dirs)>> >>
<1> DEFINE named == {k \in DOMAIN dirs : Bound(piece.from, dirs) < k /\ k <= Bound(piece.to, dirs)}
           nth(j) == CHOOSE k \in named : Cardinality({l \in named : l <= k}) = j
<1>1. Chosen(piece, dirs) = [j \in 1 .. Cardinality(named) |-> dirs[nth(j)]]
    BY DEF Chosen
<1>2. named # {}
    <2>1. SUFFICES ASSUME named = {}
                   PROVE  FALSE
        OBVIOUS
    <2> HIDE DEF named
    <2>2. Cardinality(named) = 0
        BY <2>1, FS_EmptySet
    <2>3. Chosen(piece, dirs) = << >>
        BY <1>1, <2>2
    <2> QED
        BY <2>3
<1>3. \E first \in 0 .. Len(dirs) - 1 : \E len \in 1 .. Len(dirs) - first :
        /\ named = first + 1 .. first + len
        /\ RangeOf(piece, dirs) = << <<"dirs", [j \in 1 .. len |-> dirs[first + j]]>> >>
    BY <1>2, RangeTakes
<1> HIDE DEF named
<1>4. PICK first \in 0 .. Len(dirs) - 1 : \E len \in 1 .. Len(dirs) - first :
        /\ named = first + 1 .. first + len
        /\ RangeOf(piece, dirs) = << <<"dirs", [j \in 1 .. len |-> dirs[first + j]]>> >>
    BY <1>3
<1>5. PICK len \in 1 .. Len(dirs) - first :
        /\ named = first + 1 .. first + len
        /\ RangeOf(piece, dirs) = << <<"dirs", [j \in 1 .. len |-> dirs[first + j]]>> >>
    BY <1>4
<1>6. first \in Nat /\ len \in Nat
    OBVIOUS
<1>7. ASSUME NEW i \in 0 .. len
      PROVE  Cardinality(first + 1 .. first + i) = i
    BY <1>6, FS_Interval
<1>8. Cardinality(named) = len
    BY <1>5, <1>6, <1>7
<1>9. ASSUME NEW j \in 1 .. len
      PROVE  nth(j) = first + j
    <2>1. ASSUME NEW k \in named
          PROVE  Cardinality({l \in named : l <= k}) = k - first
        <3>1. k - first \in 0 .. len /\ {l \in named : l <= k} = first + 1 .. first + (k - first)
            BY <1>5, <1>6
        <3> QED
            BY <1>7, <3>1
    <2>2. first + j \in named /\ \A k \in named : k - first = j => k = first + j
        BY <1>5, <1>6
    <2> QED
        BY <1>6, <2>1, <2>2
<1> HIDE DEF nth
<1>10. Chosen(piece, dirs) = [j \in 1 .. len |-> dirs[first + j]]
    BY <1>1, <1>8, <1>9
<1> QED
    BY <1>5, <1>10

(* No piece of a pattern takes anything but what it should.                *)
LEMMA ExpectedIs ==
    ASSUME NEW piece, piece.from \in Int, piece.to \in Int, NEW d, d.file.dirs \in Seq(Int)
    PROVE  Expected(piece, d) = Piece(piece, d)
<1>1. piece.is = "range" => Piece(piece, d) = RangeOf(piece, d.file.dirs)
    BY DEF Piece
<1> QED
    BY <1>1, ChosenIs DEF Expected

(* Where a document goes follows from the pattern and the file it kept.    *)
LEMMA PlacesFollow ==
    IInv => PlacesAgree
<1> SUFFICES ASSUME IInv, NEW x \in docs
             PROVE  Placed(x)
    BY DEF IInv, PlacesAgree
<1> DEFINE c == Configured(x)
           file == FileOf(x)
           pattern == x.data.pattern
<1>1. /\ Ready(c, file) /\ (x.row # 0 => Tool # "mkfile")
      /\ x.place = Resolve(pattern, x.data)
    BY DocumentParts
<1>2. PICK d, e \in DataType, now \in Clock :
        /\ Filled(c, file, d) /\ Own(d, c, file)
        /\ e = IF x.row = 0 THEN d ELSE Derived(d, file.rows[x.row], now)
        /\ x.data = update(e)
    BY DocumentParts
<1>3. x.data \in DataType /\ x.data.file = e.file /\ x.data.acq = e.acq
    BY <1>1, <1>2, UpdateKeeps DEF Ready, Timely
<1>4. pattern \in Pattern /\ x.data.file \in FileType
    BY <1>3 DEF DataType
<1>5. ASSUME NEW k \in DOMAIN pattern, NEW l \in DOMAIN pattern[k]
      PROVE  Expected(pattern[k][l], x.data) = Piece(pattern[k][l], x.data)
    BY <1>4, PieceParts, FileParts, ExpectedIs
<1>6. x.place = Join([k \in DOMAIN pattern |->
                        FlattenSeq([l \in DOMAIN pattern[k] |-> Expected(pattern[k][l], x.data)])])
    <2>1. ASSUME NEW k \in DOMAIN pattern
          PROVE  Segment(pattern[k], x.data) =
                   FlattenSeq([l \in DOMAIN pattern[k] |-> Expected(pattern[k][l], x.data)])
        <3>1. [l \in DOMAIN pattern[k] |-> Expected(pattern[k][l], x.data)] =
                [l \in DOMAIN pattern[k] |-> Piece(pattern[k][l], x.data)]
            BY <1>5
        <3> QED
            BY <3>1 DEF Segment
    <2> QED
        BY <1>1, <2>1 DEF Resolve
<1>7. ASSUME c.func = "year.doy", c.acq = Zero, Tool = "mkfile", TimeYearDoy(file) >= 0
      PROVE  /\ Fragment("year", x.data) = << <<"4", Last(file.dirs)>> >>
             /\ Fragment("doy", x.data) = << <<"3", file.base[1]>> >>
    <2>1. x.row = 0 /\ ~ Counting
        BY <1>1, <1>7 DEF Counting
    <2>2. PICK w \in Readings : d = New(c, file, w[1]) /\ e = d
        BY <1>2, <1>7, <2>1 DEF Filled, FilledAt
    <2>3. /\ Base(c) \in DataType /\ Base(c).func = "year.doy" /\ Base(c).acq = Zero
        BY <1>1, <1>7, BaseKeeps DEF Ready
    <2>4. w[1] \in Clock /\ GetTime("year.doy", file, w[1]) = TimeYearDoy(file)
        BY DEF GetTime, Readings
    <2>5. x.data.file = file /\ x.data.acq = TimeYearDoy(file)
        <3>1. ReadFile(Base(c), file, w[1]).acq = TimeYearDoy(file)
            BY <1>1, <1>7, <2>3, <2>4, ReadFileKeeps DEF Ready
        <3>2. New(c, file, w[1]).acq = ReadFile(Base(c), file, w[1]).acq
            BY <1>1, <1>7, <2>4, NewKeeps
        <3> QED
            BY <1>2, <1>3, <2>2, <3>1, <3>2 DEF Own
    <2>6. file.dirs \in Seq(Int) /\ file.dirs # << >> /\ file.base \in Seq(Int)
        BY <1>1, FileParts DEF Ready
    <2>7. x.data.acq # Failed
        BY <1>7, <2>5 DEF Failed
    <2> HIDE DEF file
    <2> QED
        BY <2>5, <2>6, <2>7, PlacedWhereFound DEF Last
<1>8. ASSUME c.func = "year.doy", c.acq = Zero, Tool = "mkfile", TimeYearDoy(file) >= 0,
             NEW k \in DOMAIN pattern, NEW l \in DOMAIN pattern[k], pattern[k][l].is = "name"
      PROVE  /\ pattern[k][l].text = "year" =>
                  Expected(pattern[k][l], x.data) = << <<"4", Last(file.dirs)>> >>
             /\ pattern[k][l].text = "doy" =>
                  Expected(pattern[k][l], x.data) = << <<"3", file.base[1]>> >>
    <2>1. Expected(pattern[k][l], x.data) = Fragment(pattern[k][l].text, x.data)
        BY <1>5, <1>8 DEF Piece
    <2> QED
        BY <1>7, <1>8, <2>1
<1> QED
    BY <1>6, <1>8 DEF Placed

(* Files go where their pattern says, and only what is wrong with a        *)
(* pattern or a name ends the command (ParseResolver, Resolve, GetTime).   *)
THEOREM PlacesAlwaysAgree ==
    Spec => []PlacesAgree
BY SectionsInvariant, PlacesFollow, PTL
----------------------------------------------------------------------------
(* The value of a name is that of its last parameter.                      *)
LEMMA LastOfName ==
    ASSUME NEW p \in Seq(Params), NEW name, NEW j \in DOMAIN p,
           p[j][1] = name, \A l \in DOMAIN p : l > j => p[l][1] # name
    PROVE  Value(p, name) = p[j][2]
<1> DEFINE at == {k \in DOMAIN p : p[k][1] = name}
<1>1. j \in at /\ \A l \in at : j >= l
    <2>1. \A l \in DOMAIN p : l > j \/ j >= l
        OBVIOUS
    <2> QED
        BY <2>1
<1>2. \A l \in at : l \in Int /\ (l >= j => l = j)
    BY <1>1
<1> HIDE DEF at
<1>3. Max(at) = j
    BY <1>1, <1>2 DEF Max
<1> QED
    BY <1>3 DEF Value, at

(* The text of a duration that is not zero names a unit.                   *)
LEMMA NoneOf ==
    ASSUME NEW b, NEW d, NEW h, NEW m, NEW x
    PROVE  [day |-> d, hour |-> h, min |-> m, sec |-> x, none |-> b].none = b
OBVIOUS

LEMMA UnitNamed ==
    ASSUME NEW sec, NEW exact \in BOOLEAN, sec # 0 \/ exact
    PROVE  ~ Text(sec, exact).none
<1> DEFINE b == (sec = 0 /\ ~ exact)
           d == sec \div 86400
           h == (sec \div 3600) % 24
           m == (sec \div 60) % 60
           x == sec % 60
<1>1. ~ b
    OBVIOUS
<1> HIDE DEF b
<1>2. Text(sec, exact) = [day |-> d, hour |-> h, min |-> m, sec |-> x, none |-> b]
    BY DEF Text, b
<1> HIDE DEF d, h, m, x
<1>3. [day |-> d, hour |-> h, min |-> m, sec |-> x, none |-> b].none = b
    BY NoneOf
<1>4. Text(sec, exact).none = b
    BY <1>2, <1>3, Zenon
<1> QED
    BY <1>1, <1>4

(* The text of a duration that is positive.                                *)
LEMMA DurationText ==
    ASSUME NEW t \in Int, t > 0
    PROVE  FormatDurationISO(t) = {Text(t \div 2, FALSE)}
<1>1. t # 0
    OBVIOUS
<1>2. FormatDurationISO(t) = {Text(sec, FALSE) : sec \in Seconds(t)}
    BY <1>1 DEF FormatDurationISO
<1>3. Seconds(t) = {t \div 2}
    BY DEF Seconds, Second
<1> QED
    BY <1>2, <1>3

(* The text of a duration says what it is, to the second.                  *)
LEMMA DurationSays ==
    ASSUME NEW t \in Int, NEW text \in FormatDurationISO(t)
    PROVE  Says(text, t)
<1> SUFFICES ASSUME t >= 0
             PROVE  /\ Worth(text) = t \div Second
                    /\ t = 0 \/ t >= Second => Proper(text)
    BY DEF Says, Second
<1>1. CASE t = 0
    <2>1. text = Text(0, TRUE)
        BY <1>1 DEF FormatDurationISO
    <2>2. ~ text.none
        BY <2>1, UnitNamed
    <2>3. Worth(text) = 0 /\ text.hour \in 0 .. 23 /\ text.min \in 0 .. 59 /\ text.sec \in 0 .. 59
        BY <2>1, DurationsReadBack
    <2>4. Proper(text)
        BY <2>2, <2>3 DEF Proper
    <2> QED
        BY <1>1, <2>3, <2>4 DEF Second
<1>2. CASE t > 0
    <2> DEFINE sec == t \div 2
    <2>1. sec \in Nat /\ t \div Second = sec /\ (t >= Second => sec # 0)
        BY <1>2 DEF Second
    <2>2. text = Text(sec, FALSE)
        BY <1>2, DurationText
    <2> HIDE DEF sec
    <2>3. t >= Second => ~ text.none
        BY <2>1, <2>2, UnitNamed
    <2>4. Worth(text) = sec /\ text.hour \in 0 .. 23 /\ text.min \in 0 .. 59 /\ text.sec \in 0 .. 59
        BY <2>1, <2>2, DurationsReadBack
    <2>5. t >= Second => Proper(text)
        BY <2>3, <2>4 DEF Proper
    <2> QED
        BY <1>2, <2>1, <2>4, <2>5
<1> QED
    BY <1>1, <1>2

(* Where the parameters of a table are.                                    *)
TableParams(p, m, len, text, k) ==
    /\ p \in Seq(Params) /\ m \in Nat /\ len \in Nat
    /\ DOMAIN p = 1 .. m + 2 + len
    /\ \A j \in 1 .. m : p[j] \in Pairs
    /\ p[m + 1] = <<"duration", text>> /\ p[m + 2] = <<"numrec", k>>

(* Where the parameters of a summary stand.                                *)
LEMMA ParamsAre ==
    ASSUME NEW base \in Seq(Pairs), NEW D, NEW N, NEW tail \in Seq(Params), NEW p,
           p = Append(Append(base, D), N) \o tail
    PROVE  /\ DOMAIN p = 1 .. Len(base) + 2 + Len(tail)
           /\ \A j \in 1 .. Len(base) : p[j] \in Pairs /\ p[j] = base[j]
           /\ p[Len(base) + 1] = D /\ p[Len(base) + 2] = N
           /\ \A j \in 1 .. Len(tail) : p[Len(base) + 2 + j] = tail[j]
<1> DEFINE m == Len(base)
           T == Pairs \cup Params \cup {D, N}
<1>1. m \in Nat /\ Len(tail) \in Nat /\ \A j \in 1 .. m : base[j] \in Pairs
    OBVIOUS
<1>2. base \in Seq(T) /\ tail \in Seq(T) /\ D \in T /\ N \in T
    <2>1. Pairs \subseteq T /\ Params \subseteq T
        OBVIOUS
    <2> HIDE DEF T
    <2> QED
        <3>1. base \in Seq(T) /\ tail \in Seq(T)
            BY <2>1
        <3> QED
            BY <3>1 DEF T
<1>3. p = Append(Append(base, D), N) \o tail
    OBVIOUS
<1> HIDE DEF T
<1>4. DOMAIN p = 1 .. m + 2 + Len(tail)
    BY <1>1, <1>2, <1>3
<1>5. /\ \A j \in 1 .. m : p[j] = base[j]
      /\ p[m + 1] = D /\ p[m + 2] = N
      /\ \A j \in 1 .. Len(tail) : p[m + 2 + j] = tail[j]
    BY <1>1, <1>2, <1>3
<1> QED
    BY <1>1, <1>4, <1>5

(* What the parameters of a summary say, with those of the runs behind.    *)
LEMMA ParamsSay ==
    ASSUME NEW p, NEW m, NEW len, NEW text, NEW k, TableParams(p, m, len, text, k),
           \A j \in 1 .. len : p[m + 2 + j][1] \notin {"numrec", "duration", "invalid"}
    PROVE  /\ Value(p, "duration") = text /\ Value(p, "numrec") = k
           /\ m > 0 /\ p[m] = <<"invalid", "true">> => Value(p, "invalid") = "true"
<1> p \in Seq(Params) /\ m \in Nat /\ len \in Nat /\ DOMAIN p = 1 .. m + 2 + len
    BY DEF TableParams
<1>1. ASSUME NEW l \in DOMAIN p, l > m + 2
      PROVE  p[l][1] \notin {"numrec", "duration", "invalid"}
    <2>1. l - (m + 2) \in 1 .. len /\ l = m + 2 + (l - (m + 2))
        BY <1>1
    <2> QED
        BY <2>1
<1>2. /\ m + 1 \in DOMAIN p /\ p[m + 1][1] = "duration" /\ p[m + 1][2] = text
      /\ m + 2 \in DOMAIN p /\ p[m + 2][1] = "numrec" /\ p[m + 2][2] = k
    BY DEF TableParams
<1>3. ASSUME NEW l \in DOMAIN p
      PROVE  /\ l > m + 1 => l = m + 2 \/ l > m + 2
             /\ l > m => l = m + 1 \/ l = m + 2 \/ l > m + 2
    OBVIOUS
<1>4. Value(p, "duration") = text
    <2>1. \A l \in DOMAIN p : l > m + 1 => p[l][1] # "duration"
        BY <1>1, <1>2, <1>3
    <2> QED
        BY <1>2, <2>1, LastOfName
<1>5. Value(p, "numrec") = k
    <2>1. \A l \in DOMAIN p : l > m + 2 => p[l][1] # "numrec"
        BY <1>1
    <2> QED
        BY <1>2, <2>1, LastOfName
<1>6. ASSUME m > 0, p[m] = <<"invalid", "true">>
      PROVE  Value(p, "invalid") = "true"
    <2>1. m \in DOMAIN p /\ p[m][1] = "invalid" /\ p[m][2] = "true"
        BY <1>6
    <2>2. \A l \in DOMAIN p : l > m => p[l][1] # "invalid"
        BY <1>1, <1>2, <1>3
    <2> QED
        BY <2>1, <2>2, LastOfName
<1> QED
    BY <1>4, <1>5, <1>6

(* The rows that count are those ahead of the first that is not fine.      *)
LEMMA CountedAre ==
    ASSUME NEW x, FileOf(x) \in FileType, Counting,
           NEW k \in Nat, Fine(FileOf(x), k), EndsAt(FileOf(x), k)
    PROVE  Counted(x) = 1 .. k /\ Cardinality(Counted(x)) = k
<1> DEFINE rws == FileOf(x).rows
<1>1. Len(rws) \in Nat /\ DOMAIN rws = 1 .. Len(rws) /\ k \in 0 .. Len(rws)
    BY FileParts DEF Fine
<1>2. \A l \in 1 .. k : rws[l].is = "row"
    BY DEF Fine
<1>3. k < Len(rws) => rws[k + 1].is # "row"
    BY DEF EndsAt
<1>4. Counted(x) = {j \in DOMAIN rws : \A l \in 1 .. j : rws[l].is = "row"}
    BY DEF Counted
<1> HIDE DEF rws
<1>5. ASSUME NEW j \in DOMAIN rws, \A l \in 1 .. j : rws[l].is = "row"
      PROVE  j \in 1 .. k
    <2>1. CASE j <= k
        BY <1>1, <2>1
    <2>2. CASE j > k
        BY <1>1, <1>3, <1>5, <2>2
    <2> QED
        BY <1>1, <2>1, <2>2
<1>6. ASSUME NEW j \in 1 .. k
      PROVE  j \in DOMAIN rws /\ \A l \in 1 .. j : rws[l].is = "row"
    BY <1>1, <1>2
<1>7. Counted(x) = 1 .. k
    BY <1>4, <1>5, <1>6
<1> QED
    BY <1>7, FS_Interval

(* A pair is no numbered parameter of a run.                               *)
LEMMA PairHasTwo ==
    ASSUME NEW q \in Pairs
    PROVE  Len(q) # 3
<1>1. PICK a \in Strings, b \in Values : q = <<a, b>>
    BY DEF Pairs
<1> QED
    BY <1>1

(* The parameters of the runs of mkmma say each run once.                  *)
LEMMA RunsSay ==
    ASSUME NEW x, FileOf(x) \in FileType, Counting,
           NEW k \in Nat, Fine(FileOf(x), k), EndsAt(FileOf(x), k),
           NEW m, NEW len, NEW D, NEW N, TableParams(x.data.params, m, len, D, N),
           NEW tail, len = Len(tail), \A j \in 1 .. len : x.data.params[m + 2 + j] = tail[j],
           NEW order \in SetToSeqs(DOMAIN TallyUpto(FileOf(x), k)),
           tail = RunParams(order, TallyUpto(FileOf(x), k))
    PROVE  RunsAddUp(x)
<1> DEFINE file == FileOf(x)
           tally == TallyUpto(file, k)
           S == DOMAIN tally
           size == Len(order)
           p == x.data.params
           rs == {j \in DOMAIN p : Len(p[j]) = 3 /\ p[j][1] = "run"}
<1>1. /\ S \subseteq STRING /\ S = Upis(file, k) /\ \A u \in S : tally[u] \in Nat
      /\ order \in Seq(S) /\ {order[l] : l \in 1 .. size} = S
      /\ tail = RunParams(order, tally)
    BY TallyKeeps
<1>2. Counted(x) = 1 .. k
    BY CountedAre
<1> m \in Nat /\ len \in Nat
    BY DEF TableParams
<1>3. /\ DOMAIN p = 1 .. m + 2 + len
      /\ \A j \in 1 .. m : p[j] \in Pairs
      /\ p[m + 1] = <<"duration", D>> /\ p[m + 2] = <<"numrec", N>>
      /\ \A j \in 1 .. len : p[m + 2 + j] = tail[j]
    BY DEF TableParams
<1> HIDE DEF file, tally, S, p
<1>4. \A l \in 1 .. size : order[l] \in S
    BY <1>1
<1>5. /\ len = 3 * size
      /\ \A l \in 1 .. size :
           /\ tail[3 * l - 2] = <<"run", l, order[l]>>
           /\ tail[3 * l - 1] = <<"run.numrec", l, tally[order[l]]>>
           /\ \E y \in FormatDurationISO(tally[order[l]] * Between) :
                tail[3 * l] = <<"run.duration", l, y>>
      /\ \A j \in 1 .. len : tail[j][1] = "run" => \E l \in 1 .. size : j = 3 * l - 2
    <2>1. S \in SUBSET STRING /\ order \in Seq(S) /\ (\A u \in S : tally[u] \in Nat)
        BY <1>1
    <2>2. RunsGiven(tail, order, tally)
        BY <1>1, <2>1, RunParamsAre
    <2> QED
        BY <2>2 DEF RunsGiven
<1>6. ASSUME NEW l \in 1 .. size
      PROVE  /\ m + 3 * l \in DOMAIN p /\ p[m + 3 * l] = <<"run", l, order[l]>>
             /\ p[m + 3 * l][3] = order[l]
             /\ p[m + 3 * l + 1] = <<"run.numrec", l, tally[order[l]]>>
             /\ \E y \in FormatDurationISO(tally[order[l]] * Between) :
                  p[m + 3 * l + 2] = <<"run.duration", l, y>>
    <2>1. size \in Nat /\ l \in Nat /\ l >= 1 /\ l <= size
        BY <1>1
    <2>2. /\ 3 * l - 2 \in 1 .. len /\ 3 * l - 1 \in 1 .. len /\ 3 * l \in 1 .. len
          /\ m + 2 + (3 * l - 2) = m + 3 * l /\ m + 2 + (3 * l - 1) = m + 3 * l + 1
          /\ m + 2 + 3 * l = m + 3 * l + 2 /\ m + 3 * l \in 1 .. m + 2 + len
        BY <1>5, <2>1
    <2>3. /\ p[m + 3 * l] = tail[3 * l - 2] /\ p[m + 3 * l + 1] = tail[3 * l - 1]
          /\ p[m + 3 * l + 2] = tail[3 * l]
        BY <1>3, <2>2
    <2>4. p[m + 3 * l] = <<"run", l, order[l]>>
        BY <1>5, <2>3
    <2>5. p[m + 3 * l][3] = order[l]
        BY <2>4
    <2> QED
        BY <1>3, <1>5, <2>2, <2>3, <2>4, <2>5
<1>7. rs = {m + 3 * l : l \in 1 .. size}
    <2>1. ASSUME NEW j \in DOMAIN p, Len(p[j]) = 3, p[j][1] = "run"
          PROVE  \E l \in 1 .. size : j = m + 3 * l
        <3>1. j > m
            <4> SUFFICES ASSUME j \in 1 .. m
                         PROVE  FALSE
                BY <1>3
            <4>2. p[j] \in Pairs
                BY <1>3
            <4>3. Len(p[j]) # 3
                BY <4>2, PairHasTwo
            <4> QED
                BY <2>1, <4>3
        <3>2. j # m + 1 /\ j # m + 2
            BY <1>3, <2>1
        <3>3. j - (m + 2) \in 1 .. len /\ j = m + 2 + (j - (m + 2))
            BY <1>3, <3>1, <3>2
        <3>4. tail[j - (m + 2)][1] = "run"
            BY <1>3, <2>1, <3>3
        <3>5. PICK l \in 1 .. size : j - (m + 2) = 3 * l - 2
            BY <1>5, <3>3, <3>4
        <3>6. j = m + 3 * l
            BY <1>1, <3>3, <3>5
        <3> QED
            BY <3>6
    <2>2. ASSUME NEW l \in 1 .. size
          PROVE  m + 3 * l \in rs
        <3>1. p[m + 3 * l] = <<"run", l, order[l]>>
            BY <1>6
        <3>2. Len(p[m + 3 * l]) = 3 /\ p[m + 3 * l][1] = "run"
            BY <3>1
        <3> QED
            BY <1>6, <3>2
    <2> QED
        BY <2>1, <2>2
<1> HIDE DEF rs
<1>8. {p[j][3] : j \in rs} = {file.rows[l].upi : l \in Counted(x)}
    <2>1. ASSUME NEW j \in rs
          PROVE  p[j][3] \in {order[l] : l \in 1 .. size}
        <3>1. PICK l \in 1 .. size : j = m + 3 * l
            BY <1>7
        <3> QED
            BY <1>6, <3>1
    <2>2. ASSUME NEW l \in 1 .. size
          PROVE  order[l] \in {p[j][3] : j \in rs}
        <3>1. m + 3 * l \in rs /\ p[m + 3 * l][3] = order[l]
            BY <1>6, <1>7
        <3> QED
            BY <3>1
    <2>3. {p[j][3] : j \in rs} = {order[l] : l \in 1 .. size}
        BY <2>1, <2>2
    <2> QED
        BY <1>1, <1>2, <2>3 DEF Upis
<1>9. ASSUME NEW j \in rs
      PROVE  LET own == Cardinality({l \in Counted(x) : file.rows[l].upi = p[j][3]})
             IN  p[j + 1][3] = own /\ Says(p[j + 2][3], own * Between)
    <2>1. PICK l \in 1 .. size : j = m + 3 * l
        BY <1>7
    <2>2. p[j][3] = order[l] /\ order[l] \in S
        BY <1>1, <1>6, <2>1
    <2>3. Cardinality({i \in Counted(x) : file.rows[i].upi = p[j][3]}) = tally[order[l]]
        BY <1>1, <1>2, <2>2 DEF tally, TallyUpto, S
    <2>4. p[j + 1][3] = tally[order[l]]
        BY <1>6, <2>1
    <2>5. PICK y \in FormatDurationISO(tally[order[l]] * Between) :
            p[m + 3 * l + 2] = <<"run.duration", l, y>>
        BY <1>6
    <2>6. tally[order[l]] * Between \in Int
        <3>1. tally[order[l]] \in Nat /\ Between \in Int
            BY <1>1, <2>2, SectionsAssumption
        <3> QED
            BY <3>1
    <2>7. Says(y, tally[order[l]] * Between) /\ p[j + 2][3] = y
        BY <2>1, <2>5, <2>6, DurationSays
    <2> QED
        BY <2>3, <2>4, <2>7
<1> QED
    <2> DEFINE own(j) == Cardinality({l \in Counted(x) : FileOf(x).rows[l].upi = x.data.params[j][3]})
               rx == {j \in DOMAIN x.data.params :
                        Len(x.data.params[j]) = 3 /\ x.data.params[j][1] = "run"}
    <2>1. rx = rs /\ x.data.params = p
        BY DEF rs, p
    <2> HIDE DEF rx, rs
    <2>2. {x.data.params[j][3] : j \in rx} = {FileOf(x).rows[l].upi : l \in Counted(x)}
        BY <1>8, <2>1 DEF file
    <2>3. ASSUME NEW j \in rx
          PROVE  x.data.params[j + 1][3] = own(j) /\ Says(x.data.params[j + 2][3], own(j) * Between)
        BY <1>9, <2>1 DEF file
    <2> HIDE DEF own
    <2> QED
        BY <2>2, <2>3 DEF RunsAddUp, own, rx

(* What is said of the records follows from what each document is.         *)
LEMMA RecordsFollow ==
    IInv => RecordsDescribed
<1> SUFFICES ASSUME IInv, Tool \in {"mkcsv", "mkmma", "mkrt"}, NEW x \in docs
             PROVE  LET all  == FileOf(x).rows
                        last == Cardinality(Counted(x))
                    IN  /\ Value(x.data.params, "numrec") = last
                        /\ \A k \in DOMAIN all : all[k].is = "odd" =>
                             IF Tool = "mkrt" THEN Value(x.data.params, "invalid") = "true"
                             ELSE \E l \in 1 .. k - 1 : all[l].is = "cut"
                        /\ Tool # "mkrt" => last > 0
                        /\ last > 0 /\ (Tool = "mkrt" => Known(x.data)) =>
                             x.data.acq = all[1].when /\ x.data.mod = all[last].when
                        /\ Says(Value(x.data.params, "duration"),
                                IF Tool = "mkmma" THEN last * Between ELSE Sub(x.data.mod, x.data.acq))
                        /\ Tool = "mkmma" => RunsAddUp(x)
    BY DEF RecordsDescribed
<1> DEFINE c == Configured(x)
           file == FileOf(x)
<1>1. Counting
    BY DEF Counting
<1>2. Ready(c, file) /\ x.row = 0
    BY <1>1, DocumentParts
<1>3. PICK d \in DataType : Filled(c, file, d) /\ x.data = update(d)
    BY <1>2, DocumentParts
<1>4. PICK k \in Nat, w \in Readings : /\ Fine(file, k) /\ EndsAt(file, k) /\ (Tool = "mkrt" \/ k > 0)
                                       /\ Summarized(c, file, d, k, w)
    BY <1>1, <1>3 DEF Filled, FilledAt
<1> DEFINE u == Upto(c, file, k, w)
           tally == TallyUpto(file, k)
           p == x.data.params
<1>5. x.data.acq = d.acq /\ x.data.mod = d.mod /\ x.data.type = d.type /\ p = d.params
      /\ p \in Seq(Params)
    BY <1>2, <1>3, UpdateKeeps DEF Ready, Timely, DataType
<1>6. file \in FileType /\ file.rows \in Seq(RowType)
    BY <1>2, FileParts DEF Ready
<1>7. Counted(x) = 1 .. k /\ Cardinality(Counted(x)) = k
    BY <1>1, <1>4, <1>6, CountedAre
<1>8. d.acq = u.acq /\ d.mod = u.mod /\ d.type = u.type
    BY <1>1, <1>2, <1>4, SummarizedKeeps DEF Timely
<1>9. Tabled(d, file, k)
    BY <1>1, <1>2, <1>4, SummarizedKeeps
<1>10. PICK base \in Seq(Pairs), tail \in Seq(Params), text \in Durations :
        /\ k < Len(file.rows) /\ file.rows[k + 1].is = "odd" =>
             base # << >> /\ base[Len(base)] = <<"invalid", "true">>
        /\ text \in FormatDurationISO(IF Tool = "mkmma" THEN k * Between ELSE Sub(d.mod, d.acq))
        /\ d.params = Append(Append(base, <<"duration", text>>), <<"numrec", k>>) \o tail
        /\ Tool # "mkmma" => tail = << >>
        /\ Tool = "mkmma" => \E order \in SetToSeqs(DOMAIN tally) : tail = RunParams(order, tally)
    BY <1>9, Zenon DEF Tabled, tally
<1> DEFINE m == Len(base)
           len == Len(tail)
           t == IF Tool = "mkmma" THEN k * Between ELSE Sub(d.mod, d.acq)
<1>11. m \in Nat /\ len \in Nat
    OBVIOUS
<1> HIDE DEF c, file, u, tally, p
<1>12. /\ DOMAIN p = 1 .. m + 2 + len
       /\ \A j \in 1 .. m : p[j] \in Pairs /\ p[j] = base[j]
       /\ p[m + 1] = <<"duration", text>> /\ p[m + 2] = <<"numrec", k>>
       /\ \A j \in 1 .. len : p[m + 2 + j] = tail[j]
    BY <1>5, <1>10, ParamsAre
<1> HIDE DEF m, len
<1>13. TableParams(p, m, len, text, k)
    BY <1>5, <1>11, <1>12 DEF TableParams
<1>14. \A j \in 1 .. len : tail[j][1] \notin {"numrec", "duration", "invalid"}
    <2>1. CASE Tool # "mkmma"
        BY <1>10, <2>1 DEF len
    <2>2. CASE Tool = "mkmma"
        <3>1. PICK order \in SetToSeqs(DOMAIN tally) : tail = RunParams(order, tally)
            BY <1>10, <2>2
        <3>2. /\ DOMAIN tally \in SUBSET STRING /\ \A v \in DOMAIN tally : tally[v] \in Nat
              /\ order \in Seq(DOMAIN tally)
            BY <1>4, <1>6, TallyKeeps DEF tally
        <3>3. RunsGiven(tail, order, tally)
            BY <3>1, <3>2, RunParamsAre
        <3> QED
            BY <3>3 DEF RunsGiven, len
    <2> QED
        BY <2>1, <2>2
<1>15. /\ Value(p, "duration") = text /\ Value(p, "numrec") = k
       /\ m > 0 /\ p[m] = <<"invalid", "true">> => Value(p, "invalid") = "true"
    <2>1. \A j \in 1 .. len : p[m + 2 + j][1] \notin {"numrec", "duration", "invalid"}
        BY <1>12, <1>14
    <2> QED
        BY <1>13, <2>1, ParamsSay
<1>16. k \in 0 .. Len(file.rows) /\ DOMAIN file.rows = 1 .. Len(file.rows) /\ Len(file.rows) \in Nat
    BY <1>4, <1>6 DEF Fine
<1>17. ASSUME NEW j \in DOMAIN file.rows, file.rows[j].is = "odd"
       PROVE  IF Tool = "mkrt" THEN Value(p, "invalid") = "true"
              ELSE \E l \in 1 .. j - 1 : file.rows[l].is = "cut"
    <2>1. j > k
        BY <1>4, <1>16, <1>17 DEF Fine
    <2>2. k < Len(file.rows)
        BY <1>16, <2>1
    <2>3. CASE Tool = "mkrt"
        <3>1. file.rows[k + 1].is = "odd"
            BY <1>4, <2>2, <2>3 DEF EndsAt
        <3>2. base # << >> /\ base[m] = <<"invalid", "true">>
            BY <1>10, <2>2, <3>1 DEF m
        <3>3. m > 0
            BY <3>2 DEF m
        <3>4. p[m] = <<"invalid", "true">>
            <4>1. m \in 1 .. m
                BY <1>11, <3>3
            <4>2. p[m] = base[m]
                BY <1>12, <4>1
            <4> QED
                BY <3>2, <4>2
        <3> QED
            BY <1>15, <2>3, <3>3, <3>4
    <2>4. CASE Tool # "mkrt"
        <3>1. file.rows[k + 1].is = "cut"
            BY <1>4, <2>2, <2>4 DEF EndsAt
        <3>2. k + 1 # j
            BY <1>17, <3>1
        <3>3. k + 1 \in 1 .. j - 1
            BY <1>16, <2>1, <3>2
        <3> QED
            BY <2>4, <3>1, <3>3
    <2> QED
        BY <2>3, <2>4
<1>18. ASSUME k > 0, Tool = "mkrt" => Known(x.data)
       PROVE  x.data.acq = file.rows[1].when /\ x.data.mod = file.rows[k].when
    <2>1. /\ u.type = New(c, file, w[1]).type
          /\ u.acq = TimeOfRow(New(c, file, w[1]), file.rows[1], w[2])
          /\ u.mod = TimeOfRow(New(c, file, w[1]), file.rows[k], w[3])
        BY <1>1, <1>2, <1>4, <1>18, UptoKeeps DEF u
    <2>2. Tool = "mkrt" => Known(New(c, file, w[1]))
        BY <1>5, <1>8, <1>18, <2>1 DEF Known
    <2> QED
        BY <1>5, <1>8, <2>1, <2>2 DEF TimeOfRow
<1>19. Says(Value(p, "duration"), t)
    <2>1. t \in Int
        <3>1. d.acq \in Nat /\ d.mod \in Nat
            BY DEF DataType
        <3> QED
            BY <3>1, SectionsAssumption, TimesAssumption DEF Sub, Zero
    <2>2. text \in FormatDurationISO(t)
        BY <1>10
    <2> HIDE DEF t
    <2> QED
        BY <1>15, <2>1, <2>2, DurationSays
<1>20. Tool = "mkmma" => RunsAddUp(x)
    <2> SUFFICES ASSUME Tool = "mkmma"
                 PROVE  RunsAddUp(x)
        OBVIOUS
    <2>1. PICK order \in SetToSeqs(DOMAIN tally) : tail = RunParams(order, tally)
        BY <1>10
    <2> QED
        BY <1>1, <1>4, <1>6, <1>12, <1>13, <2>1, RunsSay DEF file, tally, p, len
<1>21. Tool # "mkrt" => k > 0
    BY <1>4
<1>22. t = IF Tool = "mkmma" THEN k * Between ELSE Sub(x.data.mod, x.data.acq)
    BY <1>5
<1> HIDE DEF t
<1> QED
    BY <1>7, <1>15, <1>17, <1>18, <1>19, <1>20, <1>21, <1>22 DEF file, p

(* A document that counts records counts the rows up to the first one that *)
(* could not be read, and its times, durations and runs are theirs         *)
(* (readFile and processData of mkcsv, mkmma and mkrt).                    *)
THEOREM RecordsAlwaysDescribed ==
    Spec => []RecordsDescribed
BY SectionsInvariant, RecordsFollow, PTL
=============================================================================
