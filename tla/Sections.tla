------------------------------ MODULE Sections ------------------------------
(***************************************************************************)
(* What a mk* command says of each file: build.go, meta.go and the part of *)
(* each collectData that fills the document.  (Where the document goes and *)
(* what may go wrong there is the matter of Archive.)                      *)
(*                                                                         *)
(* Build loads a configuration, and for each section the tool accepts      *)
(* walks its files.  The callback of the walk is a closure over the        *)
(* section: it clones it for each file and fills the clone from the file,  *)
(* its name and its records.  Store adds the increments and resolves the   *)
(* pattern of the place.                                                   *)
(*                                                                         *)
(* A configuration is a record: the tool, the context of the main section, *)
(* what an included file sets of it, and the sections with their files.    *)
(* A file has its path (see Times), the times noted inside it (made,       *)
(* changed), and its rows; the images of a camera file and the tables of a *)
(* note are rows as well; a note may have a title with times (titled).  The*)
(* header of a table, and all that is copied from a file without being     *)
(* looked at, is left out.                                                 *)
(*                                                                         *)
(* An operator X_Y is a mutant of X.                                       *)
(***************************************************************************)
EXTENDS Patterns, FiniteSets

CONSTANTS
    Configs,  \* the configurations
    Between   \* the interval of mkmma between two rows

----------------------------------------------------------------------------
(* What a configuration is made of.                                        *)
Mime == [main : STRING, sub : STRING, type : STRING, subtype : STRING]
MimeSet == Seq([exts : SUBSET STRING, type : STRING, mime : Mime])

Increment == [num : STRING, starts : Nat, ends : Nat]
Parameter == STRING \X STRING
Context == [model : STRING, source : STRING, metadata : Seq(Parameter), incs : SUBSET Increment]

(* The image of a camera file and the table of a note have no rows.        *)
FileWith(row) == [dirs : Seq(Int) \ {<< >>}, base : Seq(Int) \ {<< >>}, ext : STRING,
                  damaged : BOOLEAN, titled : BOOLEAN,
                  made : Nat, changed : Nat, rows : Seq(row)]
RowType == [is : {"row", "odd", "cut"}, when : Int, upi : STRING, raw : BOOLEAN,
            file : FileWith({})]
FileType == FileWith(RowType)

(* Only empty braces have nothing between them.                            *)
Pattern ==
    Seq(Seq({p \in [is : {"text", "name", "index", "range", "nothing", "numeral", "open"},
                    text : STRING, from : Int, to : Int, size : Nat] :
               p.size = 0 => p.is \in {"text", "nothing", "open"}}))

DataWith(param) ==
    [type : STRING, mime : Mime, level : Int, source : STRING, model : STRING,
     acq : Nat, mod : Nat, incs : SUBSET STRING, exts : SUBSET STRING, mimes : MimeSet,
     func : TimeFuncs, pattern : Pattern, params : Seq(param), file : FileType]

(* The include of a configuration sets what it has of a Context.           *)
Included(c) ==
    [x \in DOMAIN c.context |-> IF x \in DOMAIN c.include THEN c.include[x] ELSE c.context[x]]

(* Only the name of a table may hold a time that is none: any other time   *)
(* that cannot be read is the zero time.                                   *)
ASSUME SectionsAssumption ==
    /\ Between \in Int
    /\ \A c \in Configs :
         /\ c.tool \in {"mkfile", "mkmov", "mknef", "mkpdf", "mkcsv", "mkmma", "mkicn", "mkrt",
                        "mkhdk"}
         /\ c.context \in Context /\ Included(c) \in Context
         /\ c.mimes \in MimeSet
         /\ c.sections \in Seq([data : DataWith(Parameter), files : Seq(FileType)])
         /\ c.tool # "mkicn" =>
              \A k \in DOMAIN c.sections : \A g \in DOMAIN c.sections[k].files :
                 \A row \in ToSet(c.sections[k].files[g].rows) : row.when \in Nat
----------------------------------------------------------------------------
VARIABLES
    config,   \* the configuration
    context,  \* the Context of the Builder
    pc,       \* where the command is
    s, section,  \* the number of the section, and the Data of the closure
    f, dat,   \* the number of the file, and the Data of its document
    n,        \* the row at hand
    count,    \* how many rows were counted, and of which science runs
    runs,
    docs      \* the documents written so far

walk == <<s, section, f>>
rows == <<n, count, runs>>
vars == <<config, context, pc, walk, dat, rows, docs>>

Sections == config.sections
Files == Sections[s].files
File == Files[f]
Row == File.rows[n]
Tool == config.tool
----------------------------------------------------------------------------
NoMime == [main |-> "", sub |-> "", type |-> "", subtype |-> ""]
IsMime(m, main, sub) == m.main = main /\ m.sub = sub

(* The tests of the tools on a section.                                    *)
Accepts(tool, d) ==
    CASE tool = "mkfile" -> TRUE
      [] tool = "mkmov"  -> IsMime(d.mime, "video", "quicktime")
      [] tool = "mknef"  -> IsMime(d.mime, "image", "x-nikon-nef")
      [] tool = "mkpdf"  -> IsMime(d.mime, "application", "pdf")
      [] tool \in {"mkcsv", "mkmma"} -> IsMime(d.mime, "text", "csv")
      [] tool = "mkicn"  -> d.type = "inter console note" \/ d.mime.type = "icn"
      [] tool = "mkrt"   ->
            \/ d.type \in {"Medium Rate Telemetry", "Processed Data", "High Rate Data"}
            \/ d.mime.type \in {"pth", "pdh", "hrd", "vmu"}
      [] tool = "mkhdk"  ->
            IF d.level = 1
            THEN IsMime(d.mime, "image", "png") \/ IsMime(d.mime, "image", "jpeg")
            ELSE /\ d.mime.main = "application" \/ d.mime.sub = "octet-stream"
                 /\ d.mime.type = "hpkt-vmu2" /\ d.mime.subtype \in {"image", "science"}

(* The tests on a file; without extensions no file is accepted.            *)
Takes(tool, d, file) ==
    CASE tool = "mkfile" -> TRUE
      [] tool = "mkhdk"  -> file.ext # ".xml" /\ ~ (config.skipbad /\ file.ext = ".bad")
      [] OTHER           -> file.ext \in d.exts

(* The first entry with the extension fills what the section left open.    *)
Typed(mimes, d, ext) ==
    LET fit == {k \in DOMAIN mimes : ext \in mimes[k].exts}
        m   == mimes[Min(fit)]
    IN  IF fit = {} THEN d
        ELSE [d EXCEPT !.type = IF @ = "" THEN m.type ELSE @,
                       !.mime = IF @ = NoMime THEN m.mime ELSE @]

Register(d, name, value) == [d EXCEPT !.params = Append(@, <<name, value>>)]

(* Context.update: the increments that the acquisition time falls in.      *)
Within_Closed(i, t) == i.starts <= t /\ t <= i.ends
Within(i, t) == i.starts < t /\ t < i.ends

update(d) ==
    IF d.acq = Zero \/ d.incs # {} THEN d
    ELSE [d EXCEPT !.incs = {i.num : i \in {j \in context.incs : Within(j, d.acq)}}]

Or(own, default) == IF own = "" THEN default ELSE own

Update(d) ==
    update([d EXCEPT !.model = Or(@, context.model), !.source = Or(@, context.source),
                     !.params = @ \o context.metadata])

(* ReadFile: the time function is asked only when no time is configured.   *)
WhenOf(d, file, now) == GetTime(d.func, file, now)

ReadFile(d, file, now) ==
    LET t == Typed(d.mimes, [d EXCEPT !.file = file], file.ext)
        w == WhenOf(t, file, now)
        u == IF t.acq = Zero /\ w >= 0 THEN [t EXCEPT !.acq = w, !.mod = w] ELSE t
    IN  IF file.ext = ".gz" THEN Register(u, "encoding", "gzip") ELSE u
----------------------------------------------------------------------------
(* The times noted in a file, as each tool that does not count rows takes  *)
(* them: also when there is none, which leaves the zero time.              *)
Timed(d, acq, mod) == [d EXCEPT !.acq = acq, !.mod = mod]
OrZero(t) == IF t < 0 THEN Zero ELSE t

(* parseFilename: mkhdk takes the time of the name when it found no other. *)
Hadock(d) ==
    LET r == IF d.level = 0 THEN Timed(d, d.file.made, d.file.made) ELSE d
        b == IF d.file.ext = ".bad" THEN Register(r, "invalid", "true") ELSE r
        w == OrZero(TimeHDK(d.file))
    IN  IF b.acq = Zero THEN Timed(b, w, w) ELSE b

(* parseTitle: the times of the title, zero when they cannot be read, else *)
(* that of the directory, which is named after the day or lies in one that *)
(* is.                                                                     *)
NoteTime(p) ==
    LET k == IF FromEnd(p.dirs, 0) >= 0 THEN 0 ELSE 1
    IN  OrZero(Moment(FromEnd(p.dirs, k + 1), FromEnd(p.dirs, k), 0, 0))

Note(d) ==
    IF d.file.titled THEN Timed(d, d.file.made, d.file.changed)
    ELSE Timed(d, NoteTime(d.file), NoteTime(d.file))

Fill(tool, d) ==
    CASE tool = "mkfile" -> Typed(config.mimes, d, d.file.ext)
      [] tool \in {"mkmov", "mkpdf"} -> Timed(d, d.file.made, d.file.changed)
      [] tool = "mknef" ->
            IF d.file.rows = << >> THEN d
            ELSE Timed(d, d.file.rows[1].when, d.file.rows[1].when)
      [] tool = "mkhdk" -> Hadock(d)
      [] tool = "mkicn" -> Note(d)
      [] OTHER -> d

(* What is made of an image, or of a table: it starts as a clone.          *)
Image(d, row) ==
    [d EXCEPT !.type = IF row.raw THEN "data" ELSE "image",
              !.mime.main = IF row.raw THEN "application" ELSE "image",
              !.mime.sub  = IF row.raw THEN "octet-stream" ELSE "jpeg",
              !.level     = IF row.raw THEN 0 ELSE 1]

Table(d, row, now) ==
    LET t == [Timed(d, OrZero(row.when), OrZero(row.when)) EXCEPT
                 !.type = "parameters table",
                 !.mime = [NoMime EXCEPT !.main = "text", !.sub = "plain"]]
    IN  ReadFile(Register(t, "science.run", row.upi), row.file, now)

(* keepFile: without a list all tables are kept.                           *)
Kept(row) == config.list = {} \/ row.upi \in config.list
----------------------------------------------------------------------------
Init ==
    /\ config \in Configs
    /\ context = config.context
    /\ pc = "load"
    /\ s = 1 /\ section = Sections[1].data /\ f = 1
    /\ dat = section
    /\ n = 1 /\ count = 0 /\ runs = << >>
    /\ docs = {}

(* What the included file sets replaces what the main section says.        *)
Load ==
    /\ pc = "load"
    /\ context' = Included(config)
    /\ LET verdict(k) == Parse(Sections[k].data.pattern)
           bad == {k \in DOMAIN Sections : verdict(k) # "fine"}
       IN  pc' = IF bad = {} THEN "section" ELSE verdict(Min(bad))
    /\ UNCHANGED <<config, walk, dat, rows, docs>>

Wanted(d) ==
    /\ d.type # "" \/ d.mime # NoMime \/ config.mimes # << >>
    /\ Accepts(Tool, d)

EnterSection ==
    /\ pc = "section" /\ s \in DOMAIN Sections
    /\ \/ /\ Wanted(Sections[s].data)
          /\ section' = Update(Sections[s].data)
          /\ f' = 1 /\ pc' = "file"
          /\ UNCHANGED s
       \/ /\ ~ Wanted(Sections[s].data)
          /\ s' = s + 1
          /\ UNCHANGED <<section, f, pc>>
    /\ UNCHANGED <<config, context, dat, rows, docs>>

End ==
    /\ pc = "section" /\ s \notin DOMAIN Sections
    /\ pc' = "done"
    /\ UNCHANGED <<config, context, walk, dat, rows, docs>>

EndWalk ==
    /\ pc = "file" /\ f \notin DOMAIN Files
    /\ s' = s + 1 /\ pc' = "section"
    /\ UNCHANGED <<config, context, section, f, dat, rows, docs>>

Pass ==
    /\ pc = "file" /\ f \in DOMAIN Files
    /\ ~ Takes(Tool, section, File)
    /\ f' = f + 1
    /\ UNCHANGED <<config, context, pc, s, section, dat, rows, docs>>

(* An index out of range in the name of the file ends the process.         *)
NamePanics(d, file) ==
    \/ d.acq = Zero /\ \E now \in Clock : WhenOf(d, file, now) = Panic
    \/ Tool = "mkhdk" /\ Len(file.base) < 3

Stage ==
    CASE Tool \in {"mkcsv", "mkmma", "mkrt"} -> "rows"
      [] Tool = "mkicn" -> "tables"
      [] OTHER -> "store"

(* The clone is filled from the file.                                      *)
Take_Shared ==
    /\ pc = "file" /\ f \in DOMAIN Files
    /\ Takes(Tool, section, File) /\ ~ File.damaged /\ ~ NamePanics(section, File)
    /\ \E now \in Clock : dat' = Fill(Tool, ReadFile(section, File, now))
    /\ section' = dat'
    /\ pc' = Stage
    /\ n' = 1 /\ count' = 0 /\ runs' = << >>
    /\ UNCHANGED <<config, context, s, f, docs>>
Take ==
    /\ pc = "file" /\ f \in DOMAIN Files
    /\ Takes(Tool, section, File) /\ ~ File.damaged /\ ~ NamePanics(section, File)
    /\ \E now \in Clock : dat' = Fill(Tool, ReadFile(section, File, now))
    /\ pc' = Stage
    /\ n' = 1 /\ count' = 0 /\ runs' = << >>
    /\ UNCHANGED <<config, context, walk, docs>>

TakeFails ==
    /\ pc = "file" /\ f \in DOMAIN Files
    /\ Takes(Tool, section, File)
    /\ \/ File.damaged /\ f' = f + 1 /\ UNCHANGED pc
       \/ ~ File.damaged /\ NamePanics(section, File) /\ pc' = "panic" /\ UNCHANGED f
    /\ UNCHANGED <<config, context, s, section, dat, rows, docs>>
----------------------------------------------------------------------------
(* The loops over rows.  A row is fine, or "odd": an error comes with it;  *)
(* or "cut": nothing of it was read, which ends the loop of mkcsv and mkmma*)
(* whatever the error.  A damaged record ends that of mkrt, which reads the*)
(* clock for the time of a record when it does not know the type; the clock*)
(* does not go back meanwhile.                                             *)
Known(d) == d.type \in {"Medium Rate Telemetry", "Processed Data", "High Rate Data"}
ReadsClock == Tool = "mkrt" /\ ~ Known(dat)
RowTime(now) == IF ReadsClock THEN now ELSE Row.when

Tally(upi) ==
    [u \in DOMAIN runs \cup {upi} |->
        (IF u \in DOMAIN runs THEN runs[u] ELSE 0) + (IF u = upi THEN 1 ELSE 0)]

CountRow_Late ==
    /\ pc = "rows" /\ n \in DOMAIN File.rows /\ Row.is = "row"
    /\ \E now, later \in Clock :
         /\ ReadsClock => (IF count = 0 THEN now ELSE dat.mod) <= later
         /\ dat' = Timed(dat, IF count = 1 THEN RowTime(now) ELSE dat.acq, RowTime(later))
    /\ runs' = Tally(Row.upi)
    /\ n' = n + 1 /\ count' = count + 1
    /\ UNCHANGED <<config, context, pc, walk, docs>>
CountRow ==
    /\ pc = "rows" /\ n \in DOMAIN File.rows /\ Row.is = "row"
    /\ \E now, later \in Clock :
         /\ ReadsClock => (IF count = 0 THEN now ELSE dat.mod) <= later
         /\ dat' = Timed(dat, IF count = 0 THEN RowTime(now) ELSE dat.acq, RowTime(later))
    /\ runs' = Tally(Row.upi)
    /\ n' = n + 1 /\ count' = count + 1
    /\ UNCHANGED <<config, context, pc, walk, docs>>

Odd == n \in DOMAIN File.rows /\ Row.is = "odd"
Over == n \in DOMAIN File.rows => Row.is = IF Tool = "mkrt" THEN "odd" ELSE "cut"

Summary(d, x, numrec) == Register(Register(d, "duration", x), "numrec", numrec)

(* The runs of mkmma come in any order; their parameters are numbered.     *)
RunParams(order, tally) ==
    [j \in 1 .. 3 * Len(order) |->
        LET k == (j + 2) \div 3
            numrec == tally[order[k]]
        IN  IF j % 3 = 1 THEN <<"run", k, order[k]>>
            ELSE IF j % 3 = 2 THEN <<"run.numrec", k, numrec>>
            ELSE <<"run.duration", k, CHOOSE x \in FormatDurationISO(numrec * Between) : TRUE>>]

EndRows ==
    /\ pc = "rows" /\ Over
    /\ Tool = "mkrt" \/ count > 0
    /\ LET d == IF Odd THEN Register(dat, "invalid", "true") ELSE dat
       IN  \/ /\ Tool # "mkmma"
              /\ \E x \in FormatDurationISO(Sub(d.mod, d.acq)) : dat' = Summary(d, x, count)
           \/ /\ Tool = "mkmma"
              /\ \E x \in FormatDurationISO(count * Between) :
                 \E order \in SetToSeqs(DOMAIN runs) :
                    dat' = [Summary(d, x, count) EXCEPT !.params = @ \o RunParams(order, runs)]
    /\ pc' = "store"
    /\ UNCHANGED <<config, context, walk, rows, docs>>

(* A table with an odd row, or without rows, is not stored.                *)
RowsFail ==
    /\ pc = "rows" /\ Tool # "mkrt"
    /\ Odd \/ (Over /\ count = 0)
    /\ f' = f + 1 /\ pc' = "file"
    /\ UNCHANGED <<config, context, s, section, dat, rows, docs>>
----------------------------------------------------------------------------
Document(d, row) ==
    [s |-> s, f |-> f, row |-> row, data |-> update(d), place |-> Resolve(d.pattern, update(d))]

(* Each table of a note is stored, then the note, if any of them was.      *)
StoreTable ==
    /\ pc = "tables" /\ n \in DOMAIN File.rows /\ ~ ResolvePanics(dat.pattern, dat)
    /\ \/ /\ Kept(Row) /\ Row.is = "row"
          /\ \E now \in Clock : docs' = docs \cup {Document(Table(dat, Row, now), n)}
          /\ count' = count + 1
       \/ /\ ~ Kept(Row) \/ Row.is # "row"
          /\ UNCHANGED <<docs, count>>
    /\ n' = n + 1
    /\ UNCHANGED <<config, context, pc, walk, dat, runs>>

EndTables ==
    /\ pc = "tables" /\ n \notin DOMAIN File.rows /\ ~ ResolvePanics(dat.pattern, dat)
    /\ \/ count > 0 /\ pc' = "store" /\ UNCHANGED f
       \/ count = 0 /\ pc' = "file" /\ f' = f + 1
    /\ UNCHANGED <<config, context, s, section, dat, rows, docs>>

(* mknef leaves the times of the file in the section.                      *)
Store ==
    /\ pc = "store" /\ ~ ResolvePanics(dat.pattern, dat)
    /\ docs' = docs \cup {Document(dat, 0)}
    /\ section' = IF Tool = "mknef" THEN Timed(section, dat.acq, dat.mod) ELSE section
    /\ IF Tool = "mknef" THEN pc' = "images" /\ UNCHANGED f
                         ELSE pc' = "file" /\ f' = f + 1
    /\ n' = 1
    /\ UNCHANGED <<config, context, s, dat, count, runs>>

StoreImage ==
    /\ pc = "images" /\ n \in DOMAIN File.rows
    /\ \/ Row.is = "row" /\ docs' = docs \cup {Document(Image(dat, Row), n)}
       \/ Row.is # "row" /\ UNCHANGED docs
    /\ n' = n + 1
    /\ UNCHANGED <<config, context, pc, walk, dat, count, runs>>

(* The camera file is stored again, with links to its images.              *)
EndImages ==
    /\ pc = "images" /\ n \notin DOMAIN File.rows
    /\ docs' = docs \cup {Document(dat, 0)}
    /\ f' = f + 1 /\ pc' = "file"
    /\ UNCHANGED <<config, context, s, section, dat, rows>>

StorePanics ==
    /\ pc \in {"tables", "store"} /\ ResolvePanics(dat.pattern, dat)
    /\ pc' = "panic"
    /\ UNCHANGED <<config, context, walk, dat, rows, docs>>

Next ==
    \/ Load \/ EnterSection \/ EndWalk \/ End
    \/ Pass \/ Take \/ TakeFails
    \/ CountRow \/ EndRows \/ RowsFail
    \/ StoreTable \/ EndTables \/ Store \/ StoreImage \/ EndImages \/ StorePanics

Spec == Init /\ [][Next]_vars
----------------------------------------------------------------------------
Configured(x) == Sections[x.s].data
FileOf(x) == Sections[x.s].files[x.f]

(* Documents of equal files under equal sections are equal, wherever the   *)
(* files come in the walk and whatever came before: nothing of one file    *)
(* gets into the document of another through the section they share        *)
(* (Build, collectData, Clone).  The times may differ, and what is made of *)
(* them - increments, durations, the place -, when they are read from the  *)
(* clock (timefunc "now", and the rows of mkrt for a type it does not      *)
(* know), and for a camera file without images, which keeps those mknef    *)
(* left in the section.  The parameters may differ when they hold the text *)
(* of a negative duration, and for mkmma, which lists the runs of a file   *)
(* in any order.                                                           *)
Clocked(x) == Configured(x).func = "now" \/ (Tool = "mkrt" /\ ~ Known(x.data))
Timeless(x) == Tool = "mknef" /\ FileOf(x).rows = << >>
Ordered(x) == x.data.acq <= x.data.mod

Terse(d)   == [d EXCEPT !.params = << >>]
Undated(d) == [Timed(d, Zero, Zero) EXCEPT !.params = << >>, !.incs = {}]

DocumentsAreOwn ==
    \A x, y \in docs :
        Configured(x) = Configured(y) /\ FileOf(x) = FileOf(y) /\ x.row = y.row =>
            /\ Undated(x.data) = Undated(y.data)
            /\ ~ Clocked(x) /\ ~ Timeless(x) =>
                 /\ Terse(x.data) = Terse(y.data) /\ x.place = y.place
                 /\ Tool # "mkmma" /\ Ordered(x) => x.data = y.data

(* The increments of a document are those configured for its section, else *)
(* those that its own acquisition time falls in, and never two that share  *)
(* but an instant (Update, update, Store, CreateFile).  Except that a      *)
(* default time that falls in increments gives these to all documents of   *)
(* its section.                                                            *)
Inside(i, t)  == i.starts < t /\ t < i.ends
Outside(i, t) == t < i.starts \/ i.ends < t
Meet(i, j)    == i.starts < j.ends /\ j.starts < i.ends
DefaultFalls(c) == \E i \in context.incs : Inside(i, c.acq)

IncrementsHold ==
    \A x \in docs :
        LET t == x.data.acq
            c == Configured(x)
            labels == x.data.incs
            named(l) == {i \in context.incs : i.num = l}
        IN  IF c.incs # {} THEN labels = c.incs
            ELSE ~ DefaultFalls(c) =>
                 /\ \A i \in context.incs : Inside(i, t) => i.num \in labels
                 /\ \A l \in labels : \E i \in named(l) : ~ Outside(i, t)
                 /\ \A l, m \in labels : \E i \in named(l), j \in named(m) : Meet(i, j)

(* A document with a number of records counts the rows up to the first one *)
(* that could not be read, its times are those of the first and the last   *)
(* of them, its duration is the time in between (for mkmma the rows times  *)
(* their interval, for all and for each run) cut to seconds, and the runs  *)
(* add up (readFile and processData of mkcsv, mkmma, mkrt).                *)
(* For mkrt the README has the times come from the directory (line 579):   *)
(* that is so of a file without records only, if timefunc is rt.  A        *)
(* duration is not said when it is negative, and one of less than a second *)
(* names no unit (FormatDurationISO).                                      *)
Value(params, name) == params[Max({k \in DOMAIN params : params[k][1] = name})][2]
Counted(x) == {k \in DOMAIN FileOf(x).rows : \A l \in 1 .. k : FileOf(x).rows[l].is = "row"}
Says(text, t) ==
    /\ t >= 0 => Worth(text) = t \div Second
    /\ t = 0 \/ t >= Second => Proper(text)

RunsAddUp(x) ==
    LET rs == {k \in DOMAIN x.data.params :
                 Len(x.data.params[k]) = 3 /\ x.data.params[k][1] = "run"}
        upi(k) == x.data.params[k][3]
    IN  /\ {upi(k) : k \in rs} = {FileOf(x).rows[l].upi : l \in Counted(x)}
        /\ \A k \in rs :
             LET own == Cardinality({l \in Counted(x) : FileOf(x).rows[l].upi = upi(k)})
             IN  /\ x.data.params[k + 1][3] = own
                 /\ Says(x.data.params[k + 2][3], own * Between)

RecordsDescribed ==
    Tool \in {"mkcsv", "mkmma", "mkrt"} =>
        \A x \in docs : LET all  == FileOf(x).rows
                            last == Cardinality(Counted(x))
            IN  /\ Value(x.data.params, "numrec") = last
                /\ \A k \in DOMAIN all : all[k].is = "odd" =>
                     IF Tool = "mkrt" THEN Value(x.data.params, "invalid") = "true"
                     ELSE \E l \in 1 .. k - 1 : all[l].is = "cut"
                /\ Tool # "mkrt" => last > 0
                /\ last > 0 /\ (Tool = "mkrt" => Known(x.data)) =>
                     x.data.acq = all[1].when /\ x.data.mod = all[last].when
                /\ Says(Value(x.data.params, "duration"),
                        IF Tool = "mkmma" THEN last * Between ELSE Sub(x.data.mod, x.data.acq))
                /\ Tool = "mkmma" => RunsAddUp(x)

Bound(i, dirs) == IF i < 0 THEN Len(dirs) + i ELSE i
Chosen(piece, dirs) ==
    LET named == {k \in DOMAIN dirs : Bound(piece.from, dirs) < k /\ k <= Bound(piece.to, dirs)}
        nth(j) == CHOOSE k \in named : Cardinality({l \in named : l <= k}) = j
    IN  [j \in 1 .. Cardinality(named) |-> dirs[nth(j)]]

Expected(piece, d) ==
    IF piece.is = "range" /\ Chosen(piece, d.file.dirs) # << >>
    THEN << <<"dirs", Chosen(piece, d.file.dirs)>> >> ELSE Piece(piece, d)

Placed(x) ==
    LET pattern == x.data.pattern
        names == [k \in DOMAIN pattern |->
                     FlattenSeq([l \in DOMAIN pattern[k] |-> Expected(pattern[k][l], x.data)])]
        c == Configured(x)
        w == TimeYearDoy(FileOf(x))
    IN  /\ x.place = Join(names)
        /\ c.func = "year.doy" /\ c.acq = Zero /\ Tool = "mkfile" /\ w >= 0 =>
             \A k \in DOMAIN pattern : \A l \in DOMAIN pattern[k] :
                LET p == pattern[k][l]
                    value == Expected(p, x.data)
                IN  p.is = "name" =>
                     /\ p.text = "year" => value = << <<"4", Last(FileOf(x).dirs)>> >>
                     /\ p.text = "doy"  => value = << <<"3", FileOf(x).base[1]>> >>

Pieces == UNION {UNION {ToSet(seg) : seg \in ToSet(Sections[k].data.pattern)} : k \in DOMAIN Sections}

Stops ==
    /\ pc = "panic" =>
         \/ \E p \in Pieces : \/ p.is = "nothing"
                              \/ p.is = "index" /\ p.from < 0
                              \/ /\ p.is = "range"
                                 /\ p.from >= Len(File.dirs) /\ p.to >= Len(File.dirs)
         \/ Len(File.base) < 3
    /\ pc = "refused" =>
         \/ \E p \in Pieces : p.is \in {"open", "nothing", "numeral"}
         \/ \E k \in DOMAIN Sections : \E seg \in ToSet(Sections[k].data.pattern) :
               \E l \in 2 .. Len(seg) : seg[l].size = seg[l - 1].size /\ seg[l - 1].is = "text"

(* A range of a pattern takes the directories from its first bound to      *)
(* before its second, both counted from 0, or from the end when negative;  *)
(* when there is none, the code may still take one.  A file that is found  *)
(* by year and day is placed by the same year and day.  Only empty braces, *)
(* or an index out of range in a pattern or a name, end the command.  A    *)
(* pattern is refused only for a brace that is not closed, for empty       *)
(* braces, for what begins like a number and is none, or for a placeholder *)
(* as long as the text ahead of it (ParseResolver, Resolve).               *)
(* That is how slice.Resolve cuts; the README has the second bound         *)
(* included ({3:4}, lines 157 and 167), and allows {start:} and {:end}     *)
(* (lines 137 and 138), of which the code refuses the first as no number   *)
(* and takes the second for a name it does not know, which leaves nothing. *)
PlacesAgree == (\A x \in docs : Placed(x)) /\ Stops
============================================================================
