----------------------------- MODULE MCLibrary -----------------------------
(***************************************************************************)
(* Configurations for the sequential parts, Sections with Patterns and     *)
(* Times, and documents for Transform.  A behaviour is one of either part: *)
(* the other one stays at its first state.                                 *)
(***************************************************************************)
EXTENDS Sections, Transform

Clock0 == {700000000, 700000004}
NoMime2(main, sub) == [NoMime EXCEPT !.main = main, !.sub = sub]
At(doy) == Moment(2, doy, 0, 0)

NoFile == [dirs |-> <<2>>, base |-> <<1>>, ext |-> ".dat", damaged |-> FALSE,
           titled |-> FALSE, made |-> 0, changed |-> 0, rows |-> << >>]
Path(dirs, base) == [NoFile EXCEPT !.dirs = dirs, !.base = base]
Made(t, u) == [NoFile EXCEPT !.made = t, !.changed = u]
Row0 == [is |-> "row", when |-> 0, upi |-> "a", raw |-> FALSE, file |-> NoFile]
R(t, upi) == [Row0 EXCEPT !.when = t, !.upi = upi]
Bad(is) == [Row0 EXCEPT !.is = is, !.when = 5]
Rows(rs) == [NoFile EXCEPT !.rows = rs]

Data0 == [type |-> "", mime |-> NoMime, level |-> 0, source |-> "", model |-> "",
          acq |-> Zero, mod |-> Zero, incs |-> {}, exts |-> {".dat", ".gz"},
          mimes |-> << >>, func |-> "none", pattern |-> << >>, params |-> << >>,
          file |-> NoFile]
Typ(type) == [Data0 EXCEPT !.type = type]
Mim(main, sub) == [Data0 EXCEPT !.mime = NoMime2(main, sub)]
Sec(d, fs) == [data |-> d, files |-> fs]

Piece0 == [is |-> "text", text |-> "x", from |-> 0, to |-> 0, size |-> 1]
Txt(t, k) == [Piece0 EXCEPT !.text = t, !.size = k]
Name(t, k) == [Piece0 EXCEPT !.is = "name", !.text = t, !.size = k]
Idx(k) == [Piece0 EXCEPT !.is = "index", !.from = k, !.size = 2]
Rng(a, b) == [Piece0 EXCEPT !.is = "range", !.from = a, !.to = b, !.size = 3]
Is(is, k) == [Piece0 EXCEPT !.is = is, !.size = k]
ByDay == << <<Name("year", 4)>>, <<Name("doy", 3)>> >>

Context0 == [model |-> "flight model", source |-> "est", metadata |-> << <<"exp", "x">> >>,
             incs |-> {[num |-> "1", starts |-> At(10), ends |-> At(20)],
                       [num |-> "2", starts |-> At(20), ends |-> At(30)]}]
Config(tool, secs) ==
    [tool |-> tool, context |-> Context0, include |-> << >>, mimes |-> << >>,
     skipbad |-> TRUE, list |-> {}, sections |-> secs]

(* Files by year and day: in the first, at the edge of both, in none of    *)
(* the increments, with a name without a day, unreadable, compressed; the  *)
(* first and the second again.  Sections with a default time in and out of *)
(* the increments, with increments of their own, and two that are alike.   *)
Days == <<Path(<<-7, 2>>, <<15>>), Path(<<-7, 2>>, <<20>>), Path(<<-7, 2>>, <<40>>),
          Path(<<-7, 2>>, <<-9>>), [Path(<<-7, 2>>, <<15>>) EXCEPT !.damaged = TRUE],
          [Path(<<-7, 2>>, <<25>>) EXCEPT !.ext = ".gz"],
          Path(<<-7, 2>>, <<15>>), Path(<<-7, 2>>, <<20>>)>>
Dated == [Typ("data") EXCEPT !.func = "year.doy", !.pattern = ByDay,
             !.mimes = <<[exts |-> {".gz"}, type |-> "other", mime |-> NoMime2("a", "gzip")]>>]
Files0 ==
    [Config("mkfile",
        <<Sec(Dated, Days), Sec(Data0, Days),
          Sec([Dated EXCEPT !.acq = At(12), !.mod = At(13)], Days),
          Sec([Dated EXCEPT !.acq = At(20), !.type = ""], Days),
          Sec([Dated EXCEPT !.incs = {"9"}, !.model = "em"], Days), Sec(Dated, Days)>>)
     EXCEPT !.include = [model |-> "ground model"],
            !.mimes = <<[exts |-> {".dat"}, type |-> "dat", mime |-> NoMime2("b", "dat")],
                        [exts |-> {".dat", ".gz"}, type |-> "no", mime |-> NoMime]>>]

(* Tables: with a row, in several units, unordered, less than a second,    *)
(* without rows, cut, odd, odd after a cut, with times that are none.      *)
Tables ==
    LET t == At(15)
    IN  <<Rows(<<R(t, "a")>>), Rows(<<R(t, "a"), R(t + 120, "b"), R(t + 120, "a")>>),
          Rows(<<R(t, "a"), R(t + Day + 61 * Minute + 4, "a")>>),
          Rows(<<R(t + 4, "a"), R(t, "b")>>), Rows(<<R(t, "a"), R(t + 1, "a")>>),
          Rows(<< >>), Rows(<<R(t, "a"), Bad("cut"), Bad("odd"), R(t + 6, "a")>>),
          Rows(<<R(t, "a"), Bad("odd")>>), Rows(<<R(0, "a"), R(t, "a")>>),
          [Rows(<<R(t, "a")>>) EXCEPT !.ext = ".txt"], Rows(<<R(t, "a")>>)>>
Csv(tool) == Config(tool, <<Sec(Typ("table"), Tables), Sec(Mim("text", "csv"), Tables),
                            Sec([Mim("text", "csv") EXCEPT !.acq = At(25)], Tables)>>)

Records == <<Rows(<<R(At(15), "a"), R(At(15) + 2 * Hour + 2, "a")>>), Rows(<< >>),
             Rows(<<R(At(15), "a"), Bad("odd")>>), Rows(<< >>),
             Path(<<2, 15, 4>>, <<-2, 30>>), Path(<<2, 15, 4>>, <<-2, 30, 31>>)>>
Rt == Config("mkrt",
        <<Sec([Typ("Processed Data") EXCEPT !.func = "rt"], Records), Sec(Typ("other"), Records),
          Sec([Data0 EXCEPT !.mime.type = "vmu", !.acq = At(12)], Records)>>)

Camera(rs) == [Rows(rs) EXCEPT !.ext = ".dat"]
Nef == Config("mknef",
         <<Sec(Mim("image", "x-nikon-nef"),
               <<Camera(<< >>), Camera(<<R(At(15), "a"), [R(At(15), "a") EXCEPT !.raw = TRUE],
                                         Bad("odd")>>),
                 Camera(<< >>), Camera(<<R(At(15), "a")>>), Camera(<<R(At(15), "a")>>)>>)>>)

(* Notes in directories named after the day, and one level below; tables   *)
(* in and out of the list; a title with a time that cannot be read.        *)
Tab(t, upi) == [R(t, upi) EXCEPT !.file = Path(<<2, 15>>, <<-3, 20, 15, 4, 5>>)]
NoteIn(dirs, t, rs) ==
    [Rows(rs) EXCEPT !.dirs = dirs, !.titled = t # Zero, !.made = t, !.changed = t]
Icn == [Config("mkicn",
          <<Sec([Typ("inter console note") EXCEPT !.pattern = ByDay],
                <<NoteIn(<<2, 15>>, Zero, <<Tab(At(11), "a"), Tab(At(25), "b")>>),
                  NoteIn(<<2, 16, -4>>, Zero, <<Tab(Failed, "a"), Bad("odd")>>),
                  NoteIn(<<2, 15>>, At(21), <<Tab(At(11), "b")>>),
                  [NoteIn(<<2, 15>>, Zero, <<Tab(At(11), "a")>>) EXCEPT !.titled = TRUE],
                  NoteIn(<<2, 15>>, Zero, <<Tab(At(11), "a"), Tab(At(25), "b")>>)>>)>>)
        EXCEPT !.list = {"a"}]

Vmu == [NoMime2("application", "octet-stream") EXCEPT !.type = "hpkt-vmu2", !.subtype = "image"]
Hpkt(ext, t, base) == [Made(t, t) EXCEPT !.ext = ext, !.base = base]
Hdk == Config("mkhdk",
         <<Sec([Data0 EXCEPT !.mime = Vmu], <<Hpkt(".dat", At(15), <<-3, 15, 4, 5>>),
               Hpkt(".xml", Zero, <<1>>), Hpkt(".bad", Zero, <<1>>), Hpkt(".dat", At(15), <<-3, 15, 4, 5>>)>>),
           Sec([Mim("image", "png") EXCEPT !.level = 1],
               <<Hpkt(".dat", Zero, <<-3, 380, 4, 5>>), Hpkt(".dat", Zero, <<-3, -5, 4, 5>>),
                 Hpkt(".dat", Zero, <<1, 2>>)>>)>>)
Loose == [Config("mkhdk",
           <<Sec([Data0 EXCEPT !.mime = Vmu, !.func = "hdk"], <<Hpkt(".bad", Zero, <<-3, 380, 4, 5>>)>>)>>)
          EXCEPT !.skipbad = FALSE]

Others == <<Made(At(15), At(40)), Made(Zero, Zero), Made(At(15), At(40))>>
Mov == Config("mkmov", <<Sec([Mim("video", "quicktime") EXCEPT !.func = "now"], Others)>>)
Pdf == Config("mkpdf", <<Sec([Mim("application", "pdf") EXCEPT !.acq = At(12)], Others)>>)

(* One file below three directories, and patterns of all kinds.            *)
Deep == Path(<<-7, -8, -6>>, <<1>>)
Pat(p) == Config("mkfile", <<Sec([Typ("raw data") EXCEPT !.pattern = p, !.acq = At(60) + 3 * Hour + 131,
                                                         !.mime = NoMime2("text", "")], <<Deep>>)>>)
Named == {"run", "source", "model", "mime", "type", "level", "month", "day", "hour", "min",
          "sec", "timestamp", "else"}
Patterns1 ==
    {<< <<Txt("x", 1), Rng(a, b)>>, <<Txt("y", 1)>> >> : a \in -4 .. 4, b \in -4 .. 4}
    \cup {<< <<Idx(k)>>, <<Txt("y", 1), Idx(1)>> >> : k \in -1 .. 3}
    \cup {<< <<Txt("x", 1), Name(nm, 5)>> >> : nm \in Named}
    \cup {<< >>, << << >> >>, << <<Txt("level", 5), Name("level", 5)>> >>,
          << <<Txt("x", 1), Is("nothing", 0)>> >>, << <<Is("nothing", 0)>> >>,
          << <<Is("open", 4)>> >>, << <<Txt("x", 1), Is("numeral", 2)>> >>}

McConfigs ==
    {Files0, Csv("mkcsv"), Csv("mkmma"), Rt, Nef, Icn, Hdk, Loose, Mov, Pdf}
    \cup {Pat(p) : p \in Patterns1}
----------------------------------------------------------------------------
(* Three containers, of which each has an entry of its own and may have a  *)
(* base and an include; the fourth is unknown.  Some are filled, and what  *)
(* they include is left to those that take over from them.                 *)
Fsl0 == {-9}
E(x) == [name |-> x, include |-> x > 0]
Box(b, es) == [base |-> b, entries |-> es, abstract |-> FALSE, root |-> FALSE, fill |-> FALSE]
Boxes(x) == {Box(b, es) : b \in (0 .. 4) \ {x},
                          es \in {<<E(-x), E(y)>> : y \in 1 .. 4} \cup {<<E(-9), E(-x)>>}}
Bare(x) == {Box(b, es) : b \in (0 .. 3) \ {x}, es \in {<<E(-x)>>, << >>}}
McDocuments ==
    {<<a, b, c>> : a \in Boxes(1), b \in Boxes(2), c \in Boxes(3)}
    \cup {<<a, [b EXCEPT !.abstract = k = 1, !.fill = k = 2, !.root = k = 3], c>> :
            a \in Bare(1), b \in Bare(2), c \in Bare(3), k \in 1 .. 3}
    \cup {<<a, [b EXCEPT !.fill = TRUE], c>> :
            a \in Boxes(1), b \in {Box(0, <<E(y)>>) : y \in {1, 3}}, c \in Bare(3)}

LibraryInit ==
    \/ /\ Init
       /\ given = << >> /\ self = FALSE /\ clean = FALSE /\ all = FALSE
       /\ data = << >> /\ i = 1 /\ stack = << >> /\ state = "idle" /\ out = {}
    \/ /\ InitTransform /\ (clean => ~ all)
       /\ config = Files0 /\ context = Context0 /\ pc = "idle" /\ s = 1
       /\ section = Data0 /\ f = 1 /\ dat = Data0 /\ n = 1 /\ count = 0 /\ runs = << >>
       /\ docs = {}
LibraryNext == (Next /\ UNCHANGED tvars) \/ (NextTransform /\ UNCHANGED vars)
LibrarySpec == LibraryInit /\ [][LibraryNext]_<<vars, tvars>>
============================================================================
