----------------------------- MODULE MCArchive -----------------------------
(***************************************************************************)
(* Small archives for TLC.                                                 *)
(***************************************************************************)
EXTENDS Archive, Collectors, TLC

(* A photo, with the output of one command and one embedded image, that     *)
(* mknef collects; then a second section with a picture it cannot expand.   *)
CamItem    == {"photo", "text", "image"}
CamKind    == ("photo" :> "file" @@ "text" :> "output" @@ "image" :> "image")
CamSource  == {"photo.nef"}
CamOrigin  == ("photo" :> "photo.nef")
CamPath    == {"a/photo", "a/text", "a/image", "a/log"}
CamTarget  == ("photo" :> "a/photo" @@ "text" :> "a/text"
               @@ "image" :> "a/image")
CamLink    == ("photo" :> "hard")
CamPlan    == ("photo" :> NefPlan("photo", <<"text">>, <<"image">>))
CamTodo    == ("mknef" :> <<"photo">>)
CamSection == ("photo" :> 1)
CamGiven   == ("photo" :> {"a/log"})

(* Two commands side by side: mkicn with a console note that names a        *)
(* parameter table and, in a second section, one that names none; mkmov     *)
(* with a film and the output of a command.  The links are of all kinds.   *)
TwoItem    == {"note", "upper", "bare", "film", "frame"}
TwoKind    == ("note" :> "note" @@ "upper" :> "table" @@ "bare" :> "note"
               @@ "film" :> "file" @@ "frame" :> "output")
TwoSource  == {"note.txt", "upper.dat", "bare.txt", "film.mov"}
TwoOrigin  == ("note" :> "note.txt" @@ "upper" :> "upper.dat"
               @@ "bare" :> "bare.txt" @@ "film" :> "film.mov")
TwoPath    == {"a/note", "a/upper", "a/bare", "a/film", "a/frame"}
TwoTarget  == ("note" :> "a/note" @@ "upper" :> "a/upper"
               @@ "bare" :> "a/bare" @@ "film" :> "a/film"
               @@ "frame" :> "a/frame")
TwoLink    == ("note" :> "soft" @@ "upper" :> "hard" @@ "bare" :> "other"
               @@ "film" :> "relative")
TwoPlan    == ("note" :> NotePlan("note", <<"upper">>)
               @@ "bare" :> NotePlan("bare", << >>)
               @@ "film" :> MovPlan("film", <<"frame">>))
TwoTodo    == ("mkicn" :> <<"note", "bare">> @@ "mkmov" :> <<"film">>)
TwoSection == ("note" :> 1 @@ "bare" :> 2 @@ "film" :> 1)
TwoGiven   == ("note" :> {"a/film"} @@ "bare" :> {} @@ "film" :> {"a/upper"})

(* mkcsv alone, with two sheets of one section.                            *)
CsvItem    == {"sheet", "table"}
CsvKind    == ("sheet" :> "file" @@ "table" :> "file")
CsvSource  == {"sheet.csv", "table.csv"}
CsvOrigin  == ("sheet" :> "sheet.csv" @@ "table" :> "table.csv")
CsvPath    == {"a/sheet", "a/table", "a/log"}
CsvTarget  == ("sheet" :> "a/sheet" @@ "table" :> "a/table")
CsvLink    == ("sheet" :> "hard" @@ "table" :> "soft")
CsvPlan    == ("sheet" :> PlainPlan("sheet") @@ "table" :> PlainPlan("table"))
CsvTodo    == ("mkcsv" :> <<"sheet", "table">>)
CsvSection == ("sheet" :> 1 @@ "table" :> 1)
CsvGiven   == ("sheet" :> {"a/log"} @@ "table" :> {"a/sheet"})
----------------------------------------------------------------------------
(* README.md:78 to 80: the files of the listed directories are extracted and *)
(* stored into the archive.  A run that reports no error has stored all of *)
(* them (mkfile collectData and its likes).                                *)
SilentRunIsComplete ==
    \A c \in Command : pc[c] = "done" /\ ~ reported[c] /\ quiet[c] =>
        \A k \in DOMAIN Todo[c] : meta[Target[Todo[c][k]]].state = "doc"

(* README.md:89: what is at the final location is a data file and its      *)
(* related metadata (Archive.Store), at least when a run has just ended    *)
(* without an error and no source changed while it ran.                    *)
MetadataIsRelated ==
    \A c \in Command : pc[c] = "done" /\ Clean(c) =>
        \A k \in DOMAIN Todo[c] :
            LET f == Target[Todo[c][k]]
            IN  meta[f].state = "doc" => Holds(f, meta[f].sum)
============================================================================
