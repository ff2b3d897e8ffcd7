----------------------------- MODULE Collectors ----------------------------
(***************************************************************************)
(* The order in which the collectData functions of the mk commands store   *)
(* what they derive from one file.                                         *)
(***************************************************************************)
EXTENDS Sequences

(* mkfile, and the commands that parse records (mkcsv, mkmma, mkrt, mkhdk,  *)
(* mkpdf): the file alone.                                                 *)
PlainPlan(p) == <<p>>

(* mkmov: what the configured commands print, then the film.               *)
MovPlan(p, outputs) == Append(outputs, p)

(* mknef: the outputs, the raw file so that its images can name it, the    *)
(* images, and the raw file again so that its document names them.         *)
NefPlan(p, outputs, images) ==
    Append(outputs, p) \o Append(images, p)

(* mkicn: the parameter tables that the note names, then the note.         *)
NotePlan(p, tables) == Append(tables, p)
============================================================================
