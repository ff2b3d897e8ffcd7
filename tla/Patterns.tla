------------------------------ MODULE Patterns ------------------------------
(***************************************************************************)
(* path.go: the pattern that says where in the archive a file goes.        *)
(*                                                                         *)
(* A pattern is a sequence of segments, which slashes separate; a segment  *)
(* is a sequence of pieces.  A piece is a text or what stands in braces:   *)
(* the name of a fragment, an index, a range, nothing, something that is   *)
(* no number although it begins like one; or it is a brace that nothing    *)
(* closes.  size is the number of characters of the text, or between the   *)
(* braces.  Indices with a plus sign are left out.                         *)
(*                                                                         *)
(* A place is a sequence of names, and a name a sequence of values.        *)
(***************************************************************************)
EXTENDS Times, SequencesExt

(* parse looks for the end of a placeholder from its brace on, and for its *)
(* brace from the last placeholder on: it compares two different offsets   *)
(* when it asks whether there is anything in between.                      *)
Ahead(seg, k) == IF k > 1 /\ seg[k - 1].is = "text" THEN seg[k - 1].size ELSE 0

Verdict(seg, k) ==
    IF seg[k].is = "text" THEN "fine"
    ELSE IF seg[k].is = "open" \/ seg[k].size = Ahead(seg, k) THEN "refused"
    ELSE IF seg[k].is = "nothing" THEN "panic"
    ELSE IF seg[k].is = "numeral" THEN "refused"
    ELSE "fine"

(* The first verdict that is not fine ends the parsing.                    *)
Parse(pattern) ==
    LET bad(seg) == {k \in DOMAIN seg : Verdict(seg, k) # "fine"}
        segs == {s \in DOMAIN pattern : bad(pattern[s]) # {}}
        seg  == pattern[Min(segs)]
    IN  IF segs = {} THEN "fine" ELSE Verdict(seg, Min(bad(seg)))
----------------------------------------------------------------------------
normalize_Last(index, size) ==
    LET i == IF index < 0 THEN size + index - 1 ELSE index
    IN  IF i < 0 THEN 0 ELSE IF i >= size THEN size ELSE i
normalize(index, size) ==
    LET i == IF index < 0 THEN size + index ELSE index
    IN  IF i < 0 THEN 0 ELSE IF i >= size THEN size ELSE i

(* dirs is never empty: a file without directories lies in ".".            *)
Panics(piece, dirs) ==
    \/ piece.is = "index" /\ piece.from < 0
    \/ /\ piece.is = "range"
       /\ normalize(piece.from, Len(dirs)) = Len(dirs)
       /\ normalize(piece.to, Len(dirs)) = Len(dirs)

IndexOf(piece, dirs) ==
    IF piece.from < Len(dirs) THEN << <<"dirs", <<dirs[piece.from + 1]>> >> >> ELSE << >>

RangeOf(piece, dirs) ==
    LET begin == normalize(piece.from, Len(dirs))
        end   == normalize(piece.to, Len(dirs))
    IN  IF end < begin THEN << >>
        ELSE IF end = begin THEN << <<"dirs", <<dirs[begin + 1]>> >> >>
        ELSE << <<"dirs", SubSeq(dirs, begin + 1, end)>> >>

(* Titles are set in capitals and lose their blanks; nothing stays nothing. *)
Tagged(tag, v) == IF v = "" THEN << >> ELSE << <<tag, v>> >>

(* The subtype, or all there is when there is no subtype.                  *)
splitMime(m) == IF m.sub = "" THEN m.main ELSE m.sub

(* An unknown name resolves to nothing, whatever it says.                  *)
Fragment(name, d) ==
    CASE name = "run"                  -> Tagged("as is", d.source)
      [] name = "source"               -> Tagged("title", d.source)
      [] name = "model"                -> Tagged("title", d.model)
      [] name \in {"mime", "format"}   -> Tagged("title", splitMime(d.mime))
      [] name = "type"                 -> Tagged("title", d.type)
      [] name = "level"                -> << <<"level", d.level>> >>
      [] name = "year"                 -> << <<"4", YearOf(d.acq)>> >>
      [] name = "doy"                  -> << <<"3", YearDay(d.acq)>> >>
      [] name = "month"                -> << <<"2", MonthOf(d.acq)>> >>
      [] name = "day"                  -> << <<"2", DayOf(d.acq)>> >>
      [] name = "hour"                 -> << <<"2", HourOf(d.acq)>> >>
      [] name \in {"min", "minute"}    -> << <<"2", MinuteOf(d.acq)>> >>
      [] name \in {"sec", "second"}    -> << <<"2", SecondOf(d.acq)>> >>
      [] name = "timestamp"            -> << <<"unix", d.acq \div Second>> >>
      [] OTHER                         -> << >>

Piece(piece, d) ==
    CASE piece.is = "text"  -> Tagged("as is", piece.text)
      [] piece.is = "name"  -> Fragment(piece.text, d)
      [] piece.is = "index" -> IndexOf(piece, d.file.dirs)
      [] piece.is = "range" -> RangeOf(piece, d.file.dirs)

Segment(seg, d) == FlattenSeq([k \in DOMAIN seg |-> Piece(seg[k], d)])

(* filepath.Join leaves out what is empty.                                 *)
Join(names) == SelectSeq(names, LAMBDA n : n # << >>)
Resolve(pattern, d) == Join([s \in DOMAIN pattern |-> Segment(pattern[s], d)])

ResolvePanics(pattern, d) ==
    \E s \in DOMAIN pattern : \E k \in DOMAIN pattern[s] :
        Panics(pattern[s][k], d.file.dirs)
============================================================================
