------------------------------ MODULE Archive ------------------------------
(***************************************************************************)
(* The archive that the mk* commands fill (meta.go, build.go, cmd/mkXXX).  *)
(*                                                                         *)
(* A command walks source trees.  Each file it keeps is a product: it is   *)
(* read (ReadFile computes its checksum), then the items of its plan are   *)
(* stored one after the other.  Storing an item puts a data file under     *)
(* datadir (a link to the source, or a file created from a buffer), then   *)
(* an XML document under metadir that holds the checksum and the links to  *)
(* related items.  Nothing makes the sequence atomic: the process may be   *)
(* killed anywhere, calls may fail anywhere, sources may change at any     *)
(* time, and commands run side by side on the same directories.            *)
(*                                                                         *)
(* An inode is <<name, g>>: the g-th file that carried the name.  Checksums *)
(* are free of collisions, so that the checksum of a content is the        *)
(* content itself.  No code removes anything from the archive.             *)
(*                                                                         *)
(* An operator X_Y is a mutant of X: what a plausible bug would make of it. *)
(* The runs replace X by it to show that their properties notice.          *)
(***************************************************************************)
EXTENDS Integers, Sequences

CONSTANTS
    Source,       \* files of the source trees
    Path,         \* places in the archive: d.Resolve() joined with a base name
    Content,      \* what a complete file can hold
    Partial,      \* what a truncated or half written file holds
    Command,      \* running mk* processes
    Item,         \* files that the commands put in the archive
    Kind,         \* Kind[i]: "file", "note", "table", "output" or "image"
    Origin,       \* Origin[i]: the source that a linked item links to
    Target,       \* Target[i]: the place of the item
    LinkKind,     \* LinkKind[i]: "hard", "soft", "relative" or "other"
    Plan,         \* Plan[p]: the items stored for the product p, in order
    Todo,         \* Todo[c]: the products of the command, in the order walked
    Section,      \* Section[p]: the [[file]] section that p comes from
    Given,        \* Given[p]: the places that the links of that section name
    MaxRuns,      \* bound: runs of one command
    MaxEdits,     \* bound: changes of the sources
    MaxReplaces   \* bound: times a source gets a new inode

Product == {i \in Item : Kind[i] \in {"file", "note"}}
Linked  == {i \in Item : Kind[i] \in {"file", "note", "table"}}
Created == {i \in Item : Kind[i] \in {"output", "image"}}

ASSUME BoundsAssumption ==
    /\ MaxRuns \in Nat \ {0}
    /\ MaxEdits \in Nat
    /\ MaxReplaces \in Nat

ASSUME DataAssumption ==
    /\ Partial \notin Content
    /\ Source \cap Path = {}
    /\ Path # {}

ASSUME ItemAssumption ==
    /\ Kind \in [Item -> {"file", "note", "table", "output", "image"}]
    /\ Origin \in [Linked -> Source]
    /\ Target \in [Item -> Path]
    /\ LinkKind \in [Linked -> {"hard", "soft", "relative", "other"}]

ASSUME PlanAssumption ==
    /\ Given \in [Product -> SUBSET Path]
    /\ Todo \in [Command -> Seq(Product)]
    /\ Plan \in [Product -> Seq(Item)]
    /\ \A p \in Product :
         /\ Plan[p] # << >>
         /\ Plan[p][Len(Plan[p])] = p
         /\ \A k \in DOMAIN Plan[p] : Plan[p][k] \in Product => Plan[p][k] = p
         /\ Kind[p] = "note" => \A k \in 1 .. Len(Plan[p]) - 1 :
                                   Kind[Plan[p][k]] = "table"

VARIABLES
    gen,       \* gen[s]: which inode the name s stands for now
    body,      \* body[n]: what the inode holds
    entry,     \* entry[f]: the directory entry at f under datadir
    meta,      \* meta[f]: the document f.xml under metadir
    edits,     \* changes of the sources so far
    pc,        \* pc[c]: where the command is
    turn,      \* turn[c]: index in Todo[c] of the product at hand
    step,      \* step[c]: index in its plan of the item at hand
    sum,       \* sum[c]: checksum ReadFile computed for the product
    cur,       \* cur[c]: checksum (or buffer) of the item at hand
    fd,        \* fd[c]: inode that WriteFile opened
    links,     \* links[c]: items stored for the product so far (ks, links)
    run,       \* run[c]: number of the run
    reported,  \* reported[c]: the tracer counted an error in this run
    aborted,   \* aborted[c]: an error of filepath.Walk was dropped in this run
    quiet      \* quiet[c]: no source changed since the run began

files == <<gen, body, entry, meta, edits>>
procs == <<pc, turn, step, sum, cur, fd, links, run, reported, aborted, quiet>>
vars  == <<files, procs>>

Inode == (Source \cup Path) \X (0 .. MaxReplaces)
Bytes == Content \cup {Partial}

Original(s) == <<s, gen[s]>>

Entry == [kind : {"none", "file", "sym", "broken"}, ino : Inode]
Meta  == [state : {"none", "blank", "doc"}, sum : Bytes, links : SUBSET Path]

Blank == [state |-> "blank", sum |-> Partial, links |-> {}]

(* The inode that opening f in the archive leads to.                       *)
Opened(f) == IF entry[f].kind = "sym" THEN Original(entry[f].ino[1])
                                      ELSE entry[f].ino

Readable(f) == entry[f].kind \in {"file", "sym"}

TypeOK ==
    /\ gen \in [Source -> 0 .. MaxReplaces]
    /\ body \in [Inode -> Bytes]
    /\ entry \in [Path -> Entry]
    /\ \A f \in Path : entry[f].kind = "sym" => entry[f].ino[1] \in Source
    /\ meta \in [Path -> Meta]
    /\ edits \in 0 .. MaxEdits
    /\ pc \in [Command -> {"walk", "step", "place", "fill", "meta", "text",
                           "done", "down"}]
    /\ turn \in [Command -> Nat \ {0}]
    /\ step \in [Command -> Nat \ {0}]
    /\ sum \in [Command -> Bytes]
    /\ cur \in [Command -> Bytes]
    /\ fd \in [Command -> Inode]
    /\ links \in [Command -> SUBSET Path]
    /\ run \in [Command -> 1 .. MaxRuns]
    /\ reported \in [Command -> BOOLEAN]
    /\ aborted \in [Command -> BOOLEAN]
    /\ quiet \in [Command -> BOOLEAN]
    /\ \A c \in Command : pc[c] \in {"step", "place", "fill", "meta", "text"} =>
         /\ turn[c] \in DOMAIN Todo[c]
         /\ step[c] \in DOMAIN Plan[Todo[c][turn[c]]]

Init ==
    /\ gen = [s \in Source |-> 0]
    /\ \E first \in [Source -> Content] :
         body = [n \in Inode |-> IF n[1] \in Source /\ n[2] = 0
                                 THEN first[n[1]] ELSE Partial]
    /\ entry = [f \in Path |-> [kind |-> "none", ino |-> <<f, 0>>]]
    /\ meta = [f \in Path |-> [state |-> "none", sum |-> Partial, links |-> {}]]
    /\ edits = 0
    /\ pc = [c \in Command |-> "walk"]
    /\ turn = [c \in Command |-> 1]
    /\ step = [c \in Command |-> 1]
    /\ sum = [c \in Command |-> Partial]
    /\ cur = [c \in Command |-> Partial]
    /\ fd = [c \in Command |-> CHOOSE n \in Inode : TRUE]
    /\ links = [c \in Command |-> {}]
    /\ run = [c \in Command |-> 1]
    /\ reported = [c \in Command |-> FALSE]
    /\ aborted = [c \in Command |-> FALSE]
    /\ quiet = [c \in Command |-> TRUE]
----------------------------------------------------------------------------
Current(c) == Todo[c][turn[c]]
Here(c)    == Plan[Current(c)][step[c]]

(* The place of the item at hand; Command.Exec adds the extension that     *)
(* tells an output from its product.                                       *)
Place_NoExt(c) == Target[Current(c)]
Place(c) == Target[Here(c)]

(* The product at hand is finished or given up: the walk goes on.          *)
Leave(c) ==
    /\ pc' = [pc EXCEPT ![c] = "walk"]
    /\ turn' = [turn EXCEPT ![c] = @ + 1]
    /\ step' = [step EXCEPT ![c] = 1]

(* The item at hand is finished or given up: the plan goes on.             *)
Advance_Past(c) ==
    /\ pc' = [pc EXCEPT ![c] = "step"]
    /\ step' = [step EXCEPT ![c] = @ + 1]
    /\ UNCHANGED turn
Advance(c) ==
    \/ /\ step[c] < Len(Plan[Current(c)])
       /\ pc' = [pc EXCEPT ![c] = "step"]
       /\ step' = [step EXCEPT ![c] = @ + 1]
       /\ UNCHANGED turn
    \/ /\ step[c] = Len(Plan[Current(c)])
       /\ Leave(c)

(* ReadFile computes the checksum of the next file of the walk.            *)
ReadSource(c) ==
    /\ pc[c] = "walk"
    /\ turn[c] \in DOMAIN Todo[c]
    /\ sum' = [sum EXCEPT ![c] = body[Original(Origin[Current(c)])]]
    /\ links' = [links EXCEPT ![c] = {}]
    /\ pc' = [pc EXCEPT ![c] = "step"]
    /\ step' = [step EXCEPT ![c] = 1]
    /\ UNCHANGED <<files, turn, cur, fd, run, reported, aborted, quiet>>

(* The file cannot be read or decoded: reported, the walk goes on.         *)
ReadFails(c) ==
    /\ pc[c] = "walk"
    /\ turn[c] \in DOMAIN Todo[c]
    /\ reported' = [reported EXCEPT ![c] = TRUE]
    /\ Leave(c)
    /\ UNCHANGED <<files, sum, cur, fd, links, run, aborted, quiet>>

(* filepath.Walk hands an error to the callback, which returns it: the     *)
(* walk of the section ends, and collectData drops what Walk returns.      *)
WalkAborts(c) ==
    /\ pc[c] = "walk"
    /\ turn[c] \in DOMAIN Todo[c]
    /\ \E k \in turn[c] + 1 .. Len(Todo[c]) + 1 :
         /\ \A j \in turn[c] .. k - 1 :
              Section[Todo[c][j]] = Section[Current(c)]
         /\ k \in DOMAIN Todo[c] => Section[Todo[c][k]] # Section[Current(c)]
         /\ turn' = [turn EXCEPT ![c] = k]
    /\ aborted' = [aborted EXCEPT ![c] = TRUE]
    /\ UNCHANGED <<files, pc, step, sum, cur, fd, links, run, reported, quiet>>

EndRun(c) ==
    /\ pc[c] = "walk"
    /\ turn[c] \notin DOMAIN Todo[c]
    /\ pc' = [pc EXCEPT ![c] = "done"]
    /\ UNCHANGED <<files, turn, step, sum, cur, fd, links, run, reported,
                   aborted, quiet>>

(* A console note none of whose tables was stored is not stored either,    *)
(* and nothing is reported.                                                *)
SkipNote(c) ==
    /\ pc[c] = "step"
    /\ Kind[Here(c)] = "note"
    /\ links[c] = {}
    /\ Leave(c)
    /\ UNCHANGED <<files, sum, cur, fd, links, run, reported, aborted, quiet>>

(* The checksums the item at hand can get: a product was read when its     *)
(* turn began, a table is read now, an output or an image is produced now. *)
Sums_Stale(c) == IF Here(c) \in Linked THEN {sum[c]} ELSE Content
Sums(c) ==
    CASE Here(c) \in Product -> {sum[c]}
      [] Kind[Here(c)] = "table" -> {body[Original(Origin[Here(c)])]}
      [] Here(c) \in Created -> Content

Prepare(c) ==
    /\ pc[c] = "step"
    /\ Kind[Here(c)] = "note" => links[c] # {}
    /\ \E v \in Sums(c) : cur' = [cur EXCEPT ![c] = v]
    /\ pc' = [pc EXCEPT ![c] = "place"]
    /\ UNCHANGED <<files, turn, step, sum, fd, links, run, reported, aborted,
                   quiet>>

(* The entry that storeLink creates for the item.                          *)
NewLink_Forgotten(i) == [kind |-> "none", ino |-> <<Origin[i], 0>>]
NewLink(i) ==
    CASE LinkKind[i] = "hard" -> [kind |-> "file", ino |-> Original(Origin[i])]
      [] LinkKind[i] = "soft" -> [kind |-> "sym", ino |-> <<Origin[i], 0>>]
      [] LinkKind[i] = "relative" ->
             [kind |-> "broken", ino |-> <<Origin[i], 0>>]

(* storeLink: an entry that is already there is kept, and that is no error. *)
Link(c) ==
    /\ pc[c] = "place"
    /\ Here(c) \in Linked
    /\ LinkKind[Here(c)] # "other"
    /\ \/ /\ entry[Place(c)].kind = "none"
          /\ entry' = [entry EXCEPT ![Place(c)] = NewLink(Here(c))]
       \/ /\ entry[Place(c)].kind # "none"
          /\ UNCHANGED entry
    /\ pc' = [pc EXCEPT ![c] = "meta"]
    /\ UNCHANGED <<gen, body, meta, edits, turn, step, sum, cur, fd, links,
                   run, reported, aborted, quiet>>

(* storeFile opens the file: WriteFile truncates what the entry leads to,  *)
(* the source itself when the entry is a link.                             *)
Truncate(c) ==
    /\ pc[c] = "place"
    /\ Here(c) \in Created
    /\ entry[Place(c)].kind # "broken"
    /\ LET n == IF Readable(Place(c)) THEN Opened(Place(c))
                                      ELSE <<Place(c), 0>>
       IN  /\ body' = [body EXCEPT ![n] = Partial]
           /\ fd' = [fd EXCEPT ![c] = n]
    /\ entry' = IF Readable(Place(c)) THEN entry
                ELSE [entry EXCEPT ![Place(c)] =
                        [kind |-> "file", ino |-> <<Place(c), 0>>]]
    /\ pc' = [pc EXCEPT ![c] = "fill"]
    /\ UNCHANGED <<gen, meta, edits, turn, step, sum, cur, links, run,
                   reported, aborted, quiet>>

(* storeFile writes the whole buffer.                                      *)
Fill_Short(c) ==
    /\ pc[c] = "fill"
    /\ pc' = [pc EXCEPT ![c] = "meta"]
    /\ UNCHANGED <<files, turn, step, sum, cur, fd, links, run, reported,
                   aborted, quiet>>
Fill(c) ==
    /\ pc[c] = "fill"
    /\ body' = [body EXCEPT ![fd[c]] = cur[c]]
    /\ pc' = [pc EXCEPT ![c] = "meta"]
    /\ UNCHANGED <<gen, entry, meta, edits, turn, step, sum, cur, fd, links,
                   run, reported, aborted, quiet>>

(* storeMeta creates the document, which truncates the one that was there. *)
CreateMeta(c) ==
    /\ pc[c] = "meta"
    /\ meta' = [meta EXCEPT ![Place(c)] = Blank]
    /\ pc' = [pc EXCEPT ![c] = "text"]
    /\ UNCHANGED <<gen, body, entry, edits, turn, step, sum, cur, fd, links,
                   run, reported, aborted, quiet>>

(* The links of a document.  Those that the configuration gives the section *)
(* come first, whether or not anything is stored there; only the images     *)
(* lose them (ClearLinks).  A product's document then names what was stored *)
(* for it so far, those of the other items name their product.             *)
Inherited(c) == IF Kind[Here(c)] = "image" THEN {} ELSE Given[Current(c)]
LinksOf_Planned(c) ==
    {Target[Plan[Current(c)][k]] : k \in 1 .. Len(Plan[Current(c)]) - 1}
        \cup Inherited(c)
LinksOf_None(c) ==
    Inherited(c) \cup (IF Here(c) \in Product THEN links[c] ELSE {})
LinksOf(c) ==
    Inherited(c) \cup (IF Here(c) \in Product THEN links[c]
                                             ELSE {Target[Current(c)]})

(* EncodeData completes the document; the product will link to the item.   *)
Encode(c) ==
    /\ pc[c] = "text"
    /\ meta' = [meta EXCEPT ![Place(c)] =
                  [state |-> "doc", sum |-> cur[c], links |-> LinksOf(c)]]
    /\ links' = IF Here(c) \in Product THEN links
                ELSE [links EXCEPT ![c] = @ \cup {Place(c)}]
    /\ Advance(c)
    /\ UNCHANGED <<gen, body, entry, edits, sum, cur, fd, run, reported,
                   aborted, quiet>>

(* Does the failure of the item reach the tracer?  The commands of a       *)
(* builder fail in silence; an image is reported unless the camera file    *)
(* could not be opened again, or its file not be created.                  *)
Verdicts_Silent(i, at) == {FALSE}
Verdicts(i, at) ==
    CASE i \in Linked -> {TRUE}
      [] Kind[i] = "output" -> {FALSE}
      [] Kind[i] = "image" -> IF at = "step" THEN BOOLEAN ELSE {FALSE}

(* Whatever produces or stores the item fails, at any point of it.  What   *)
(* is on disk stays there.  The failure of a product ends its plan; after  *)
(* any other the plan goes on, without a link to the item.                 *)
ItemFails(c) ==
    /\ \/ pc[c] = "step" /\ Here(c) \notin Product
       \/ pc[c] \in {"place", "fill", "meta", "text"}
    /\ \E v \in Verdicts(Here(c), pc[c]) :
         reported' = [reported EXCEPT ![c] = @ \/ v]
    /\ IF Here(c) \in Product THEN Leave(c) ELSE Advance(c)
    /\ UNCHANGED <<files, sum, cur, fd, links, run, aborted, quiet>>

Work(c) ==
    \/ ReadSource(c) \/ ReadFails(c) \/ WalkAborts(c) \/ EndRun(c)
    \/ SkipNote(c) \/ Prepare(c) \/ Link(c) \/ Truncate(c) \/ Fill(c)
    \/ CreateMeta(c) \/ Encode(c) \/ ItemFails(c)
----------------------------------------------------------------------------
Running(c) == pc[c] \notin {"done", "down"}

(* The process is killed, or the machine stops: the files stay as they are. *)
Kill(c) ==
    /\ Running(c)
    /\ pc' = [pc EXCEPT ![c] = "down"]
    /\ UNCHANGED <<files, turn, step, sum, cur, fd, links, run, reported,
                   aborted, quiet>>

(* The command is started again on the same archive.                       *)
Rerun(c) ==
    /\ ~ Running(c)
    /\ run[c] < MaxRuns
    /\ pc' = [pc EXCEPT ![c] = "walk"]
    /\ turn' = [turn EXCEPT ![c] = 1]
    /\ step' = [step EXCEPT ![c] = 1]
    /\ run' = [run EXCEPT ![c] = @ + 1]
    /\ reported' = [reported EXCEPT ![c] = FALSE]
    /\ aborted' = [aborted EXCEPT ![c] = FALSE]
    /\ quiet' = [quiet EXCEPT ![c] = TRUE]
    /\ UNCHANGED <<files, sum, cur, fd, links>>

Changed ==
    /\ edits < MaxEdits
    /\ edits' = edits + 1
    /\ quiet' = [c \in Command |-> FALSE]
    /\ UNCHANGED <<pc, turn, step, sum, cur, fd, links, run, reported, aborted>>

(* A source is rewritten in place.                                         *)
Edit(s) ==
    /\ Changed
    /\ \E v \in Content : body' = [body EXCEPT ![Original(s)] = v]
    /\ UNCHANGED <<gen, entry, meta>>

(* A source is replaced by a new file of the same name (saved under another *)
(* name and renamed, delivered again by rsync or secop).                   *)
Replace(s) ==
    /\ Changed
    /\ gen[s] < MaxReplaces
    /\ gen' = [gen EXCEPT ![s] = @ + 1]
    /\ \E v \in Content : body' = [body EXCEPT ![<<s, gen[s] + 1>>] = v]
    /\ UNCHANGED <<entry, meta>>

Next ==
    \/ \E c \in Command : Work(c) \/ Kill(c) \/ Rerun(c)
    \/ \E s \in Source : Edit(s) \/ Replace(s)

Spec == Init /\ [][Next]_vars
----------------------------------------------------------------------------
(* Items have places of their own, each product is walked once, and what   *)
(* is derived is derived once.  The patterns and the sections of the       *)
(* configurations decide whether that holds; the code does not check it.   *)
OwnPlaces == \A i, j \in Item : Target[i] = Target[j] => i = j
OwnTurns ==
    \A c, d \in Command : \A k \in DOMAIN Todo[c], l \in DOMAIN Todo[d] :
        Todo[c][k] = Todo[d][l] => c = d /\ k = l
OwnSteps ==
    \A p, q \in Product : \A k \in DOMAIN Plan[p], l \in DOMAIN Plan[q] :
        Plan[p][k] = Plan[q][l] /\ Plan[p][k] \notin Product => p = q /\ k = l
Distinct == OwnPlaces /\ OwnTurns /\ OwnSteps

Holds(f, v) == Readable(f) /\ body[Opened(f)] = v

(* A hard link follows its source as long as the source keeps its inode, a *)
(* symbolic link always; one with a relative target leads nowhere.         *)
Steady(i) ==
    i \in Linked => \/ LinkKind[i] = "soft"
                    \/ LinkKind[i] = "hard" /\ gen[Origin[i]] = 0

(* The document of the item is complete and its checksum is right.         *)
Described(i) ==
    /\ meta[Target[i]].state = "doc"
    /\ Steady(i) => Holds(Target[i], meta[Target[i]].sum)

(* The links of a product's document, apart from the configured ones.      *)
Collected(p) == meta[Target[p]].links \ Given[p]

(* So are those of the items that were stored for the product and that its *)
(* document names, and they link back.                                     *)
Filed(p) ==
    /\ Described(p)
    /\ \A i \in Item : Target[i] \in Collected(p) =>
         /\ Described(i)
         /\ Target[p] \in meta[Target[i]].links

Clean(c) == ~ reported[c] /\ ~ aborted[c] /\ quiet[c]

(* Only a note that names no table may be left out.                        *)
Optional(p) == Kind[p] = "note" /\ Len(Plan[p]) = 1

(* No document without its data file, after any failure or crash: the      *)
(* document is created after the link or the file (Archive.Store,          *)
(* Archive.CreateFile).                                                    *)
NoOrphanMetadata ==
    \A f \in Path : meta[f].state # "none" => entry[f].kind # "none"

(* Apart from the places that its section names in the configuration,      *)
(* which the code takes as they are, the document of a product never names *)
(* a place that has no data file or that never got a document: a link is   *)
(* collected after the item is stored (ExecuteCommands, storeTables, the   *)
(* callback of extractImages).                                             *)
MainLinksResolve ==
    \A p \in Product : meta[Target[p]].state = "doc" =>
        \A f \in Collected(p) :
            entry[f].kind # "none" /\ meta[f].state # "none"

(* A run that ends without an error or a broken walk, while no source      *)
(* changed, leaves each of its products complete: right checksums, and     *)
(* links both ways, those of the configuration apart.  Whatever earlier    *)
(* runs left behind, half written files and documents included, has been   *)
(* repaired.                                                               *)
CleanRunIsConsistent ==
    \A c \in Command : pc[c] = "done" /\ Clean(c) =>
        \A k \in DOMAIN Todo[c] : Optional(Todo[c][k]) \/ Filed(Todo[c][k])

(* During a first run, failures and a crash included, a complete document  *)
(* has the checksum of what is in the archive.                             *)
FirstRunIsTrue ==
    \A c \in Command : run[c] = 1 /\ quiet[c] =>
        \A k \in DOMAIN Todo[c] : \A j \in DOMAIN Plan[Todo[c][k]] :
            LET i == Plan[Todo[c][k]][j]
            IN  meta[Target[i]].state = "doc" => Described(i)

(* The output or the image at hand was given the place of a file of the    *)
(* source s, by the patterns of the configuration.                         *)
Clash(c, s) ==
    /\ pc[c] \in {"place", "fill"}
    /\ Here(c) \in Created
    /\ \E j \in Linked : Origin[j] = s /\ Target[j] = Target[Here(c)]

(* The commands write to a source only where an output or an image has     *)
(* been given the place of a link to it, although the archive shares       *)
(* inodes with the source tree and WriteFile follows links; that one case  *)
(* the code does not rule out.                                             *)
SourcesPreserved ==
    [][\A n \in Inode : n[1] \in Source /\ body'[n] # body[n]
            => edits' = edits + 1 \/ \E c \in Command : Clash(c, n[1])]_vars

(* The catalogue that a reader of the archive sees.                        *)
Shelf == [f \in Path |->
            CASE entry[f].kind = "none" -> "absent"
              [] entry[f].kind # "none" /\ meta[f].state = "doc" -> "described"
              [] OTHER -> "placed"]
Refs == [f \in Path |->
            UNION {Collected(p) : p \in {q \in Product : Target[q] = f}}]

Published == INSTANCE Catalog WITH shelf <- Shelf, refs <- Refs

(* The archive implements the catalogue.                                   *)
ImplementsCatalog == Published!Spec
============================================================================
