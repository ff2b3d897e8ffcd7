# A verification of prospect

prospect builds an archive of the data of an experiment. Its `mk*` commands walk source
trees, put each file into the archive as a link and write an XML document beside it;
`mkarc` runs these commands together; `secop` moves directories to an SFTP server;
`retriev` downloads daily archives of parameters; `transform` rewrites configurations; a
plugin reads mailboxes. This directory holds TLA+ models of these programs, the TLC
configurations that check them, and proofs checked by TLAPS.

    tlc -config ArchiveCamera.cfg MCArchive.tla      # one run, see "The runs"
    tlapm ArchiveConsistency.tla                     # one module of proofs

`PROJECT.json` lists the runs, the mutants, the source lines that each definition stands
for, the findings, the hazards and the theorems.

## The system

| component | source | state | operations | what is hard |
|---|---|---|---|---|
| archive store | `meta.go`, `build.go`, `command.go` | data files under `datadir`, documents under `metadir` | `ReadFile`, `Store` (link, then document), `CreateFile` (file, then document), `ExecuteCommands` | nothing is atomic; errors that are swallowed; links share inodes with the sources; several commands on one archive |
| collectors | `cmd/mkfile`, `mkmov`, `mknef`, `mkicn`, `mkcsv`, `mkmma`, `mkpdf`, `mkrt`, `mkhdk` | the product at hand and the links collected for it | `collectData`: walk, read, derive, store | order of what is stored; silent failures; the walk that ends early |
| mkarc | `cmd/mkarc` | permits, goroutines, children | acquire, go, children in order, release, last acquire | bound, release on every path, waiting for all |
| secop copy | `cmd/secop/client.go`, `copy.go` | local files, remote files, connections, workers | walk, skip, transfer, set time, remove | deferred calls after failures; the skip test after a crash; overlapping directories |
| secop monitor | `cmd/secop/report.go`, `monitor.go` | progress of the file at hand | report, receive | datagrams mixed, late, lost |
| retriev | `cmd/retriev` | daily archives or files | lists, days, hours, attempts | retries, errors passed over, partial archives |
| sections and metadata | `build.go`, `meta.go` | the section at hand | `Load`, `Build`, `Update`, `Accept`, `GetMime` | defaults and merging, state that leaks between files |
| patterns | `path.go` | - | parse, resolve | boundaries of slices |
| times | `time.go` | - | durations, times from names | carries, zero |
| transform | `cmd/transform` | the document being merged | `updateData`, `updateEntries` | documents that include each other |
| mbox plugin | `plugins/mbox` | the reader, the queue, `Maildir` | `Process`, `nextMessage`, `processMessage` | producer and consumer, removal of files still in use |

The collectors call the store through a `Builder`, which adds the metadata of its
configuration. They share nothing but the file system: two commands that `mkarc` runs side
by side meet only in the directories of the archive. `mkarc` and `secop` both bound their
goroutines with a weighted semaphore whose last `Acquire` asks for everything. `secop`
delivers files that other hosts archive: what it replaces is what `Replace` of the archive
model is about.

What makes each component correct:

- *store*: no document without data file; apart from the links of the configuration, a document
  names only what is there; checksums are those of the data; the sources are not written to as
  long as places are not shared; what a crash left is repaired by the next clean run.
- *mkarc*: the bound; the order of the children; nobody forgotten; an end.
- *secop*: nothing is removed that is not on the server or logged; a skip is never wrong.
- *retriev*: a success was answered for every piece; entries once and in order; nothing half done.
- *sections*: what one file says never gets into the document of another; increments are those
  of the acquisition time; records, times and durations are those of the file.
- *patterns, times*: agreement with a definition by arithmetic and by sequences.
- *mbox*: parts in order and once; the sum and the file are those of the part; kept files stay;
  an end.
- *transform*: each container ends up with the entries it should have by definition, in whatever
  order they are merged.

## The modules

| module | what it is |
|---|---|
| `Archive` | the store and the commands that fill it: sources as inodes, entries, documents, one program counter per command |
| `Collectors` | the plans: in which order each `collectData` stores what belongs to one file |
| `Catalog` | the abstract specification: what a reader of the archive may rely on at any time |
| `MCArchive` | the scenarios of the archive for TLC, and the claims of the README that the runs refute |
| `ArchiveProofs`, `ArchiveConsistency` | proofs about `Archive`: types, sources, links and the catalogue; clean runs |
| `MkArc`, `MCMkArc`, `MkArcProofs` | mkarc, its scenarios, its proofs |
| `Transfer`, `MCTransfer`, `TransferProofs` | secop copy, its scenarios, its proofs |
| `Retrieve`, `MCRetrieve`, `RetrieveProofs` | retriev |
| `Mailbox`, `MCMailbox`, `MailboxProofs` | the mbox plugin: reader, handlers, `Process`, the goroutine of each message |
| `Times` | durations as text, times out of names |
| `Patterns` | patterns of places: parsing, resolution |
| `Sections`, `SectionsProofs` | what each tool writes into its documents: `Build`, `Context`, `ReadFile`, the loops over records; proofs about it, `Patterns` and `Times` |
| `Transform`, `TransformProofs` | cmd/transform |
| `MCLibrary` | configurations and documents for `Sections` and `Transform`, as alternative behaviours of one run |

An operator named `X_Y` is a mutant of `X`: what a plausible bug would make of it. It is
used nowhere; a run with `X` replaced by it must fail.

### Archive

A source name stands for an inode `<<name, g>>`, which a replacement of the file changes and
an edit in place does not. `entry[f]` is what is under `datadir`: nothing, a file (a hard
link or a file of its own), a symbolic link, or a link that leads nowhere. `meta[f]` is the
document: none, `blank` (created, perhaps half written) or complete, with its checksum and
links. A checksum is the content itself: SHA-256 is taken to be free of collisions.

A command `c` works through `Todo[c]`, the products of its sections in the order of
`filepath.Walk`. `ReadSource` is `ReadFile`. Then the plan of the product is worked off item
by item: `Prepare` (the item is read or produced, and its checksum taken), `Link` (`storeLink`)
or `Truncate` and `Fill` (the two halves of `WriteFile`), `CreateMeta` and `Encode` (the two
halves of `storeMeta`, which truncates before it writes). `ItemFails` is a failure anywhere in
between; `Verdicts` says whether it reaches the tracer. `SkipNote`, `WalkAborts` and `ReadFails`
are the other ways out. `Kill` may come at any time and `Rerun` starts again on what is there.
`Edit` and `Replace` are the outside world.

`Collectors` gives the plans: `mknef` stores its raw file twice, before and after its images;
`mkmov` stores the outputs of commands first; `mkicn` the tables first; the others only the
file. The five commands that read records store as `mkfile` does.

`Catalog` has no crash, no command and no failure: places are put, described, withdrawn to be
described again; a file that was put stays. `Archive` implements it (`ImplementsCatalog`) with
`shelf` read off `entry` and `meta`, and `refs` off the links of the products' documents, apart from those
that the configuration gives.

The links of a section (`[[file.links]]`, `meta.go:313`) are copied into every document of the section
but those of images, before the links that the command adds (`Given`, `Inherited`, `LinksOf`). The
code neither stores nor looks for what they name, so that `MainLinksResolve`, `CleanRunIsConsistent`
and the catalogue speak of the other links only (`Collected`). The scenarios have a section that names
a place nobody stores.

`SourcesPreserved` says in which case a source is written to: an output or an image has the place of
a link to it, so that `WriteFile` follows the link (`Clash`). Nothing in the code rules that out.

The patterns of the configurations decide where items go. The code never checks that two
items have different places. `OwnPlaces`, `OwnTurns` and `OwnSteps` say so; the theorems that
need them name them; `NoOrphan` and type correctness hold without.

### MkArc

`main` is at its loop, between `Acquire` and `go`, at its last `Acquire`, or has returned;
a goroutine is about to start a child, waits for one, or is at its deferred release. Children
are numbered through pre commands, the command and post commands. `Environ` is what `Cmd.Run`
builds out of `Env`. `parallel` is assumed not to be negative: with a negative value no
`Acquire` is ever granted and mkarc hangs (`cmd/mkarc/main.go:113`).

### Transfer

`multiJobs` is at directory `next` of its loop, has `taken` permits of its semaphore, and has a
goroutine for each of `spawned`. `Acquire` takes a permit and spawns, `Release` is the deferred call
with which a goroutine ends, and `Exit` asks for all the permits; with jobs at most 1 none of this
happens and the directories come in turn.

The worker of directory `d` has a program counter through `Client.Copy` and `Client.copy`.
The deferred calls are steps of their own: `Stamp` is the closure that calls `Chtimes`,
`Close` the one that removes the file, and both come after failures too. A connection may
break at any time and stays broken. A file is read in two halves so that a change in between
gives a mixed copy. Times are whole seconds, which is what the skip test compares.

Three things the code cannot see are kept apart by name. A change is *hasty* when it falls in
the second of the change before it or of the last write of a copy, or comes while the worker
has the file at hand: then size and time need not tell. The last block of a *compressed* copy is
written by a deferred `Close` whose error is dropped. And directories *share no remote name*
(`TransferAssumption`). The comparison of checksums is left out: both are computed on the same
side from the same bytes, so that it cannot fail. Empty files are left out (a transfer has two
halves), and so are listings that name a file twice.

### Retrieve

Three nested loops (lists, days, hours) and the attempts of `try.Try`, which is not part of the
repository: it calls its function until there is no error, at most `MaxAttempt` times, and
stops at `ErrAbort`. `err` is the variable of the `timeRange` at hand. With `flat` a day is one
piece, and each attempt empties the file.

Several failures are no errors in this code, and the model has them. `Request.Copy` takes the body of
any answer, whatever its status, and drops what closing the compressor returns
(`cmd/retriev/main.go:174`, `178`): an answer is data, a `page` or `short`, and all three end as
successes. What `tw.Close`, `w.Close` and `os.Remove` return is dropped (`301` to `305`): a file may
be `cut`, or `stuck` when it could not be removed. `SuccessIsAnswered` therefore promises no more than
that each piece was answered and its body is in its place in a file that was closed. A request has
no timeout: no liveness is claimed of retriev.

### Mailbox

A goroutine is named by the place `<<b, p>>` of its message. `ReadMessage`, `NextBox`,
`ReadFails`, `OpenFails` and `ReadsAll` are the ways through `nextMessage`; `Dispatch` is its loop
over the handlers. `MakeDir`, `Create`, `Write`, `PartFails`, `Reset`, `Close` and `Remove` are the
steps of the goroutine. `ReadFails` has two cases: a message that cannot be parsed is passed over
(`MessageFails`); an error of the file, or of a directory that the location matches, comes back
with each call, since only the end of a mailbox moves the reader on (`plugins/mbox/reader.go:33`;
`FileFails`, `broken`). `Hand` is the rendezvous of its send with the receive of `Process`, the
queue having no buffer. `Close` comes before `Remove`, so that the driver and the goroutine of
the next message go on while the maildir of the last one disappears. The driver is not part of
the repository: it calls `Process` until it gets `ErrDone`.

The plugin is written against an older interface of prospect than the one of this commit; it is
modelled on its own. What the model shows of the code and a reader might not expect: the end of a
mailbox counts as an empty message, which a handler without conditions accepts; with
`to = "!x"` a mail to `x` and somebody else is accepted; an interval with one bound only rejects
everything, the other bound being the zero time; parts without a name get one from the date, so
that two of them clash; without keep-files the last file may be gone before the driver
opens it, which `SumIsOfFile` excepts.

### Times and Patterns

A time counts half seconds since the zero time of Go, and years have 365 days. The functions
work on the parts of a path, numerals being numbers and other names negative numbers. A piece
of a pattern is what stands between braces, or a text; `size` is its number of characters, since
the parser compares offsets. `Panic` and `ResolvePanics` are indices out of range. The clock
(`time.go:105`) is read anew whenever it is asked: `GetTime` takes what it shows, any element of
`Clock`. It is not assumed to go forward.

What the models show of the code and a reader might not expect: `rt` and `hdk` panic on names with few
underscores; the parser refuses a placeholder exactly as long as the text ahead of it, and panics on
an empty one; `{-1}` panics; names of fragments that do not exist vanish; a duration of less than a
second has a text that names no unit ("P", which is no ISO duration), one of zero is "P0S", and that of
a negative one depends on the machine.

### Sections

A configuration goes through `Load`, `EnterSection` (`Update` on a clone), and for each file
`Pass`, `Take` or `TakeFails`; then the stage of the tool: rows (`CountRow`, `EndRows`, `RowsFail`),
tables (`StoreTable`, `EndTables`), images (`StoreImage`, `EndImages`) and `Store`. `section` is the
variable that the callback of the walk closes over; `dat` is the clone for the file. The state
after each file is what matters: `DocumentsAreOwn` compares documents of equal files, wherever
they come in the walk. All of the documents is equal but the times, and what is made of times
(increments, durations, places); these are equal too, unless the clock was read (`Clocked`: `timefunc`
"now", or `mkrt` for a type it does not know) or the file is a camera file without images
(`Timeless`): `mknef` does write the times of a file into the section (`cmd/mknef/main.go:63`), where
such a file finds them. The parameters are equal unless `mkmma` listed its runs in another order, or
the text of a duration that is negative came out differently.

Facts of the code the properties take for granted: a default acquisition time beats the time
function and decides the increments of all documents of its section; the default modification time
is lost when there is no time function (`src/README.md:85`); pdf, nef and csv override a default with the
time of the file, also with zero (`src/README.md:81`); an empty list of extensions rejects all files
(`src/README.md:90`); `acqtime` and `modtime` of the main section are not used (`src/README.md:60`); an instant
on the boundary of two increments belongs to neither; an error in the first field of a row
ends the count of `mkcsv` without a word. Owner and experiment are merged as model and
source are. The panic of `mkmma` on a row with a single column is left out.

`SectionsAssumption` gives the types of a configuration and its files. Two of its conditions are
not types: between braces that hold something there is at least one character, and only the name
of a table of a note may hold a time that cannot be read (any other is the zero time). The
increments of a configuration and of a document are sets, since only their order and repetition
is lost. A parameter may be set several times (a configuration may name one `file.numrec`);
`Value` is the last, which the tool appended.

### Transform

The recursion of `updateEntries` is a stack of frames. The outermost call works on the
container in place, the others on a clone that is written back when it is filled, and every
call sees what was written so far. `MaxDepth` bounds the stack: more frames than containers
can only mean a circle, and `MergeAgrees` says that only circles get there. Names of
containers are unique.

What a container should end up with is stated without recursion. `Whole` are the entries of
its base and its own, `Part` is what becomes of one of them, and `Joins` says that a sequence
is made of parts one after the other. Containers without a circle (`Cyclic`, by what lies
`Below` each of them) leave one solution to these equations. A container that says it is filled, or
whose base is unknown, keeps its entries (`Plain`), but others still take over from it, with
whatever it includes.

## The runs

Each run takes a minute at most. Deadlock is not checked where all processes may have
ended or been killed for good; it is checked for mkarc, which stutters only when `main`
returned.

| run | question | bounds |
|---|---|---|
| `ArchiveCamera` | are documents, files and links consistent in the richest plan (an output, an image, the raw file twice)? | 1 command, 2 runs, 2 changes, 1 replacement, 2 contents |
| `ArchiveTwo` | do two commands leave each other alone? A note with a table, one without, a film with an output; links of all kinds, two sections, configured links | 2 commands, 1 run, 2 contents |
| `ArchiveAbort`, `ArchiveReplaced` | claims of the README that the code does not keep | as small as they can be |
| `MkArc` | bound, order, waiting, end | 3 commands, two of them with pre or post commands, parallel 2 |
| `MkArcEnv` | does `env` reach the child? | one variable |
| `TransferOne` | is what is skipped or removed on the server? directories in turn on one connection | 1 file, a second directory that is empty, 3 runs, 3 seconds, 2 changes, contents of equal and different size |
| `TransferJobs` | permits, and workers side by side, two of which share a local file; one of these copies is forced and compressed | 3 directories, 2 jobs, 1 run, fairness |
| `TransferLoss` | does every file survive? | 1 file, 1 run |
| `Retrieve` | answers, order, what is left half done | archives or plain files, 1 list, 2 days, 3 hours, 2 attempts, 2 runs |
| `Mailbox` | order, sums, kept files, end | 2 mailboxes with 1 and 2 messages, 3 handlers on one maildir (one of them accepts the empty message), 2 parts in a message, fairness |
| `Library` | documents, increments, records, places, merging | a clock with two readings; 10 configurations for all tools; all ranges with bounds in -4..4 on 3 directories, all indices, fragments and errors of parsing; three containers with every base and include, some of them filled, abstract or root |

Why the bounds are enough to be of interest. Two contents tell a right checksum from a wrong
one. Two runs let everything that a crash can leave be found by a later run, and with two
changes a source may change in one run and be replaced before the next. Two commands are all
that can meet at a place. Three mkarc commands with two permits make one wait; two attempts
make one retry and one surrender. In `TransferOne` the third run meets what two interrupted
ones left, and three seconds separate a change, a transfer and a second change. In `Mailbox` the
first message has two parts, so that a goroutine is met between them; the mailbox after it ends
with a message that shares its file name with the first, so that what was kept and what is being
written meet. In `Library` bounds go one past both ends of the path, counted from
either end; the times of files fall in, at the edge of, between and outside increments, and
the same file comes twice, before and after others. Three containers are the least with a base that
includes a container based on another. Where there are theorems, they remove the bounds.

Fairness. That of `MkArc` says that `main` and the goroutines are scheduled and that children end:
they are batch commands. In `Transfer` `main` and the goroutines are scheduled and the calls of the client
return, with a result or an error. In `Mailbox` the driver goes on until it gets `ErrDone`, and goroutines
are scheduled, each by itself; reading may fail for good, which `AllHanded` excepts. Nothing is assumed
of kills, changes, reruns or broken connections. `Archive` and `Retrieve` have no liveness property: their
loops go over finite lists, and the commands and requests they wait for have no timeout.

### What the failing runs show

- `ArchiveAbort`: `src/README.md:78` says the files of the listed directories are extracted and
  stored. One unreadable entry ends the walk of its section and leaves no trace
  (`cmd/mkfile/main.go:26` and its likes).
- `ArchiveReplaced`: `src/README.md:89` speaks of a data file and its related metadata. After a
  source got a new inode, a run keeps the old link, since `os.ErrExist` counts as success
  (`meta.go:240`), and describes the new content.
- `MkArcEnv`: `src/README.md:248` says `env` is given to the child. `Cmd.Run` builds strings
  that assign nothing, and thereby drops the inherited environment (`cmd/mkarc/main.go:71`).
- `TransferLoss`: `cmd/secop/main.go:14` says secop copies files. A failed transfer is logged
  and the local file is removed (`cmd/secop/client.go:98`).

### Where the documentation says otherwise and no run is about it

- `src/README.md:99-100` calls the links of a section files "to be included in the archive". No command
  stores them: the documents name them as they are configured (`meta.go:313`, `375`). The properties
  of links leave them out by name.
- `src/README.md:579` takes the times of rt products from the directory. `mkrt` overwrites them with
  those of the first and last record (`cmd/mkrt/main.go:105-108`), or with the clock for a type it does not
  know; only a file without records keeps the time of its directory. `RecordsDescribed` states what
  the code does.
- `src/README.md:157` and `167` have `{3:4}` take two directories. `slice.Resolve` leaves the one at the
  second bound out (`path.go:199`). `PlacesAgree` states what the code does.
- `src/README.md:137` and `138` list `{start:}` and `{:end}`. The parser refuses the first, and takes
  the second for the name of a fragment, which it does not know and which leaves nothing (`path.go:113`).
- `src/README.md:106` gives names for `year.doy.hour`, which is `TimeRT` and panics on them.
- `src/README.md:81`, `85`, `90` and `60` on defaults and extensions: see *Sections* above.

## The theorems

All proofs are checked by `tlapm`, for every value of the constants that meets the named
assumptions. The bounds on runs, edits and replacements remain parameters.

| theorem | hypotheses | statement |
|---|---|---|
| `ArchiveProofs!TypeCorrect` | - | `Spec => []TypeOK` |
| `ArchiveProofs!NoOrphan` | - | `Spec => []NoOrphanMetadata` |
| `ArchiveProofs!SourcesSafe` | - | `Spec => SourcesPreserved` |
| `ArchiveProofs!LinksResolve` | `OwnPlaces` | `Spec => []MainLinksResolve` |
| `ArchiveProofs!Implements` | `OwnPlaces` | `Spec => ImplementsCatalog` |
| `ArchiveConsistency!CleanRuns` | `Distinct` | `Spec => []CleanRunIsConsistent` |
| `ArchiveConsistency!FirstRuns` | `Distinct` | `Spec => []FirstRunIsTrue` |
| `MkArcProofs!TypeCorrect`, `Bounded`, `Waits`, `InOrder` | - | the four invariants of the run `MkArc` |
| `RetrieveProofs!TypeCorrect`, `InOrder`, `SuccessAnswered`, `NothingHalf` | - | the invariants of the run `Retrieve` |
| `TransferProofs!TypeCorrect`, `Bounded`, `Twins`, `Removed`, `Quiet` | - | the invariants of the runs `TransferOne` and `TransferJobs`, and `RemovedIsStored` |
| `MailboxProofs!TypeCorrect`, `InOrder`, `SumRight`, `Kept` | - | the invariants of the run `Mailbox` |
| `SectionsProofs!SectionsInvariant` | - | `Spec => []IInv` |
| `SectionsProofs!DocumentsAlwaysOwn`, `IncrementsAlwaysHold`, `RecordsAlwaysDescribed`, `PlacesAlwaysAgree` | - | the invariants of the run `Library` about documents |
| `TransformProofs!MergeAlwaysAgrees` | - | `SpecTransform => []MergeAgrees`, the invariant of the run `Library` about containers |
| `SectionsProofs!RangeTakes`, `RangePanics` | - | what a range takes, and when it panics, on any path |
| `SectionsProofs!DurationsReadBack`, `PlacedWhereFound` | - | durations read back; the way from name to place keeps year and day |

The `ASSUME` of each module bounds what its constants may be: `TransferAssumption`, for
instance, says that directories share no remote name and that no file is empty,
`MailboxAssumption` that nothing but the items of a handler is at the end of a mailbox.

*No orphan.* Inductive with one more fact: a command that is about to write a document already
has the data file at its place.

*Links.* The links of the configuration apart: what a command has collected (`links`) is stored: each place in it has a data file
and a document. Nothing is ever taken away from the archive, so that this stays true and a
document built from it names only such places. `OwnPlaces` tells the document of a product
from that of another item.

*Sources.* Every entry that leads to a source was made by `storeLink` for an item with that place, and
what `WriteFile` has opened it opened through such an entry, or made itself (`Traced`).

*Clean runs.* The invariant follows a product through its turn. `Owned`: what is at a place was
put there for its item. `InHand`: at each program counter, what is known of the item at hand
(after `Fill` the file holds the buffer, and so on). `SumOK`: as long as nothing changed,
`sum` is the content of the source. `TurnOK`: the steps of the plan already taken in this run
without an error have left their items described and linked to the product. `DoneOK`: the
products already walked in this run are filed, unless something was reported, aborted or
changed. `FirstOK` is the counterpart for a first run, where a document that is complete was
written in this run. Each is preserved by each action; `Distinct` is needed since another
command, or a later turn, may otherwise rewrite an item behind the back of its product.

*mkarc.* The permits taken are the commands started plus the one that `main` is about to start,
until the last `Acquire`; then there is none left. Commands are started in order, so that when
all permits are free at the end, each has been started and has ended.

*retriev.* `Counting` says where the loops are and how often the piece at hand was tried.
`Ascending`: the entries of an archive are those of earlier hours, in order. `Complete` follows
success from inside out: lists and days already walked, hours of the day at hand, the piece at hand;
each was answered and stored, or is excused, as long as `err` is nil. `Tidy`: what earlier lists and days of
the first run left is closed and not empty.

*secop.* `Permits`: there are as many permits taken as goroutines spawned, never more than `Jobs`, and
a worker that runs has one that is not released before it ends; when all are taken by the last
`Acquire`, no goroutine is left. For the rest: `Clocked`, no time lies in the future;
`InHand`, a file at hand that was not changed in haste is as it was when visited, and a copy under way
is shorter; `Twin`, a copy is shorter than the file, or the file, or older than it;
`Done`, what the walk went past is stored or was logged. A change gives a later time than every
copy of the file has, so that size and time tell.

*mbox.* `Solo`: only the goroutine of the queue still works on parts, since `Process` reads on only
after a queue was closed, and `Close` comes after the last part. `Placed`: goroutines are started in
the order of the messages, none left out. `Counted` and `Tally`: what was handed out is what the
goroutines went through. `Sums`: the digest is empty unless a part was just written, so that
the sum is that of one part; a file at hand disappears only when files are not kept. Without
`Solo` nothing of this holds: with a queue closed before the last reset (`Closed_Early`) two
goroutines write to one digest.

*sections.* None of the four invariants is inductive: a document says nothing of the Data it came
from, and the closure hides what earlier files did to it. `IInv` says in closed form what each
variable may hold. `Held`: the section is the configured one after `Update`, except for the
times under `mknef`. `AtRows`: after `count` rows the Data at hand is `Upto`, the filled clone
with the times of the first and of the last of them, and `runs` is `TallyUpto`, the number of rows
of each run by cardinality. `AtStore`: the Data to be stored is `Filled`, a function of section
and file but for the order of the runs, the text of a negative duration, the times of a camera
file without images, and three readings of the clock (`Readings`): when the file was read, at its first
row and at its last. `IsDocument`: each document is `Filled`, or an image or a table made of it,
with the increments, and lies where its pattern resolves to. The lemmas say of each operator what it
keeps (`ReadFileKeeps`, `FillKeeps`, `SummaryKeeps`, ...), so that each step changes one closed form
into the next; `TakeFills` is the heart: whatever times the section holds, the clone
for the next file is the same but for them. The invariants then speak of `IsDocument` only. `DocumentsAreOwn`:
the closed form depends on nothing else, and two readings of the clock give Data that are alike in all but
times and parameters (`Alike`). `IncrementsHold`: `update` is asked once without a time
or a label, and once with the time of the document; between, no time that was set is lost.
`RecordsDescribed`: the summary stands behind all else in the parameters (`ParamsAre`), three
parameters for each run (`RunParamsAre`), and durations read back. `PlacesAgree`: a range
takes what its bounds say (`RangeTakes`), since the indices in between have no gap.

*transform.* `TransformAssumption` says what a container is, and that `MaxDepth` is at least the number of
containers in any document. Without a circle, each call in progress works on a container below that of
every call under it (`Chain`), so that no container is worked on twice at a time and the stack has
room for all (`RoomLeft`). `Settled`: a container is filled and then has its result, or is as
it was read, or is the one at hand. `Merging`: what a frame has made of its container so far are the parts of
the entries it has dealt with, taken from containers that are filled. What is filled is never
changed (`Stays`), so that a result stays true while others are written back: this is why the order of
the names shows nowhere, and what a call that does not stop at a filled container breaks (`Enter_Again`).

*patterns and times.* Case analysis on `normalize`, and arithmetic with constant divisors.

Only model-checked: what holds under fairness (`AllRun`, `RunEnds`, `AllHanded`), since the
prover handles neither liveness under fairness nor `ENABLED`. All other properties of the passing runs
are theorems. The `IInv` of `Sections` and of `Transform` are proved but no run checks them; the run `Library` checks
their consequences.

## The plan

Done: `Archive` with `Catalog` and its proofs, `MkArc`, `Transfer`, `Retrieve` and `Mailbox` with
theirs, `Sections` with `Patterns` and `Times`, `Transform`, both with their proofs.

What is left, in order of worth:

1. A composition of `MkArc` with `Archive`: pre and post commands on the archive that the command
   fills.
2. A composition of `Sections` with `Archive`, in which the place of an item is the one its pattern
   gives and two items may be given the same.

A model of the monitor was planned and dropped: each datagram carries all that is shown and replaces
it, so that a property would repeat one assignment. (It keeps the old bar when a name comes again
with another size, `cmd/secop/monitor.go:36`.)

## Not modelled

The content of XML documents, file formats (NEF, JPEG, QuickTime, PDF, RT), logging and
progress bars, the options of the command line, `mdexp` (a printer of templates) and `scripts/`;
the reports and the monitor of `secop`, as said above; the headers of tables and the layout of
records, which are copied without being looked at; the text of the requests of `retriev`, and the events
and commands archives, which are the case of one list; indices of a pattern with a plus sign.

A symbolic link with a relative target dangles (`meta.go:235`): `Archive` has such links, as
entries that never count as readable, and no property speaks of them. A negative `parallel`,
directories of `secop` that share a remote name, and lists with blank lines are left out as said above.
