----------------------------- MODULE Transform -----------------------------
(***************************************************************************)
(* cmd/transform: containers that take over the entries of their base and  *)
(* of the containers they include.                                         *)
(*                                                                         *)
(* updateEntries calls itself for the base and for each include, on a      *)
(* clone that is written back when it is filled.  The calls are frames of  *)
(* a stack.  The outermost works on the container itself, so that its      *)
(* clones show how far it came.                                            *)
(*                                                                         *)
(* Containers are sorted, and named by their place; the base of a          *)
(* container is 0 if it has none.  The name of an entry that is no include *)
(* is negative.                                                            *)
(*                                                                         *)
(* An operator X_Y is a mutant of X.                                       *)
(***************************************************************************)
EXTENDS Integers, Sequences, FiniteSets, SequencesExt

CONSTANTS
    Documents,  \* the containers that may be read
    Fsl,        \* names of entries that hold fsl_data
    MaxDepth    \* bound: calls in progress before the stack is full

Entry == [name : Int, include : BOOLEAN]
Container == [base : Nat, entries : Seq(Entry),
              abstract : BOOLEAN, root : BOOLEAN, fill : BOOLEAN]

(* The bound is high enough for all documents without circles.             *)
ASSUME TransformAssumption ==
    /\ Documents \subseteq Seq(Container)
    /\ MaxDepth \in Nat /\ \A d \in Documents : Len(d) <= MaxDepth

VARIABLES
    given,  \* the containers as they were read
    self,   \* the option k: keep the include of the container in itself
    clean,  \* the option c: only remove includes
    all,    \* the option a: print every container
    data,   \* the containers
    i,      \* the container at hand
    stack,  \* the calls of updateEntries in progress
    state,  \* "run", "print", "done" or "overflow"
    out     \* the containers printed

options == <<given, self, clean, all>>
tvars == <<options, data, i, stack, state, out>>

Skip(c) == c.root \/ c.base = 0 \/ c.abstract \/ c.entries = << >>
Top == stack[Len(stack)]
Under == SubSeq(stack, 1, Len(stack) - 1)

(* The container that a frame works on: the outermost has no clone.        *)
Curr == IF Len(stack) = 1 THEN data[Top.at] ELSE Top.clone

(* The top frame goes on with its container as c and at the stage named.   *)
Goes(c, stage, es, k) ==
    /\ data' = IF Len(stack) = 1 THEN [data EXCEPT ![Top.at] = c] ELSE data
    /\ stack' = [stack EXCEPT ![Len(stack)] =
                    [at |-> Top.at, clone |-> IF Len(stack) = 1 THEN Top.clone ELSE c,
                     stage |-> stage, es |-> es, k |-> k]]

(* The top frame waits for a call on a clone of x.                         *)
Frame(x) == [at |-> x, clone |-> data[x], stage |-> "begin", es |-> << >>, k |-> 0]
Call(stage, x) ==
    /\ stack' = Append([stack EXCEPT ![Len(stack)].stage = stage], Frame(x))
    /\ state' = IF Len(stack) = MaxDepth THEN "overflow" ELSE "run"
    /\ UNCHANGED data

InitTransform ==
    /\ given \in Documents
    /\ self \in BOOLEAN /\ clean \in BOOLEAN /\ all \in BOOLEAN
    /\ data = given
    /\ i = 1
    /\ stack = << >>
    /\ state = "run"
    /\ out = {}

(* cleanData                                                               *)
Clean ==
    /\ state = "run" /\ clean
    /\ data' = [x \in DOMAIN data |->
                  [data[x] EXCEPT !.entries = SelectSeq(@, LAMBDA e : ~ e.include),
                                  !.abstract = FALSE, !.root = FALSE, !.fill = TRUE]]
    /\ state' = "print"
    /\ UNCHANGED <<options, i, stack, out>>

(* updateData                                                              *)
Begin ==
    /\ state = "run" /\ ~ clean /\ stack = << >> /\ i \in DOMAIN data
    /\ \/ data[i].abstract /\ i' = i + 1 /\ UNCHANGED stack
       \/ ~ data[i].abstract /\ stack' = <<Frame(i)>> /\ UNCHANGED i
    /\ UNCHANGED <<options, data, state, out>>

EndUpdate ==
    /\ state = "run" /\ ~ clean /\ stack = << >> /\ i \notin DOMAIN data
    /\ state' = "print"
    /\ UNCHANGED <<options, data, i, stack, out>>

(* printData and dumpData                                                  *)
PrintData ==
    /\ state = "print"
    /\ out' = {x \in DOMAIN data : all \/ ~ Skip(data[x])}
    /\ state' = "done"
    /\ UNCHANGED <<options, data, i, stack>>

In(stage) == state = "run" /\ stack # << >> /\ Top.stage = stage

(* A container that is filled, or whose base is unknown, stays as it is.   *)
Enter_Again ==
    /\ In("begin")
    /\ LET c == Curr
       IN  \/ /\ c.base # 0 /\ c.base \notin DOMAIN data
              /\ Goes([c EXCEPT !.fill = TRUE], "end", << >>, 0)
              /\ UNCHANGED state
           \/ c.base = 0 /\ Goes([c EXCEPT !.entries = << >>], "merge", c.entries, 1)
              /\ UNCHANGED state
           \/ c.base \in DOMAIN data /\ Call("base", c.base)
    /\ UNCHANGED <<options, i, out>>
Enter ==
    /\ In("begin")
    /\ LET c == Curr
       IN  \/ /\ c.fill \/ (c.base # 0 /\ c.base \notin DOMAIN data)
              /\ Goes([c EXCEPT !.fill = TRUE], "end", << >>, 0)
              /\ UNCHANGED state
           \/ /\ ~ c.fill /\ c.base = 0
              /\ Goes([c EXCEPT !.entries = << >>], "merge", c.entries, 1)
              /\ UNCHANGED state
           \/ ~ c.fill /\ c.base \in DOMAIN data /\ Call("base", c.base)
    /\ UNCHANGED <<options, i, out>>

(* The next entry: kept, left out, or a container to be included.          *)
Merge ==
    /\ In("merge") /\ Top.k \in DOMAIN Top.es
    /\ LET c == Curr
           e == Top.es[Top.k]
           keep == IF e.include THEN e.name = Top.at /\ self ELSE e.name \notin Fsl
           call == e.include /\ e.name # Top.at /\ e.name \in DOMAIN data
       IN  \/ /\ ~ call
              /\ Goes(IF keep THEN [c EXCEPT !.entries = Append(@, e)] ELSE c,
                      "merge", Top.es, Top.k + 1)
              /\ UNCHANGED state
           \/ call /\ Call("include", e.name)
    /\ UNCHANGED <<options, i, out>>

(* All entries are merged: a container that others are based on is marked. *)
Finish ==
    /\ In("merge") /\ Top.k \notin DOMAIN Top.es
    /\ LET c == Curr
           based == \E x \in DOMAIN data : data[x].base = Top.at
       IN  Goes([c EXCEPT !.abstract = IF Skip(c) THEN @ ELSE based,
                          !.root = IF Skip(c) THEN @ ELSE based,
                          !.fill = TRUE], "end", << >>, 0)
    /\ UNCHANGED <<options, i, state, out>>

(* A call returns: its clone is written back and its entries go on into    *)
(* the container of the caller.                                            *)
Return ==
    /\ In("end")
    /\ \/ /\ Len(stack) = 1
          /\ stack' = << >> /\ i' = i + 1
          /\ UNCHANGED data
       \/ /\ Len(stack) > 1
          /\ LET w == [data EXCEPT ![Top.at] = Top.clone]
                 u == Under[Len(Under)]
                 c == IF Len(Under) = 1 THEN w[u.at] ELSE u.clone
                 r == IF u.stage = "base"
                      THEN [u EXCEPT !.stage = "merge", !.k = 1,
                                     !.es = Top.clone.entries \o c.entries]
                      ELSE [u EXCEPT !.stage = "merge", !.k = @ + 1]
                 d == [c EXCEPT !.entries = IF u.stage = "base" THEN << >>
                                            ELSE @ \o Top.clone.entries]
             IN  /\ data' = IF Len(Under) = 1 THEN [w EXCEPT ![u.at] = d] ELSE w
                 /\ stack' = [Under EXCEPT ![Len(Under)] =
                                 [r EXCEPT !.clone = IF Len(Under) = 1 THEN @ ELSE d]]
          /\ UNCHANGED i
    /\ UNCHANGED <<options, state, out>>

NextTransform == Clean \/ Begin \/ EndUpdate \/ PrintData \/ Enter \/ Merge \/ Finish \/ Return

SpecTransform == InitTransform /\ [][NextTransform]_tvars
----------------------------------------------------------------------------
(* What a container takes over from: its base and its includes, and in     *)
(* turn what they take over from.                                          *)
Needs(x) ==
    ({given[x].base} \cup {e.name : e \in {d \in ToSet(given[x].entries) : d.include /\ d.name # x}})
    \cap DOMAIN given
Below(x) ==
    {y \in DOMAIN given : \A S \in SUBSET DOMAIN given :
        Needs(x) \subseteq S /\ (\A z \in S : Needs(z) \subseteq S) => y \in S}
Cyclic == \E x \in DOMAIN given : x \in Below(x)

(* The sequence is made of the parts, one after the other.                 *)
Offset(parts, k) == Cardinality(UNION {{l} \X DOMAIN parts[l] : l \in 1 .. k})
Joins(seq, parts) ==
    /\ Len(seq) = Offset(parts, Len(parts))
    /\ \A k \in DOMAIN parts : \A j \in DOMAIN parts[k] :
         seq[Offset(parts, k - 1) + j] = parts[k][j]

(* The entries that a container merges, and what becomes of each of them.  *)
Whole(x) ==
    IF given[x].base = 0 THEN given[x].entries ELSE data[given[x].base].entries \o given[x].entries
Taken(x, e) == e.include /\ e.name # x /\ e.name \in DOMAIN given
Part(x, e) ==
    IF Taken(x, e) THEN data[e.name].entries
    ELSE IF (IF e.include THEN e.name = x /\ self ELSE e.name \notin Fsl) THEN <<e>> ELSE << >>

(* A container that says it is filled, or whose base is unknown.           *)
Plain(x) == given[x].fill \/ (given[x].base # 0 /\ given[x].base \notin DOMAIN given)

(* The entries of a container that was merged are the parts of what it     *)
(* merges, and what it takes over from was filled.                         *)
Merged(x) ==
    LET es == Whole(x)
    IN  /\ Joins(data[x].entries, [k \in DOMAIN es |-> Part(x, es[k])])
        /\ given[x].base # 0 => data[given[x].base].fill
        /\ \A k \in DOMAIN es : Taken(x, es[k]) => data[es[k].name].fill

(* Although containers are merged in place, in the order of their names,   *)
(* on clones that are written back half way up, each one that is not       *)
(* abstract ends up with the entries of its base and its own, in which     *)
(* each include stands for the entries of a container that is filled, too; *)
(* those that are printed are those that have a base and entries and are   *)
(* no base themselves; and the calls have no end only where containers     *)
(* need each other in a circle (updateData, updateEntries, Clone, Skip).   *)
MergeAgrees ==
    /\ state = "overflow" => Cyclic
    /\ state = "done" /\ ~ clean /\ ~ Cyclic =>
         \A x \in DOMAIN given :
            /\ IF Plain(x) THEN data[x].entries = given[x].entries
               ELSE IF data[x].fill THEN Merged(x)
               ELSE given[x].abstract /\ data[x] = given[x]
            /\ ~ all /\ ~ Plain(x) /\ ~ given[x].abstract =>
                 (x \in out <=>
                    /\ ~ given[x].root /\ given[x].base # 0 /\ data[x].entries # << >>
                    /\ \A y \in DOMAIN given : given[y].base # x)
============================================================================
