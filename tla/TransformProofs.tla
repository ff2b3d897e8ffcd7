-------------------------- MODULE TransformProofs --------------------------
(***************************************************************************)
(* Proofs about Transform: whatever the documents, each container that is  *)
(* merged has the entries it should have.                                  *)
(***************************************************************************)
EXTENDS Transform, FiniteSetTheorems, TLAPS

(* The parts that lie ahead of a part can be counted.                      *)
LEMMA OffsetFinite ==
    ASSUME NEW parts, NEW k \in Nat, \A l \in 1 .. k : IsFiniteSet(DOMAIN parts[l])
    PROVE  /\ IsFiniteSet(UNION {{l} \X DOMAIN parts[l] : l \in 1 .. k})
           /\ Offset(parts, k) \in Nat
<1> DEFINE F == [l \in 1 .. k |-> {l} \X DOMAIN parts[l]]
           S == {{l} \X DOMAIN parts[l] : l \in 1 .. k}
<1>1. F \in Surjection(1 .. k, S)
    BY DEF Surjection
<1>2. IsFiniteSet(S)
    BY <1>1, FS_Interval, FS_Surjection
<1>3. ASSUME NEW l \in 1 .. k
      PROVE  IsFiniteSet({l} \X DOMAIN parts[l])
    <2>1. IsFiniteSet({l})
        BY FS_Singleton
    <2> QED
        BY <2>1, FS_Product
<1>4. IsFiniteSet(UNION S)
    <2>1. \A T \in S : IsFiniteSet(T)
        BY <1>3
    <2> QED
        BY <1>2, <2>1, FS_UNION
<1> QED
    BY <1>4, FS_CardinalityType DEF Offset

(* The next part begins where this one ends.                               *)
LEMMA OffsetNext ==
    ASSUME NEW E, NEW k \in Nat, NEW parts, \A l \in 1 .. k + 1 : parts[l] \in Seq(E)
    PROVE  Offset(parts, k + 1) = Offset(parts, k) + Len(parts[k + 1])
<1> DEFINE U(m) == UNION {{l} \X DOMAIN parts[l] : l \in 1 .. m}
           V == {k + 1} \X DOMAIN parts[k + 1]
<1>1. \A l \in 1 .. k + 1 : DOMAIN parts[l] = 1 .. Len(parts[l]) /\ Len(parts[l]) \in Nat
    OBVIOUS
<1>2. \A l \in 1 .. k : IsFiniteSet(DOMAIN parts[l])
    <2>1. ASSUME NEW l \in 1 .. k
          PROVE  IsFiniteSet(DOMAIN parts[l])
        <3>1. DOMAIN parts[l] = 1 .. Len(parts[l]) /\ Len(parts[l]) \in Nat
            BY <1>1
        <3> QED
            BY <3>1, FS_Interval
    <2> QED
        BY <2>1
<1>3. IsFiniteSet(U(k))
    BY <1>2, OffsetFinite
<1>4. IsFiniteSet(V) /\ Cardinality(V) = Len(parts[k + 1])
    <2>1. IsFiniteSet({k + 1}) /\ Cardinality({k + 1}) = 1
        BY FS_Singleton
    <2>2. IsFiniteSet(DOMAIN parts[k + 1]) /\ Cardinality(DOMAIN parts[k + 1]) = Len(parts[k + 1])
        BY <1>1, FS_Interval
    <2>3. IsFiniteSet(V) /\ Cardinality(V) = 1 * Len(parts[k + 1])
        BY <2>1, <2>2, FS_Product
    <2> QED
        BY <1>1, <2>3
<1>5. U(k + 1) = U(k) \cup V
    <2>1. 1 .. k + 1 = (1 .. k) \cup {k + 1}
        OBVIOUS
    <2> QED
        BY <2>1, Zenon
<1>6. U(k) \cap V = {}
    <2>1. \A l \in 1 .. k : l # k + 1
        OBVIOUS
    <2> QED
        BY <2>1
<1>7. Cardinality(U(k) \cup V) = Cardinality(U(k)) + Cardinality(V) - Cardinality({})
    BY <1>3, <1>4, <1>6, FS_Union
<1> HIDE DEF U, V
<1>8. Cardinality(U(k + 1)) = Cardinality(U(k)) + Len(parts[k + 1])
    <2>1. Cardinality(U(k)) \in Nat
        BY <1>3, FS_CardinalityType
    <2>2. Len(parts[k + 1]) \in Nat
        BY <1>1
    <2> QED
        <3>1. Cardinality({}) = 0
            BY FS_EmptySet
        <3>2. Cardinality(U(k + 1)) = Cardinality(U(k) \cup V)
            BY <1>5
        <3>3. Cardinality(U(k + 1)) = Cardinality(U(k)) + Cardinality(V) - 0
            BY <1>7, <3>1, <3>2
        <3> QED
            BY <1>4, <2>1, <2>2, <3>3
<1> QED
    BY <1>8 DEF Offset, U

(* What lies ahead of a part depends on the parts ahead of it only.        *)
LEMMA OffsetSame ==
    ASSUME NEW k \in Nat, NEW parts, NEW more, \A l \in 1 .. k : more[l] = parts[l]
    PROVE  Offset(more, k) = Offset(parts, k)
<1>1. {{l} \X DOMAIN more[l] : l \in 1 .. k} = {{l} \X DOMAIN parts[l] : l \in 1 .. k}
    OBVIOUS
<1> QED
    BY <1>1 DEF Offset

LEMMA OffsetGrows ==
    ASSUME NEW m \in Nat, NEW k \in 0 .. m, NEW parts,
           \A l \in 1 .. m : IsFiniteSet(DOMAIN parts[l])
    PROVE  Offset(parts, k) <= Offset(parts, m)
<1> DEFINE U(j) == UNION {{l} \X DOMAIN parts[l] : l \in 1 .. j}
<1>1. IsFiniteSet(U(m))
    BY OffsetFinite
<1>2. U(k) \in SUBSET U(m)
    <2>1. 1 .. k \subseteq 1 .. m
        OBVIOUS
    <2> QED
        BY <2>1
<1> HIDE DEF U
<1>3. Cardinality(U(k)) <= Cardinality(U(m))
    BY <1>1, <1>2, FS_Subset
<1> QED
    BY <1>3 DEF Offset, U

(* Nothing is made of no parts.                                            *)
LEMMA JoinsNone ==
    ASSUME NEW parts, parts = << >>
    PROVE  Joins(<< >>, parts)
<1>1. UNION {{l} \X DOMAIN parts[l] : l \in 1 .. 0} = {}
    OBVIOUS
<1>2. Offset(parts, 0) = 0
    BY <1>1, FS_EmptySet DEF Offset
<1> QED
    BY <1>2 DEF Joins

(* One more part is added at the end.                                      *)
LEMMA JoinsMore ==
    ASSUME NEW E, NEW m \in Nat, NEW parts \in Seq(Seq(E)), Len(parts) = m,
           NEW more \in Seq(Seq(E)), Len(more) = m + 1,
           \A l \in 1 .. m : more[l] = parts[l],
           NEW seq \in Seq(E), Joins(seq, parts)
    PROVE  Joins(seq \o more[m + 1], more)
<1> DEFINE p == more[m + 1]
<1>1. /\ DOMAIN parts = 1 .. m /\ DOMAIN more = 1 .. m + 1
      /\ \A l \in 1 .. m + 1 : more[l] \in Seq(E)
      /\ \A l \in 1 .. m : parts[l] \in Seq(E)
    OBVIOUS
<1>2. p \in Seq(E) /\ Len(p) \in Nat /\ DOMAIN p = 1 .. Len(p)
    BY <1>1
<1>3. Len(seq) = Offset(parts, m) /\ Offset(more, m) = Offset(parts, m)
    BY OffsetSame DEF Joins
<1>4. Offset(more, m + 1) = Len(seq) + Len(p)
    BY <1>1, <1>3, OffsetNext
<1> HIDE DEF p
<1>5. Len(seq \o p) = Offset(more, Len(more))
    BY <1>2, <1>4
<1>6. ASSUME NEW k \in 1 .. m, NEW j \in DOMAIN more[k]
      PROVE  (seq \o p)[Offset(more, k - 1) + j] = more[k][j]
    <2>1. k - 1 \in Nat /\ k = (k - 1) + 1 /\ more[k] = parts[k]
        OBVIOUS
    <2>2. Offset(more, k - 1) = Offset(parts, k - 1)
        <3>1. \A l \in 1 .. k - 1 : more[l] = parts[l]
            OBVIOUS
        <3> QED
            BY <2>1, <3>1, OffsetSame
    <2>3. seq[Offset(parts, k - 1) + j] = parts[k][j]
        BY <1>1, <2>1 DEF Joins
    <2>4. Offset(parts, k - 1) + j \in DOMAIN seq
        <3>1. \A l \in 1 .. m : IsFiniteSet(DOMAIN parts[l])
            <4>1. ASSUME NEW l \in 1 .. m
                  PROVE  IsFiniteSet(DOMAIN parts[l])
                <5>1. DOMAIN parts[l] = 1 .. Len(parts[l]) /\ Len(parts[l]) \in Nat
                    BY <1>1
                <5> QED
                    BY <5>1, FS_Interval
            <4> QED
                BY <4>1
        <3>2. Offset(parts, k) <= Offset(parts, m)
            <4>1. k \in 0 .. m
                OBVIOUS
            <4> QED
                BY <3>1, <4>1, OffsetGrows
        <3>7. Offset(parts, k - 1) \in Nat
            <4>1. \A l \in 1 .. k - 1 : IsFiniteSet(DOMAIN parts[l])
                BY <3>1
            <4> QED
                BY <2>1, <4>1, OffsetFinite
        <3>3. \A l \in 1 .. (k - 1) + 1 : parts[l] \in Seq(E)
            BY <1>1
        <3>4. Offset(parts, (k - 1) + 1) = Offset(parts, k - 1) + Len(parts[(k - 1) + 1])
            BY <2>1, <3>3, OffsetNext
        <3>5. Offset(parts, k) = Offset(parts, k - 1) + Len(parts[k])
            BY <2>1, <3>4
        <3>6. j \in 1 .. Len(parts[k]) /\ Len(parts[k]) \in Nat
            BY <1>1, <2>1
        <3>8. Len(seq) \in Nat /\ DOMAIN seq = 1 .. Len(seq)
            OBVIOUS
        <3> QED
            BY <1>3, <3>2, <3>5, <3>6, <3>7, <3>8
    <2> QED
        BY <1>2, <2>1, <2>2, <2>3, <2>4
<1>7. ASSUME NEW j \in DOMAIN p
      PROVE  (seq \o p)[Offset(more, m) + j] = p[j]
    BY <1>2, <1>3
<1>8. \A k \in 1 .. m + 1 : k \in 1 .. m \/ k = m + 1
    OBVIOUS
<1>9. \A k \in DOMAIN more : \A j \in DOMAIN more[k] :
         (seq \o p)[Offset(more, k - 1) + j] = more[k][j]
    <2>1. ASSUME NEW j \in DOMAIN more[m + 1]
          PROVE  (seq \o p)[Offset(more, (m + 1) - 1) + j] = more[m + 1][j]
        <3>1. (m + 1) - 1 = m
            OBVIOUS
        <3> QED
            BY <1>7, <3>1 DEF p
    <2> QED
        BY <1>1, <1>6, <1>8, <2>1
<1> QED
    BY <1>5, <1>9 DEF Joins, p
FrameType == [at : Nat, clone : Container, es : Seq(Entry), k : Nat,
              stage : {"begin", "base", "merge", "include", "end"}]

(* The container that a frame works on.                                    *)
Cur(j) == IF j = 1 THEN data[stack[1].at] ELSE stack[j].clone

(* What a container takes from lies below it.                              *)
Within(x, es) ==
    \A k \in DOMAIN es : Taken(x, es[k]) => es[k].name \in Below(x)

(* A container x that is being merged, as c: the first m of the entries es *)
(* are dealt with.                                                         *)
Dealt(x, es, m) == [l \in 1 .. m |-> Part(x, es[l])]
Merging(x, c, es, m) ==
    /\ ~ Plain(x) /\ es = Whole(x) /\ (given[x].base # 0 => data[given[x].base].fill)
    /\ m \in 0 .. Len(es)
    /\ Joins(c.entries, Dealt(x, es, m))
    /\ \A l \in 1 .. m : Taken(x, es[l]) => data[es[l].name].fill
    /\ Within(x, c.entries)

(* What is made of the container x.                                        *)
Based(x) == \E y \in DOMAIN given : given[y].base = x
Marked(x, c) ==
    LET d == [given[x] EXCEPT !.entries = c.entries]
    IN  /\ c.abstract <=> IF Skip(d) THEN d.abstract ELSE Based(x)
        /\ c.root <=> IF Skip(d) THEN d.root ELSE Based(x)
Result(x, c) ==
    /\ c.fill /\ c.base = given[x].base
    /\ IF Plain(x)
       THEN c.entries = given[x].entries /\ c.abstract = given[x].abstract /\ c.root = given[x].root
       ELSE Merging(x, c, Whole(x), Len(Whole(x))) /\ Marked(x, c)

Settled ==
    \A x \in DOMAIN given :
        IF data[x].fill THEN Result(x, data[x])
        ELSE data[x] = given[x] \/ (stack # << >> /\ x = i)

Unfilled(x, c) == c = [given[x] EXCEPT !.entries = c.entries] /\ ~ given[x].fill /\ ~ data[x].fill

(* A frame that waits for the call on next, and the one on top.            *)
Waits(fr, c, next) ==
    /\ fr.at \in DOMAIN given /\ fr.stage \in {"base", "include"} /\ Unfilled(fr.at, c)
    /\ fr.stage = "base" =>
         /\ c = given[fr.at] /\ ~ Plain(fr.at) /\ given[fr.at].base # 0 /\ next = given[fr.at].base
    /\ fr.stage = "include" =>
         /\ fr.k \in DOMAIN fr.es /\ Merging(fr.at, c, fr.es, fr.k - 1)
         /\ Taken(fr.at, fr.es[fr.k]) /\ next = fr.es[fr.k].name
Works(fr, c) ==
    /\ fr.at \in DOMAIN given /\ fr.stage \in {"begin", "merge", "end"}
    /\ fr.stage = "begin" => c = data[fr.at] /\ (c.fill \/ c = given[fr.at])
    /\ fr.stage = "merge" =>
         /\ Unfilled(fr.at, c)
         /\ fr.k \in 1 .. Len(fr.es) + 1 /\ Merging(fr.at, c, fr.es, fr.k - 1)
    /\ fr.stage = "end" => Result(fr.at, c) /\ (data[fr.at].fill => c = data[fr.at])
FrameOK(j) ==
    IF j = Len(stack) THEN Works(stack[j], Cur(j)) ELSE Waits(stack[j], Cur(j), stack[j + 1].at)

Chain ==
    \A j, l \in DOMAIN stack : j < l => stack[l].at \in Below(stack[j].at)

Going ==
    /\ state \in {"run", "print", "done"}
    /\ i \in Nat \ {0}
    /\ data \in Seq(Container) /\ Len(data) = Len(given)
    /\ \A x \in DOMAIN given : data[x].base = given[x].base
    /\ stack \in Seq(FrameType)
    /\ state # "run" => stack = << >> /\ i \notin DOMAIN given
    /\ stack # << >> => stack[1].at = i
    /\ \A x \in DOMAIN given : x < i => data[x].fill \/ given[x].abstract
    /\ Settled /\ Chain
    /\ \A j \in DOMAIN stack : FrameOK(j)
    /\ state = "done" => out = {x \in DOMAIN data : all \/ ~ Skip(data[x])}

IInv ==
    /\ given \in Documents /\ self \in BOOLEAN /\ clean \in BOOLEAN /\ all \in BOOLEAN
    /\ clean => stack = << >> /\ state # "overflow"
    /\ ~ clean /\ ~ Cyclic => Going
----------------------------------------------------------------------------
(* The containers as they were read.                                       *)
LEMMA GivenParts ==
    ASSUME given \in Documents
    PROVE  /\ given \in Seq(Container) /\ Len(given) \in Nat /\ Len(given) <= MaxDepth
           /\ MaxDepth \in Nat /\ DOMAIN given = 1 .. Len(given)
           /\ \A x \in DOMAIN given : given[x] \in Container
BY TransformAssumption

LEMMA ContainerParts ==
    ASSUME NEW c \in Container
    PROVE  /\ c.base \in Nat /\ c.entries \in Seq(Entry)
           /\ c.abstract \in BOOLEAN /\ c.root \in BOOLEAN /\ c.fill \in BOOLEAN
BY DEF Container

(* What is needed is below, and what is below that, too.                   *)
LEMMA NeedsBelow ==
    ASSUME NEW x, NEW y \in Needs(x)
    PROVE  y \in Below(x)
BY DEF Below, Needs

LEMMA BelowBelow ==
    ASSUME NEW x, NEW y \in Below(x), NEW z \in Below(y)
    PROVE  z \in Below(x)
<1>1. z \in DOMAIN given
    BY DEF Below
<1>2. ASSUME NEW S \in SUBSET DOMAIN given,
             Needs(x) \subseteq S, \A u \in S : Needs(u) \subseteq S
      PROVE  z \in S
    <2>1. y \in S
        BY <1>2 DEF Below
    <2>2. Needs(y) \subseteq S
        BY <1>2, <2>1
    <2> QED
        BY <1>2, <2>2 DEF Below
<1> QED
    BY <1>1, <1>2 DEF Below

(* A container takes from nothing but what is below it.                    *)
LEMMA GivenWithin ==
    ASSUME NEW x
    PROVE  Within(x, given[x].entries)
<1>1. ASSUME NEW k \in DOMAIN given[x].entries, Taken(x, given[x].entries[k])
      PROVE  given[x].entries[k].name \in Needs(x)
    BY <1>1 DEF Needs, Taken, ToSet
<1> QED
    BY <1>1, NeedsBelow DEF Within

LEMMA ResultWithin ==
    ASSUME NEW x, NEW c, Result(x, c)
    PROVE  Within(x, c.entries)
BY GivenWithin DEF Result, Merging

(* What a container below takes from is below, too.                        *)
LEMMA WithinBelow ==
    ASSUME NEW x, NEW z \in Below(x), NEW es, Within(z, es)
    PROVE  Within(x, es)
BY BelowBelow DEF Within, Taken

LEMMA WithinJoined ==
    ASSUME NEW x, NEW a \in Seq(Entry), NEW b \in Seq(Entry), Within(x, a), Within(x, b)
    PROVE  Within(x, a \o b)
<1> SUFFICES ASSUME NEW k \in DOMAIN (a \o b), Taken(x, (a \o b)[k])
             PROVE  (a \o b)[k].name \in Below(x)
    BY DEF Within
<1>1. CASE k <= Len(a)
    <2>1. k \in DOMAIN a /\ (a \o b)[k] = a[k]
        BY <1>1
    <2> QED
        BY <2>1 DEF Within
<1>2. CASE k > Len(a)
    <2>1. k - Len(a) \in DOMAIN b /\ (a \o b)[k] = b[k - Len(a)]
        BY <1>2
    <2> QED
        BY <2>1 DEF Within
<1>3. k \in Nat /\ Len(a) \in Nat
    OBVIOUS
<1> QED
    BY <1>1, <1>2, <1>3

(* The entries to be merged, and what becomes of each.                     *)
LEMMA WholeType ==
    ASSUME Len(data) = Len(given), data \in Seq(Container), given \in Seq(Container),
           NEW x \in DOMAIN given, ~ Plain(x)
    PROVE  Whole(x) \in Seq(Entry)
<1>1. given[x] \in Container /\ DOMAIN data = DOMAIN given
    OBVIOUS
<1>2. CASE given[x].base = 0
    BY <1>1, <1>2, ContainerParts DEF Whole
<1>3. CASE given[x].base # 0
    <2>1. given[x].base \in DOMAIN data
        BY <1>1, <1>3 DEF Plain
    <2>2. data[given[x].base] \in Container
        BY <2>1
    <2> QED
        BY <1>1, <1>3, <2>2, ContainerParts DEF Whole
<1> QED
    BY <1>2, <1>3

LEMMA PartType ==
    ASSUME Len(data) = Len(given), data \in Seq(Container), given \in Seq(Container),
           NEW x, NEW e \in Entry
    PROVE  Part(x, e) \in Seq(Entry)
<1>1. DOMAIN data = DOMAIN given /\ \A y \in DOMAIN data : data[y] \in Container
    OBVIOUS
<1>2. Taken(x, e) => data[e.name].entries \in Seq(Entry)
    BY <1>1, ContainerParts DEF Taken
<1>3. <<e>> \in Seq(Entry) /\ << >> \in Seq(Entry)
    OBVIOUS
<1> QED
    BY <1>2, <1>3 DEF Part

LEMMA DealtType ==
    ASSUME Len(data) = Len(given), data \in Seq(Container), given \in Seq(Container),
           NEW x, NEW es \in Seq(Entry), NEW m \in 0 .. Len(es)
    PROVE  /\ Dealt(x, es, m) \in Seq(Seq(Entry)) /\ Len(Dealt(x, es, m)) = m
           /\ \A l \in 1 .. m : Dealt(x, es, m)[l] = Part(x, es[l])
<1>1. m \in Nat /\ \A l \in 1 .. m : es[l] \in Entry
    OBVIOUS
<1>2. \A l \in 1 .. m : Part(x, es[l]) \in Seq(Entry)
    BY <1>1, PartType
<1> QED
    BY <1>1, <1>2 DEF Dealt
----------------------------------------------------------------------------
(* What is filled stays as it is, so that what was made of it stays true.  *)
Stays == \A y \in DOMAIN given : data[y].fill => data'[y] = data[y]

LEMMA MergingStays ==
    ASSUME given' = given, self' = self, Stays, given \in Seq(Container),
           NEW x \in DOMAIN given, NEW c, NEW es, NEW m, Merging(x, c, es, m)
    PROVE  Merging(x, c, es, m)' /\ Dealt(x, es, m)' = Dealt(x, es, m)
<1>1. /\ Plain(x)' <=> Plain(x)
      /\ \A e : Taken(x, e)' <=> Taken(x, e)
      /\ \A zs : Within(x, zs)' <=> Within(x, zs)
    BY DEF Plain, Taken, Within, Below, Needs
<1>2. given[x].base # 0 => data'[given[x].base] = data[given[x].base]
    BY DEF Merging, Plain, Stays
<1>3. Whole(x)' = Whole(x)
    BY <1>2 DEF Whole
<1>4. \A l \in 1 .. m : Taken(x, es[l]) => data'[es[l].name] = data[es[l].name]
    BY DEF Merging, Taken, Stays
<1>5. \A l \in 1 .. m : Part(x, es[l])' = Part(x, es[l])
    BY <1>1, <1>4 DEF Part
<1>6. Dealt(x, es, m)' = Dealt(x, es, m)
    BY <1>5 DEF Dealt
<1>7. Joins(c.entries, Dealt(x, es, m))' <=> Joins(c.entries, Dealt(x, es, m))
    BY <1>6
<1> QED
    BY <1>1, <1>2, <1>3, <1>4, <1>6, <1>7 DEF Merging

LEMMA ResultStays ==
    ASSUME given' = given, self' = self, Stays, given \in Seq(Container),
           NEW x \in DOMAIN given, NEW c, Result(x, c)
    PROVE  Result(x, c)'
<1>1. (Plain(x)' <=> Plain(x)) /\ (Based(x)' <=> Based(x))
    BY DEF Plain, Based
<1>2. PICK es : es = Whole(x)
    OBVIOUS
<1>3. ASSUME ~ Plain(x)
      PROVE  Whole(x)' = es /\ Merging(x, c, es, Len(es))'
    <2>1. Merging(x, c, es, Len(es))
        BY <1>2, <1>3 DEF Result
    <2>2. PICK m : m = Len(es)
        OBVIOUS
    <2>3. Merging(x, c, es, m)'
        BY <2>1, <2>2, MergingStays
    <2> QED
        BY <2>2, <2>3 DEF Merging
<1>4. Marked(x, c)' <=> Marked(x, c)
    <2>1. ([given[x] EXCEPT !.entries = c.entries])' = [given[x] EXCEPT !.entries = c.entries]
        OBVIOUS
    <2> QED
        BY <1>1, <2>1 DEF Marked, Skip
<1>5. /\ c.fill /\ c.base = given[x].base
      /\ Plain(x) => c.entries = given[x].entries /\ c.abstract = given[x].abstract
                     /\ c.root = given[x].root
      /\ ~ Plain(x) => Marked(x, c)
    BY DEF Result
<1>6. ~ Plain(x) => Merging(x, c, Whole(x), Len(Whole(x)))'
    BY <1>3
<1> QED
    BY <1>1, <1>4, <1>5, <1>6 DEF Result
----------------------------------------------------------------------------
(* The frame on top.                                                       *)
LEMMA TopParts ==
    ASSUME given \in Documents, Going, stack # << >>
    PROVE  /\ Len(stack) \in Nat \ {0} /\ DOMAIN stack = 1 .. Len(stack)
           /\ Top = stack[Len(stack)] /\ Top \in FrameType /\ FrameOK(Len(stack))
           /\ Curr = Cur(Len(stack))
           /\ DOMAIN data = DOMAIN given
           /\ \A j \in DOMAIN stack : /\ stack[j] \in FrameType /\ stack[j].at \in DOMAIN given
                                      /\ Cur(j) \in Container
<1>1. /\ Len(stack) \in Nat \ {0} /\ DOMAIN stack = 1 .. Len(stack) /\ stack \in Seq(FrameType)
      /\ data \in Seq(Container) /\ Len(data) = Len(given)
      /\ \A j \in DOMAIN stack : FrameOK(j)
    BY DEF Going
<1>2. DOMAIN data = DOMAIN given /\ \A x \in DOMAIN data : data[x] \in Container
    BY <1>1, GivenParts
<1>3. \A j \in DOMAIN stack : stack[j] \in FrameType /\ stack[j].at \in DOMAIN given
    BY <1>1 DEF FrameOK, Waits, Works
<1>4. \A j \in DOMAIN stack : Cur(j) \in Container
    BY <1>1, <1>2, <1>3 DEF Cur, FrameType
<1>5. Top = stack[Len(stack)] /\ Curr = Cur(Len(stack))
    BY DEF Top, Curr, Cur
<1> QED
    BY <1>1, <1>2, <1>3, <1>4, <1>5

(* Without a circle, no container is worked on twice at a time, and what   *)
(* the top frame takes from is not worked on yet.                          *)
LEMMA Apart ==
    ASSUME given \in Documents, Going, stack # << >>, ~ Cyclic
    PROVE  /\ \A j, l \in DOMAIN stack : j < l => stack[j].at # stack[l].at
           /\ \A z \in Below(Top.at) : \A j \in DOMAIN stack :
                z \in Below(stack[j].at) /\ z # stack[j].at
<1>1. \A x \in DOMAIN given : x \notin Below(x)
    BY DEF Cyclic
<1>2. \A j, l \in DOMAIN stack : j < l => stack[l].at \in Below(stack[j].at)
    BY DEF Going, Chain
<1>3. \A j \in DOMAIN stack : stack[j].at \in DOMAIN given
    BY TopParts
<1>4. ASSUME NEW z \in Below(Top.at), NEW j \in DOMAIN stack
      PROVE  z \in Below(stack[j].at)
    <2>1. CASE j = Len(stack)
        BY <2>1, TopParts
    <2>2. CASE j < Len(stack)
        <3>1. Top.at \in Below(stack[j].at)
            BY <1>2, <2>2, TopParts
        <3> QED
            BY <3>1, BelowBelow
    <2>3. j = Len(stack) \/ j < Len(stack)
        BY TopParts
    <2> QED
        BY <2>1, <2>2, <2>3
<1> QED
    BY <1>1, <1>2, <1>3, <1>4

(* So the stack has room for one more call.                                *)
LEMMA RoomLeft ==
    ASSUME given \in Documents, Going, stack # << >>, ~ Cyclic,
           NEW z \in Below(Top.at)
    PROVE  Len(stack) < MaxDepth
<1>1. PICK n : n = Len(stack)
    OBVIOUS
<1> DEFINE g == [j \in 1 .. n + 1 |-> IF j = n + 1 THEN z ELSE stack[j].at]
<1>2. n \in Nat /\ DOMAIN stack = 1 .. n /\ \A j \in 1 .. n : stack[j].at \in DOMAIN given
    BY <1>1, TopParts
<1>3. z \in DOMAIN given
    BY DEF Below
<1>4. g \in [1 .. n + 1 -> DOMAIN given]
    BY <1>2, <1>3
<1>5. ASSUME NEW j \in 1 .. n + 1, NEW l \in 1 .. n + 1, j < l
      PROVE  g[j] # g[l]
    <2>1. j \in 1 .. n /\ j # n + 1
        BY <1>2, <1>5
    <2>2. CASE l = n + 1
        BY <1>2, <2>1, <2>2, Apart
    <2>3. CASE l # n + 1
        <3>1. l \in 1 .. n
            BY <1>2, <2>3
        <3>2. stack[j].at # stack[l].at
            BY <1>2, <1>5, <2>1, <3>1, Apart
        <3> QED
            BY <2>1, <2>3, <3>2
    <2> QED
        BY <2>2, <2>3
<1> HIDE DEF g
<1>6. g \in Injection(1 .. n + 1, DOMAIN given)
    <2>1. \A j, l \in 1 .. n + 1 : j # l => j < l \/ l < j
        BY <1>2
    <2>2. \A j, l \in 1 .. n + 1 : g[j] = g[l] => j = l
        BY <1>5, <2>1
    <2> QED
        BY <1>4, <2>2 DEF Injection, IsInjective
<1>7. /\ DOMAIN given = 1 .. Len(given) /\ Len(given) \in Nat
      /\ Len(given) <= MaxDepth /\ MaxDepth \in Nat
    BY GivenParts
<1>8. IsFiniteSet(DOMAIN given) /\ Cardinality(DOMAIN given) = Len(given)
    <2>1. 1 \in Int /\ Len(given) \in Int
        BY <1>7
    <2>2. PICK l : l = Len(given)
        OBVIOUS
    <2>3. IsFiniteSet(1 .. l) /\ Cardinality(1 .. l) = IF 1 > l THEN 0 ELSE l - 1 + 1
        BY <2>1, <2>2, FS_Interval
    <2> QED
        BY <1>7, <2>2, <2>3
<1>9. Cardinality(1 .. n + 1) <= Len(given)
    BY <1>6, <1>8, FS_Injection
<1>10. Cardinality(1 .. n + 1) = n + 1
    <2>1. 1 \in Int /\ n + 1 \in Int /\ ~ 1 > n + 1 /\ (n + 1) - 1 + 1 = n + 1
        BY <1>2
    <2>2. Cardinality(1 .. n + 1) = (n + 1) - 1 + 1
        BY <2>1, FS_Interval
    <2> QED
        BY <2>1, <2>2
<1> QED
    BY <1>1, <1>2, <1>7, <1>9, <1>10

(* One more entry is dealt with.                                           *)
LEMMA MergingMore ==
    ASSUME given' = given, self' = self, Stays, given \in Seq(Container),
           data \in Seq(Container), Len(data) = Len(given),
           NEW x \in DOMAIN given, NEW c \in Container, NEW es \in Seq(Entry),
           NEW m \in Nat, m + 1 \in DOMAIN es, Merging(x, c, es, m),
           NEW q \in Seq(Entry), Part(x, es[m + 1])' = q, Within(x, q),
           (Taken(x, es[m + 1]) => data[es[m + 1].name].fill)',
           NEW d, d.entries = c.entries \o q
    PROVE  Merging(x, d, es, m + 1)'
<1>1. PICK seq : seq = c.entries
    OBVIOUS
<1>2. seq \in Seq(Entry) /\ m + 1 \in 0 .. Len(es) /\ m \in 0 .. Len(es)
    BY <1>1, ContainerParts
<1>3. PICK parts : parts = Dealt(x, es, m)
    OBVIOUS
<1>4. parts \in Seq(Seq(Entry)) /\ Len(parts) = m /\ Joins(seq, parts)
    BY <1>1, <1>2, <1>3, DealtType DEF Merging
<1>5. Merging(x, c, es, m)'
    BY MergingStays
<1>6. Dealt(x, es, m)' = parts
    BY <1>3, MergingStays
<1>7. PICK more : more = Dealt(x, es, m + 1)'
    OBVIOUS
<1>8. more = [l \in 1 .. m + 1 |-> Part(x, es[l])'] /\ parts = [l \in 1 .. m |-> Part(x, es[l])']
    BY <1>6, <1>7 DEF Dealt
<1>9. \A l \in 1 .. m : more[l] = parts[l] /\ parts[l] \in Seq(Entry)
    BY <1>4, <1>8
<1>10. more[m + 1] = q
    BY <1>8
<1>11. more \in Seq(Seq(Entry)) /\ Len(more) = m + 1
    <2>1. \A l \in 1 .. m + 1 : more[l] \in Seq(Entry)
        <3>1. \A l \in 1 .. m + 1 : l \in 1 .. m \/ l = m + 1
            OBVIOUS
        <3> QED
            BY <1>9, <1>10, <3>1
    <2> QED
        BY <1>8, <2>1
<1>12. Joins(seq \o more[m + 1], more)
    BY <1>2, <1>4, <1>9, <1>11, JoinsMore
<1>13. Joins(d.entries, Dealt(x, es, m + 1)')
    BY <1>1, <1>7, <1>10, <1>12
<1>14. \A zs : Within(x, zs)' <=> Within(x, zs)
    BY DEF Taken, Within, Below, Needs
<1>15. Within(x, d.entries)'
    <2>1. Within(x, seq)
        BY <1>1 DEF Merging
    <2>2. Within(x, seq \o q)
        BY <1>2, <2>1, WithinJoined
    <2> QED
        BY <1>1, <1>14, <2>2
<1>16. \A l \in 1 .. m + 1 : (Taken(x, es[l]) => data[es[l].name].fill)'
    <2>1. \A l \in 1 .. m : (Taken(x, es[l]) => data[es[l].name].fill)'
        BY <1>5 DEF Merging
    <2>2. \A l \in 1 .. m + 1 : l \in 1 .. m \/ l = m + 1
        OBVIOUS
    <2> QED
        BY <2>1, <2>2
<1>17. (~ Plain(x) /\ es = Whole(x) /\ (given[x].base # 0 => data[given[x].base].fill))'
    BY <1>5 DEF Merging
<1> QED
    BY <1>2, <1>13, <1>15, <1>16, <1>17 DEF Merging

(* No entry is dealt with yet.                                             *)
LEMMA MergingStarts ==
    ASSUME NEW x, NEW c, NEW es, c.entries = << >>, Len(es) \in Nat,
           (~ Plain(x) /\ es = Whole(x) /\ (given[x].base # 0 => data[given[x].base].fill))'
    PROVE  Merging(x, c, es, 0)'
<1>1. PICK parts : parts = Dealt(x, es, 0)'
    OBVIOUS
<1>2. parts = << >>
    BY <1>1 DEF Dealt
<1>3. Joins(c.entries, parts)
    BY <1>2, JoinsNone
<1>4. Within(x, c.entries)'
    BY DEF Within
<1>5. 0 \in 0 .. Len(es) /\ \A l \in 1 .. 0 : FALSE
    OBVIOUS
<1> QED
    BY <1>1, <1>3, <1>4, <1>5 DEF Merging

(* A frame that waits goes on waiting while its container stays.           *)
LEMMA WaitsStays ==
    ASSUME given' = given, self' = self, Stays, given \in Seq(Container),
           NEW fr, NEW c, NEW next, Waits(fr, c, next), (data[fr.at])' = data[fr.at]
    PROVE  Waits(fr, c, next)'
<1>1. PICK x : x = fr.at
    OBVIOUS
<1>2. x \in DOMAIN given /\ Unfilled(x, c)
    BY <1>1 DEF Waits
<1>3. /\ Plain(x)' <=> Plain(x)
      /\ Unfilled(x, c)' <=> Unfilled(x, c)
      /\ \A e : Taken(x, e)' <=> Taken(x, e)
    BY <1>1 DEF Plain, Unfilled, Taken
<1>4. ASSUME fr.stage = "include"
      PROVE  Merging(x, c, fr.es, fr.k - 1)'
    <2>1. Merging(x, c, fr.es, fr.k - 1)
        BY <1>1, <1>4 DEF Waits
    <2> QED
        BY <1>2, <2>1, MergingStays
<1> QED
    BY <1>1, <1>2, <1>3, <1>4 DEF Waits
----------------------------------------------------------------------------
(* Containers that were settled remain so, whatever is filled in a step.   *)
LEMMA SettledStays ==
    ASSUME given' = given, self' = self, i' = i, Stays, given \in Seq(Container),
           Settled, stack' # << >>,
           \A x \in DOMAIN given :
              data'[x] = data[x] \/ IF data'[x].fill THEN Result(x, data[x])' ELSE x = i
    PROVE  Settled'
<1>1. ASSUME NEW x \in DOMAIN given
      PROVE  (IF data[x].fill THEN Result(x, data[x])
              ELSE data[x] = given[x] \/ (stack # << >> /\ x = i))'
    <2>1. CASE data'[x] = data[x]
        <3>1. PICK d : d = data[x]
            OBVIOUS
        <3>2. d.fill => Result(x, d)
            BY <3>1 DEF Settled
        <3>3. d.fill => Result(x, d)'
            BY <3>2, ResultStays
        <3>4. d.fill => Result(x, data[x])'
            BY <2>1, <3>1, <3>3
        <3>5. ~ d.fill => d = given[x] \/ x = i
            BY <3>1 DEF Settled
        <3> QED
            BY <2>1, <3>1, <3>4, <3>5
    <2>2. CASE IF data'[x].fill THEN Result(x, data[x])' ELSE x = i
        BY <2>2
    <2> QED
        BY <2>1, <2>2
<1> QED
    BY <1>1 DEF Settled

(* The calls below the n-th wait, as they did before.                      *)
LEMMA PlaceBelow ==
    ASSUME NEW m \in Nat, NEW n \in Nat, n <= m, NEW j \in 1 .. n - 1
    PROVE  j \in 1 .. m /\ j # m /\ j # n /\ j + 1 \in 1 .. n
OBVIOUS

(* The calls in progress are cut back to the n-th, which goes on with its  *)
(* container as c; what the calls below it work on stays.                  *)
LEMMA TopKeeps ==
    ASSUME given \in Documents, Going, state = "run",
           UNCHANGED <<options, i, state, out>>,
           NEW n \in DOMAIN stack, NEW fr \in FrameType, NEW c,
           stack' \in Seq(FrameType), Len(stack') = n,
           \A j \in 1 .. n - 1 : stack'[j] = stack[j] /\ data'[stack[j].at] = data[stack[j].at],
           stack'[n] = fr, fr.at = stack[n].at, Cur(n)' = c, Works(fr, c)',
           data' \in Seq(Container), Len(data') = Len(given), Stays,
           \A x \in DOMAIN given : data'[x].base = given[x].base,
           \A x \in DOMAIN given :
              data'[x] = data[x] \/ IF data'[x].fill THEN Result(x, data[x])' ELSE x = i
    PROVE  Going'
<1>1. /\ given \in Seq(Container) /\ given' = given /\ self' = self /\ i' = i /\ state' = state
      /\ n \in Nat \ {0} /\ DOMAIN stack = 1 .. Len(stack) /\ Len(stack) \in Nat /\ n <= Len(stack)
      /\ DOMAIN stack' = 1 .. n /\ stack # << >> /\ stack' # << >>
    BY GivenParts DEF options, Going
<1>2. /\ i \in Nat \ {0} /\ stack[1].at = i /\ Settled /\ Chain
      /\ \A x \in DOMAIN given : x < i => data[x].fill \/ given[x].abstract
      /\ \A j \in DOMAIN stack : FrameOK(j)
    BY <1>1 DEF Going
<1>3. \A j \in 1 .. n : stack'[j].at = stack[j].at
    <2>1. \A j \in 1 .. n : j \in 1 .. n - 1 \/ j = n
        BY <1>1
    <2> QED
        BY <2>1
<1>4. Settled'
    BY <1>1, <1>2, SettledStays
<1>5. Chain'
    <2>1. \A x : Below(x)' = Below(x)
        BY <1>1 DEF Below, Needs
    <2> QED
        BY <1>1, <1>2, <1>3, <2>1 DEF Chain
<1>6. ASSUME NEW j \in 1 .. n - 1
      PROVE  FrameOK(j)'
    <2>1. PICK f, d, next : f = stack[j] /\ d = Cur(j) /\ next = stack[j + 1].at
        OBVIOUS
    <2>2. j \in DOMAIN stack /\ j # Len(stack) /\ j # Len(stack') /\ j + 1 \in 1 .. n
        <3>1. n \in Nat /\ Len(stack) \in Nat /\ n <= Len(stack)
            BY <1>1
        <3> QED
            BY <1>1, <3>1, PlaceBelow
    <2>3. Waits(f, d, next)
        BY <1>2, <2>1, <2>2 DEF FrameOK
    <2>4. (data[f.at])' = data[f.at] /\ stack'[j] = f
        BY <2>1
    <2>5. Waits(f, d, next)'
        BY <1>1, <2>3, <2>4, WaitsStays
    <2>6. Cur(j)' = d
        BY <2>1, <2>4 DEF Cur
    <2>7. (stack[j + 1].at)' = next
        BY <1>3, <2>1, <2>2
    <2> QED
        BY <2>2, <2>4, <2>5, <2>6, <2>7 DEF FrameOK
<1>7. FrameOK(n)'
    BY DEF FrameOK
<1>8. \A j \in DOMAIN stack' : FrameOK(j)'
    <2>1. \A j \in 1 .. n : j \in 1 .. n - 1 \/ j = n
        BY <1>1
    <2> QED
        BY <1>1, <1>6, <1>7, <2>1
<1>9. \A x \in DOMAIN given : x < i => data'[x].fill \/ given[x].abstract
    BY <1>2 DEF Stays
<1>10. stack'[1].at = i'
    BY <1>1, <1>2, <1>3
<1> QED
    BY <1>1, <1>2, <1>4, <1>5, <1>8, <1>9, <1>10 DEF Going

(* The top frame goes on.                                                  *)
LEMMA GoesKeeps ==
    ASSUME given \in Documents, Going, state = "run", stack # << >>,
           ~ Cyclic, UNCHANGED <<options, i, state, out>>,
           NEW c \in Container, NEW stage \in {"merge", "end"},
           NEW es \in Seq(Entry), NEW k \in Nat,
           Goes(c, stage, es, k), c.base = given[Top.at].base,
           data[Top.at].fill => c = data[Top.at], c.fill => stage = "end",
           NEW fr, fr = [at |-> Top.at, clone |-> IF Len(stack) = 1 THEN Top.clone ELSE c,
                         stage |-> stage, es |-> es, k |-> k],
           Works(fr, c)'
    PROVE  Going'
<1>1. PICK n, x : n = Len(stack) /\ x = Top.at
    OBVIOUS
<1>2. /\ n \in Nat \ {0} /\ DOMAIN stack = 1 .. n /\ Top = stack[n] /\ Top \in FrameType
      /\ DOMAIN data = DOMAIN given /\ x \in DOMAIN given
      /\ \A j \in DOMAIN stack : stack[j].at \in DOMAIN given
    BY <1>1, TopParts
<1>3. /\ stack \in Seq(FrameType) /\ data \in Seq(Container) /\ Len(data) = Len(given)
      /\ \A y \in DOMAIN given : data[y].base = given[y].base
      /\ stack[1].at = i
    BY DEF Going
<1>4. fr \in FrameType
    BY <1>2 DEF FrameType
<1>5. /\ stack' = [stack EXCEPT ![n] = fr]
      /\ data' = IF n = 1 THEN [data EXCEPT ![x] = c] ELSE data
    BY <1>1 DEF Goes
<1>6. /\ stack' \in Seq(FrameType) /\ Len(stack') = n /\ stack'[n] = fr
      /\ \A j \in 1 .. n - 1 : stack'[j] = stack[j]
    BY <1>1, <1>2, <1>3, <1>4, <1>5
<1>7. data' \in Seq(Container) /\ Len(data') = Len(given)
    <2>1. x \in DOMAIN data
        BY <1>2
    <2>2. [data EXCEPT ![x] = c] \in Seq(Container) /\ Len([data EXCEPT ![x] = c]) = Len(data)
        BY <1>3, <2>1
    <2> QED
        BY <1>3, <1>5, <2>2
<1>8. \A y \in DOMAIN given : data'[y] = data[y] \/ (y = x /\ n = 1 /\ data'[y] = c)
    BY <1>2, <1>3, <1>5
<1>9. Stays
    BY <1>1, <1>8 DEF Stays
<1>10. \A y \in DOMAIN given : data'[y].base = given[y].base
    BY <1>1, <1>3, <1>8
<1>11. Cur(n)' = c
    <2>1. CASE n = 1
        <3>1. data'[x] = c /\ stack'[1].at = x
            BY <1>1, <1>2, <1>3, <1>5, <1>6, <2>1
        <3> QED
            BY <2>1, <3>1 DEF Cur
    <2>2. CASE n # 1
        BY <1>1, <1>6, <2>2 DEF Cur
    <2> QED
        BY <2>1, <2>2
<1>12. ASSUME NEW y \in DOMAIN given
       PROVE  data'[y] = data[y] \/ IF data'[y].fill THEN Result(y, data[y])' ELSE y = i
    <2>1. CASE y = x /\ n = 1 /\ data'[y] = c
        <3>1. y = i
            BY <1>1, <1>2, <1>3, <2>1
        <3>2. ASSUME c.fill
              PROVE  Result(y, data[y])'
            <4>1. Result(x, c)'
                BY <1>1, <3>2 DEF Works
            <4> QED
                BY <2>1, <4>1
        <3> QED
            BY <2>1, <3>1, <3>2
    <2> QED
        BY <1>8, <2>1
<1>13. \A j \in 1 .. n - 1 : data'[stack[j].at] = data[stack[j].at]
    BY <1>2, <1>8
<1>14. n \in DOMAIN stack /\ fr.at = stack[n].at
    BY <1>1, <1>2
<1> QED
    BY <1>4, <1>6, <1>7, <1>9, <1>10, <1>11, <1>12, <1>13, <1>14, TopKeeps

(* The top frame calls for a container below it.                           *)
LEMMA CallKeeps ==
    ASSUME given \in Documents, Going, state = "run", stack # << >>,
           ~ Cyclic, UNCHANGED <<options, i, out>>,
           NEW z \in Below(Top.at), NEW stage \in {"base", "include"}, Call(stage, z),
           NEW fr, fr = [Top EXCEPT !.stage = stage], Waits(fr, Curr, z)
    PROVE  Going'
<1>1. PICK n, x, c : n = Len(stack) /\ x = Top.at /\ c = Curr
    OBVIOUS
<1>2. /\ n \in Nat \ {0} /\ DOMAIN stack = 1 .. n /\ Top = stack[n] /\ Top \in FrameType
      /\ DOMAIN data = DOMAIN given /\ x \in DOMAIN given /\ c = Cur(n) /\ c \in Container
    BY <1>1, TopParts
<1>3. /\ stack \in Seq(FrameType) /\ data \in Seq(Container) /\ Len(data) = Len(given)
      /\ i \in Nat \ {0} /\ stack[1].at = i /\ Settled /\ Chain
      /\ \A y \in DOMAIN given : data[y].base = given[y].base
      /\ \A y \in DOMAIN given : y < i => data[y].fill \/ given[y].abstract
      /\ \A j \in DOMAIN stack : FrameOK(j)
    BY DEF Going
<1>4. /\ z \in DOMAIN given /\ data[z] \in Container
      /\ \A j \in DOMAIN stack : z \in Below(stack[j].at) /\ z # stack[j].at
    <2>1. z \in DOMAIN given
        BY DEF Below
    <2>2. data[z] \in Container
        BY <1>2, <1>3, <2>1
    <2>3. \A y \in Below(Top.at) : \A j \in DOMAIN stack :
             y \in Below(stack[j].at) /\ y # stack[j].at
        BY Apart
    <2> QED
        BY <2>1, <2>2, <2>3
<1>5. PICK new : new = Frame(z)
    OBVIOUS
<1>6. new \in FrameType /\ fr \in FrameType /\ fr.at = x /\ fr.clone = Top.clone
    <2>1. new \in FrameType
        <3>1. z \in Nat /\ << >> \in Seq(Entry)
            BY <1>4, GivenParts
        <3> QED
            BY <1>4, <1>5, <3>1 DEF Frame, FrameType
    <2>2. fr \in FrameType
        BY <1>2 DEF FrameType
    <2>3. fr.at = Top.at /\ fr.clone = Top.clone
        BY <1>2 DEF FrameType
    <2> QED
        BY <1>1, <2>1, <2>2, <2>3
<1>7. /\ stack' = Append([stack EXCEPT ![n] = fr], new) /\ data' = data
      /\ given' = given /\ self' = self /\ i' = i
    BY <1>1, <1>2, <1>3, <1>5 DEF Call, options
<1>8. state' = "run"
    <2>1. Len(stack) < MaxDepth /\ MaxDepth \in Nat
        BY RoomLeft, GivenParts
    <2> QED
        BY <1>1, <1>2, <2>1 DEF Call
<1>9. /\ stack' \in Seq(FrameType) /\ Len(stack') = n + 1 /\ stack'[n] = fr /\ stack'[n + 1] = new
      /\ \A j \in 1 .. n - 1 : stack'[j] = stack[j]
      /\ DOMAIN stack' = 1 .. n + 1 /\ stack' # << >>
    <2>1. PICK s : s = [stack EXCEPT ![n] = fr]
        OBVIOUS
    <2>2. /\ s \in Seq(FrameType) /\ Len(s) = n /\ s[n] = fr
          /\ \A j \in 1 .. n - 1 : s[j] = stack[j]
        <3>1. n \in DOMAIN stack /\ Len(stack) = n
            BY <1>1, <1>2
        <3>2. s \in Seq(FrameType) /\ Len(s) = n
            BY <1>3, <1>6, <2>1, <3>1
        <3>3. s[n] = fr /\ \A j \in 1 .. n - 1 : s[j] = stack[j]
            BY <1>2, <2>1, <3>1
        <3> QED
            BY <3>2, <3>3
    <2>3. stack' = Append(s, new)
        BY <1>7, <2>1
    <2> QED
        BY <1>2, <1>6, <2>2, <2>3
<1>10. Stays /\ given \in Seq(Container)
    BY <1>7, GivenParts DEF Stays
<1>11. Settled'
    BY <1>3, <1>7, <1>9, <1>10, SettledStays
<1>12. \A j \in 1 .. n : stack'[j].at = stack[j].at
    <2>1. \A j \in 1 .. n : j \in 1 .. n - 1 \/ j = n
        BY <1>2
    <2> QED
        BY <1>1, <1>2, <1>6, <1>9, <2>1
<1>13. new.at = z
    BY <1>5 DEF Frame
<1>14. Chain'
    <2>1. \A y : Below(y)' = Below(y)
        BY <1>7 DEF Below, Needs
    <2>2. \A j, l \in 1 .. n + 1 : j < l => j \in 1 .. n /\ (l \in 1 .. n \/ l = n + 1)
        BY <1>2
    <2>3. ASSUME NEW j \in 1 .. n + 1, NEW l \in 1 .. n + 1, j < l
          PROVE  stack'[l].at \in Below(stack'[j].at)
        <3>1. CASE l \in 1 .. n
            BY <1>2, <1>3, <1>12, <2>2, <2>3, <3>1 DEF Chain
        <3>2. CASE l = n + 1
            BY <1>2, <1>4, <1>9, <1>12, <1>13, <2>2, <2>3, <3>2
        <3> QED
            BY <2>2, <2>3, <3>1, <3>2
    <2> QED
        BY <1>9, <2>1, <2>3 DEF Chain
<1>15. FrameOK(n + 1)'
    <2>1. Cur(n + 1)' = data[z]
        <3>1. n + 1 # 1 /\ new.clone = data[z]
            BY <1>2, <1>5 DEF Frame
        <3> QED
            BY <1>9, <3>1 DEF Cur
    <2>2. data[z].fill \/ data[z] = given[z]
        <3>1. z # i
            BY <1>2, <1>3, <1>4
        <3> QED
            BY <1>3, <1>4, <3>1 DEF Settled
    <2>3. PICK d : d = data[z]
        OBVIOUS
    <2>4. Works(new, d)'
        BY <1>4, <1>5, <1>7, <2>2, <2>3 DEF Works, Frame
    <2> QED
        BY <1>9, <2>1, <2>3, <2>4 DEF FrameOK
<1>16. ASSUME NEW j \in 1 .. n
       PROVE  FrameOK(j)'
    <2>1. PICK f, d, next : f = stack'[j] /\ d = Cur(j) /\ next = stack'[j + 1].at
        OBVIOUS
    <2>2. Waits(f, d, next)
        <3>1. CASE j = n
            <4>1. f = fr /\ d = Curr /\ next = z
                BY <1>1, <1>2, <1>9, <1>13, <2>1, <3>1
            <4> QED
                BY <4>1
        <3>2. CASE j # n
            <4>1. j \in 1 .. n - 1 /\ j + 1 \in 1 .. n
                BY <1>2, <3>2
            <4>2. f = stack[j] /\ next = stack[j + 1].at
                BY <1>9, <1>12, <2>1, <4>1
            <4> QED
                BY <1>1, <1>2, <1>3, <2>1, <3>2, <4>2 DEF FrameOK
        <3> QED
            BY <3>1, <3>2
    <2>3. Waits(f, d, next)'
        BY <1>7, <1>10, <2>2, WaitsStays
    <2>4. Cur(j)' = d
        <3>1. CASE j = 1
            <4>1. stack'[1].at = stack[1].at
                BY <1>12, <3>1
            <4> QED
                BY <1>7, <2>1, <3>1, <4>1 DEF Cur
        <3>2. CASE j # 1
            <4>1. stack'[j].clone = stack[j].clone
                <5>1. j \in 1 .. n - 1 \/ j = n
                    BY <1>2
                <5> QED
                    BY <1>1, <1>2, <1>6, <1>9, <5>1
            <4> QED
                BY <2>1, <3>2, <4>1 DEF Cur
        <3> QED
            BY <3>1, <3>2
    <2>5. j # Len(stack')
        BY <1>2, <1>9
    <2> QED
        BY <2>1, <2>3, <2>4, <2>5 DEF FrameOK
<1>17. \A j \in DOMAIN stack' : FrameOK(j)'
    <2>1. \A j \in 1 .. n + 1 : j \in 1 .. n \/ j = n + 1
        BY <1>2
    <2> QED
        BY <1>9, <1>15, <1>16, <2>1
<1>18. stack'[1].at = i'
    BY <1>2, <1>3, <1>7, <1>12
<1> QED
    BY <1>3, <1>7, <1>8, <1>9, <1>11, <1>14, <1>17, <1>18 DEF Going
----------------------------------------------------------------------------
(* A call returns to the frame under it.                                   *)
LEMMA ReturnKeeps ==
    ASSUME given \in Documents, Going, stack # << >>, ~ Cyclic, ~ clean, Return
    PROVE  Going'
<1>1. PICK n, x : n = Len(stack) /\ x = Top.at
    OBVIOUS
<1>2. /\ n \in Nat \ {0} /\ DOMAIN stack = 1 .. n /\ Top = stack[n] /\ Top \in FrameType
      /\ Curr = Cur(n) /\ DOMAIN data = DOMAIN given /\ x \in DOMAIN given
      /\ \A j \in DOMAIN stack : /\ stack[j] \in FrameType /\ stack[j].at \in DOMAIN given
                                 /\ Cur(j) \in Container
    BY <1>1, TopParts
<1>3. /\ stack \in Seq(FrameType) /\ data \in Seq(Container) /\ Len(data) = Len(given)
      /\ i \in Nat \ {0} /\ stack[1].at = i /\ Settled /\ Chain
      /\ \A y \in DOMAIN given : data[y].base = given[y].base
      /\ \A y \in DOMAIN given : y < i => data[y].fill \/ given[y].abstract
      /\ \A j \in DOMAIN stack : FrameOK(j)
    BY DEF Going
<1>4. /\ state = "run" /\ Top.stage = "end" /\ state' = state /\ out' = out
      /\ given' = given /\ self' = self /\ given \in Seq(Container)
      /\ UNCHANGED options
    BY GivenParts DEF Return, In, options
<1>5. PICK c0 : c0 = Cur(n)
    OBVIOUS
<1>6. c0 \in Container /\ Result(x, c0) /\ (data[x].fill => c0 = data[x])
    BY <1>1, <1>2, <1>3, <1>4, <1>5 DEF FrameOK, Works
<1>7. CASE n = 1
    <2>1. stack' = << >> /\ i' = i + 1 /\ data' = data
        BY <1>1, <1>2, <1>7 DEF Return
    <2>2. x = i /\ c0 = data[i] /\ c0.fill
        BY <1>1, <1>2, <1>3, <1>5, <1>6, <1>7 DEF Cur, Result
    <2>3. Stays
        BY <2>1 DEF Stays
    <2>4. ASSUME NEW y \in DOMAIN given
          PROVE  (IF data[y].fill THEN Result(y, data[y])
                  ELSE data[y] = given[y] \/ (stack # << >> /\ y = i))'
        <3>1. PICK d : d = data[y]
            OBVIOUS
        <3>2. d.fill => Result(y, d)
            BY <1>3, <3>1 DEF Settled
        <3>3. d.fill => Result(y, d)'
            BY <1>4, <2>3, <3>2, ResultStays
        <3>4. ~ d.fill => d = given[y]
            BY <1>3, <2>2, <3>1 DEF Settled
        <3> QED
            BY <1>4, <2>1, <3>1, <3>3, <3>4
    <2>5. Settled'
        BY <1>4, <2>4 DEF Settled
    <2>6. \A y \in DOMAIN given : y < i + 1 => data[y].fill \/ given[y].abstract
        <3>1. \A y \in DOMAIN given : y < i + 1 => y < i \/ y = i
            BY <1>3, GivenParts
        <3> QED
            BY <1>3, <2>2, <3>1
    <2>7. Chain' /\ DOMAIN stack' = {} /\ stack' \in Seq(FrameType)
        BY <2>1 DEF Chain
    <2> QED
        BY <1>3, <1>4, <2>1, <2>5, <2>6, <2>7 DEF Going
<1>8. CASE n # 1
    <2>1. PICK m, u, c : m = n - 1 /\ u = stack[m] /\ c = Cur(m)
        OBVIOUS
    <2>2. /\ m \in Nat \ {0} /\ m \in DOMAIN stack /\ n \in DOMAIN stack
          /\ m # n /\ m + 1 = n /\ m < n
          /\ \A j \in 1 .. m - 1 : j \in DOMAIN stack /\ j < m /\ j < n
        BY <1>2, <1>8, <2>1
    <2>3. u \in FrameType /\ u.at \in DOMAIN given /\ c \in Container /\ c0 = Top.clone
        BY <1>1, <1>2, <1>5, <1>8, <2>1, <2>2 DEF Cur
    <2>4. Waits(u, c, x)
        BY <1>1, <1>2, <1>3, <2>1, <2>2 DEF FrameOK
    <2>5. /\ x \in Below(u.at) /\ x # u.at
          /\ \A j \in 1 .. m - 1 : stack[j].at # x /\ stack[j].at # u.at
        BY <1>1, <1>2, <1>3, <2>1, <2>2, Apart DEF Chain
    <2>6. Len(Under) = m /\ \A j \in 1 .. m : Under[j] = stack[j]
        BY <1>1, <1>2, <1>3, <2>1, <2>2 DEF Under
    <2>7. Under \in Seq(FrameType)
        BY <1>1, <1>2, <1>3, <2>1, <2>2 DEF Under
    <2>8. Under[Len(Under)] = u
        BY <2>1, <2>2, <2>6
    <2>9. PICK w : w = [data EXCEPT ![x] = c0]
        OBVIOUS
    <2>10. /\ w \in Seq(Container) /\ Len(w) = Len(given) /\ w[x] = c0 /\ DOMAIN w = DOMAIN given
           /\ \A y \in DOMAIN given : y # x => w[y] = data[y]
        BY <1>2, <1>3, <1>6, <2>9
    <2>11. c = IF m = 1 THEN w[u.at] ELSE u.clone
        BY <2>1, <2>3, <2>5, <2>10 DEF Cur
    <2>12. PICK d : d = [c EXCEPT !.entries = IF u.stage = "base" THEN << >>
                                              ELSE c.entries \o c0.entries]
        OBVIOUS
    <2>13. PICK r : r = IF u.stage = "base"
                        THEN [u EXCEPT !.stage = "merge", !.k = 1,
                                       !.es = c0.entries \o c.entries]
                        ELSE [u EXCEPT !.stage = "merge", !.k = u.k + 1]
        OBVIOUS
    <2>14. PICK fr : fr = [r EXCEPT !.clone = IF m = 1 THEN r.clone ELSE d]
        OBVIOUS
    <2>15. /\ data' = IF m = 1 THEN [w EXCEPT ![u.at] = d] ELSE w
           /\ stack' = [Under EXCEPT ![m] = fr] /\ i' = i
        BY <1>1, <1>2, <1>8, <2>3, <2>6, <2>8, <2>9, <2>11, <2>12, <2>13, <2>14 DEF Return
    <2>16. /\ d \in Container /\ d.base = c.base /\ d.fill = c.fill
           /\ d.entries = IF u.stage = "base" THEN << >> ELSE c.entries \o c0.entries
        <3>1. PICK es : es = IF u.stage = "base" THEN << >> ELSE c.entries \o c0.entries
            OBVIOUS
        <3>2. es \in Seq(Entry)
            BY <1>6, <2>3, <3>1, ContainerParts
        <3>3. d = [c EXCEPT !.entries = es]
            BY <2>12, <3>1
        <3> QED
            BY <2>3, <3>1, <3>2, <3>3 DEF Container
    <2>17. /\ fr \in FrameType /\ fr.at = u.at /\ fr.stage = "merge" /\ (m # 1 => fr.clone = d)
           /\ u.stage = "base" => fr.k = 1 /\ fr.es = c0.entries \o c.entries
           /\ u.stage # "base" => fr.k = u.k + 1 /\ fr.es = u.es
        <3>1. PICK es : es = c0.entries \o c.entries
            OBVIOUS
        <3>2. es \in Seq(Entry) /\ u.k + 1 \in Nat
            BY <1>6, <2>3, <3>1, ContainerParts DEF FrameType
        <3>3. /\ r \in FrameType /\ r.at = u.at /\ r.stage = "merge"
              /\ u.stage = "base" => r.k = 1 /\ r.es = es
              /\ u.stage # "base" => r.k = u.k + 1 /\ r.es = u.es
            <4>1. CASE u.stage = "base"
                <5>1. r = [u EXCEPT !.stage = "merge", !.k = 1, !.es = es]
                    BY <2>13, <3>1, <4>1
                <5> QED
                    BY <2>3, <3>2, <4>1, <5>1 DEF FrameType
            <4>2. CASE u.stage # "base"
                <5>1. r = [u EXCEPT !.stage = "merge", !.k = u.k + 1]
                    BY <2>13, <4>2
                <5> QED
                    BY <2>3, <3>2, <4>2, <5>1 DEF FrameType
            <4> QED
                BY <4>1, <4>2
        <3>4. /\ fr \in FrameType /\ fr.at = r.at /\ fr.stage = r.stage
              /\ fr.k = r.k /\ fr.es = r.es
              /\ m # 1 => fr.clone = d
            BY <2>14, <2>16, <3>3 DEF FrameType
        <3> QED
            BY <3>1, <3>3, <3>4
    <2>18. /\ data' \in Seq(Container) /\ Len(data') = Len(given)
           /\ data'[x] = c0 /\ (m = 1 => data'[u.at] = d) /\ (m # 1 => data'[u.at] = data[u.at])
           /\ \A y \in DOMAIN given : y # x /\ y # u.at => data'[y] = data[y]
        BY <2>3, <2>5, <2>10, <2>15, <2>16
    <2>19. c0.fill /\ c0.base = given[x].base
        BY <1>6 DEF Result
    <2>20. ~ c.fill /\ c.base = given[u.at].base /\ ~ data[u.at].fill /\ ~ given[u.at].fill
           /\ c = [given[u.at] EXCEPT !.entries = c.entries] /\ u.stage \in {"base", "include"}
        BY <1>4, <2>3, <2>4 DEF Waits, Unfilled, Container
    <2>21. Stays
        BY <1>6, <2>18, <2>20 DEF Stays
    <2>22. Result(x, c0)'
        BY <1>2, <1>4, <1>6, <2>21, ResultStays
    <2>23. \A y \in DOMAIN given : data'[y].base = given[y].base
        BY <1>3, <2>16, <2>18, <2>19, <2>20
    <2>24. ASSUME NEW y \in DOMAIN given
           PROVE  data'[y] = data[y] \/ IF data'[y].fill THEN Result(y, data[y])' ELSE y = i
        <3>1. CASE y = x
            BY <2>18, <2>19, <2>22, <3>1
        <3>2. CASE y = u.at /\ m = 1
            BY <1>3, <2>1, <2>16, <2>18, <2>20, <3>2
        <3> QED
            BY <2>18, <3>1, <3>2
    <2>25. /\ stack' \in Seq(FrameType) /\ Len(stack') = m /\ stack'[m] = fr
           /\ \A j \in 1 .. m - 1 : stack'[j] = stack[j]
        BY <2>2, <2>6, <2>7, <2>15, <2>17
    <2>26. \A j \in 1 .. m - 1 : data'[stack[j].at] = data[stack[j].at]
        BY <1>2, <2>2, <2>5, <2>18
    <2>27. Cur(m)' = d
        BY <2>17, <2>18, <2>25 DEF Cur
    <2>28. Unfilled(u.at, d)'
        <3>1. d = [given[u.at] EXCEPT !.entries = d.entries]
            BY <1>4, <2>3, <2>12, <2>16, <2>20 DEF Container
        <3>2. ~ data'[u.at].fill
            BY <2>16, <2>18, <2>20
        <3> QED
            BY <1>4, <2>20, <3>1, <3>2 DEF Unfilled
    <2>29. /\ UNCHANGED <<options, i, state, out>> /\ state = "run" /\ fr.at = stack[m].at
           /\ \A j \in 1 .. m - 1 : stack'[j] = stack[j] /\ data'[stack[j].at] = data[stack[j].at]
        BY <1>4, <2>1, <2>15, <2>17, <2>25, <2>26
    <2>30. CASE u.stage = "base"
        <3>1. ~ Plain(u.at) /\ given[u.at].base = x /\ c = given[u.at] /\ given[u.at].base # 0
            BY <2>4, <2>30 DEF Waits
        <3>2. Merging(u.at, d, fr.es, 0)'
            <4>1. (~ Plain(u.at))'
                BY <1>4, <3>1 DEF Plain
            <4>2. (fr.es = Whole(u.at))'
                BY <1>4, <2>17, <2>18, <2>30, <3>1 DEF Whole
            <4>3. (given[u.at].base # 0 => data[given[u.at].base].fill)'
                BY <1>4, <2>18, <2>19, <3>1
            <4>4. d.entries = << >> /\ Len(fr.es) \in Nat
                BY <2>16, <2>17, <2>30 DEF FrameType
            <4> QED
                BY <4>1, <4>2, <4>3, <4>4, MergingStarts
        <3>3. fr.k = 1 /\ fr.k - 1 = 0 /\ fr.k \in 1 .. Len(fr.es) + 1
            BY <2>17, <2>30 DEF FrameType
        <3>4. Works(fr, d)'
            BY <1>4, <2>3, <2>17, <2>28, <3>2, <3>3 DEF Works
        <3> QED
            BY <2>2, <2>17, <2>18, <2>21, <2>23, <2>24, <2>25, <2>27, <2>29, <3>4, TopKeeps
    <2>31. CASE u.stage = "include"
        <3>1. PICK k : k = u.k - 1
            OBVIOUS
        <3>2. /\ k \in Nat /\ k + 1 \in DOMAIN u.es /\ k + 1 = u.k /\ Merging(u.at, c, u.es, k)
              /\ Taken(u.at, u.es[k + 1]) /\ x = u.es[k + 1].name
            <4>1. /\ u.k \in DOMAIN u.es /\ Merging(u.at, c, u.es, u.k - 1)
                  /\ Taken(u.at, u.es[u.k]) /\ x = u.es[u.k].name
                BY <2>4, <2>31 DEF Waits
            <4>2. u.es \in Seq(Entry)
                BY <2>3 DEF FrameType
            <4>3. k \in Nat /\ k + 1 = u.k
                BY <3>1, <4>1, <4>2
            <4> QED
                BY <3>1, <4>1, <4>3
        <3>3. PICK q : q = c0.entries
            OBVIOUS
        <3>4. q \in Seq(Entry) /\ u.es \in Seq(Entry)
            BY <1>6, <2>3, <3>3 DEF FrameType, Container
        <3>5. Taken(u.at, u.es[k + 1])'
            BY <1>4, <3>2 DEF Taken
        <3>6. Part(u.at, u.es[k + 1])' = q
            BY <2>18, <3>2, <3>3, <3>5 DEF Part
        <3>7. (Taken(u.at, u.es[k + 1]) => data[u.es[k + 1].name].fill)'
            BY <2>18, <2>19, <3>2
        <3>8. Within(u.at, q)
            BY <1>6, <2>5, <3>3, ResultWithin, WithinBelow
        <3>9. d.entries = c.entries \o q
            BY <2>16, <2>31, <3>3
        <3>10. Merging(u.at, d, u.es, k + 1)'
            BY <1>3, <1>4, <2>3, <2>21, <3>2, <3>4, <3>6, <3>7, <3>8, <3>9, MergingMore
        <3>11. fr.es = u.es /\ fr.k = u.k + 1 /\ fr.k - 1 = k + 1 /\ fr.k \in 1 .. Len(fr.es) + 1
            BY <2>17, <2>31, <3>2, <3>4
        <3>12. Works(fr, d)'
            BY <1>4, <2>3, <2>17, <2>28, <3>10, <3>11 DEF Works
        <3> QED
            BY <2>2, <2>17, <2>18, <2>21, <2>23, <2>24, <2>25, <2>27, <2>29, <3>12, TopKeeps
    <2> QED
        BY <2>20, <2>30, <2>31
<1> QED
    BY <1>7, <1>8
----------------------------------------------------------------------------
(* What the top frame makes of its container changes none that is filled.  *)
LEMMA GoesData ==
    ASSUME given \in Documents, Going, stack # << >>,
           NEW c, NEW stage, NEW es, NEW k, Goes(c, stage, es, k),
           data[Top.at].fill => c = data[Top.at]
    PROVE  Stays /\ (data'[Top.at].fill => c = data'[Top.at])
<1>1. PICK x : x = Top.at
    OBVIOUS
<1>2. x \in DOMAIN data /\ DOMAIN data = DOMAIN given
    BY <1>1, TopParts
<1>3. data' = IF Len(stack) = 1 THEN [data EXCEPT ![x] = c] ELSE data
    BY <1>1 DEF Goes
<1>4. \A y \in DOMAIN given : data'[y] = data[y] \/ (y = x /\ data'[y] = c)
    BY <1>2, <1>3
<1> QED
    BY <1>1, <1>2, <1>4 DEF Stays

(* The top frame is through with its container.                            *)
LEMMA EndKeeps ==
    ASSUME given \in Documents, Going, state = "run", stack # << >>,
           ~ Cyclic, UNCHANGED <<options, i, state, out>>,
           NEW c \in Container, Goes(c, "end", << >>, 0), Result(Top.at, c),
           data[Top.at].fill => c = data[Top.at]
    PROVE  Going'
<1>1. PICK x : x = Top.at
    OBVIOUS
<1>2. x \in DOMAIN given /\ given \in Seq(Container) /\ given' = given /\ self' = self
    BY <1>1, TopParts, GivenParts DEF options
<1>3. Stays /\ (data'[x].fill => c = data'[x])
    BY <1>1, GoesData
<1>4. Result(x, c)'
    BY <1>1, <1>2, <1>3, ResultStays
<1>5. c.base = given[x].base
    BY <1>1 DEF Result
<1>6. PICK fr : fr = [at |-> Top.at, clone |-> IF Len(stack) = 1 THEN Top.clone ELSE c,
                      stage |-> "end", es |-> << >>, k |-> 0]
    OBVIOUS
<1>7. fr.at = x /\ fr.stage = "end"
    BY <1>1, <1>6
<1>8. Works(fr, c)'
    BY <1>2, <1>3, <1>4, <1>7 DEF Works
<1>9. << >> \in Seq(Entry) /\ 0 \in Nat
    OBVIOUS
<1> QED
    BY <1>1, <1>5, <1>6, <1>8, <1>9, GoesKeeps

(* The top frame goes on merging.                                          *)
LEMMA MergeKeeps ==
    ASSUME given \in Documents, Going, state = "run", stack # << >>,
           ~ Cyclic, UNCHANGED <<options, i, state, out>>,
           NEW c \in Container, NEW es \in Seq(Entry), NEW k \in 1 .. Len(es) + 1,
           Goes(c, "merge", es, k),
           NEW x, x = Top.at, Unfilled(x, c), Merging(x, c, es, k - 1)'
    PROVE  Going'
<1>1. x \in DOMAIN given /\ given \in Seq(Container) /\ given' = given /\ self' = self
    BY TopParts, GivenParts DEF options
<1>2. given[x] \in Container
    BY <1>1
<1>3. ~ c.fill /\ c.base = given[x].base /\ ~ data[x].fill
      /\ ~ given[x].fill /\ c = [given[x] EXCEPT !.entries = c.entries]
    <2>1. /\ c = [given[x] EXCEPT !.entries = c.entries] /\ ~ given[x].fill /\ ~ data[x].fill
        BY DEF Unfilled
    <2>2. c.fill = given[x].fill /\ c.base = given[x].base
        BY <1>2, <2>1 DEF Container
    <2> QED
        BY <2>1, <2>2
<1>4. data'[x].fill => c = data'[x]
    BY <1>3, GoesData
<1>5. PICK fr : fr = [at |-> Top.at, clone |-> IF Len(stack) = 1 THEN Top.clone ELSE c,
                      stage |-> "merge", es |-> es, k |-> k]
    OBVIOUS
<1>6. fr.at = x /\ fr.stage = "merge" /\ fr.es = es /\ fr.k = k
    BY <1>5
<1>7. Unfilled(x, c)'
    BY <1>1, <1>3, <1>4 DEF Unfilled
<1>8. PICK m : m = k - 1
    OBVIOUS
<1>9. Merging(x, c, es, m)'
    BY <1>8
<1>10. Works(fr, c)'
    BY <1>1, <1>6, <1>7, <1>8, <1>9 DEF Works
<1>11. k \in Nat
    OBVIOUS
<1> QED
    BY <1>3, <1>5, <1>10, <1>11, GoesKeeps

(* The top frame begins.                                                   *)
LEMMA EnterKeeps ==
    ASSUME given \in Documents, Going, ~ Cyclic, Enter
    PROVE  Going'
<1>1. /\ state = "run" /\ stack # << >> /\ Top.stage = "begin"
      /\ UNCHANGED <<options, i, out>> /\ given' = given
    BY DEF Enter, In, options
<1>2. PICK x, c : x = Top.at /\ c = Curr
    OBVIOUS
<1>3. /\ x \in DOMAIN given /\ DOMAIN data = DOMAIN given /\ c \in Container
      /\ given[x] \in Container /\ Works(Top, c) /\ Top \in FrameType
    BY <1>1, <1>2, TopParts, GivenParts DEF FrameOK
<1>4. /\ c = data[x] /\ (c.fill \/ c = given[x]) /\ Settled
      /\ \A y \in DOMAIN given : data[y].base = given[y].base
    BY <1>1, <1>2, <1>3 DEF Works, Going
<1>5. CASE /\ c.fill \/ (c.base # 0 /\ c.base \notin DOMAIN data)
           /\ Goes([c EXCEPT !.fill = TRUE], "end", << >>, 0)
           /\ UNCHANGED state
    <2>1. PICK d : d = [c EXCEPT !.fill = TRUE]
        OBVIOUS
    <2>2. /\ d \in Container /\ d.fill /\ d.base = c.base /\ d.entries = c.entries
          /\ d.abstract = c.abstract /\ d.root = c.root
        BY <1>3, <2>1 DEF Container
    <2>3. c.fill => d = c
        BY <1>3, <2>1 DEF Container
    <2>4. Result(x, d)
        <3>1. CASE c.fill
            <4>1. Result(x, data[x])
                BY <1>3, <1>4, <3>1 DEF Settled
            <4> QED
                BY <1>4, <2>3, <3>1, <4>1
        <3>2. CASE ~ c.fill
            <4>1. c = given[x] /\ Plain(x)
                BY <1>3, <1>4, <1>5, <3>2 DEF Plain
            <4> QED
                BY <2>2, <4>1 DEF Result
        <3> QED
            BY <3>1, <3>2
    <2>5. Goes(d, "end", << >>, 0) /\ UNCHANGED <<options, i, state, out>>
        BY <1>1, <1>5, <2>1
    <2>6. data[x].fill => d = data[x]
        BY <1>4, <2>3
    <2> QED
        BY <1>1, <1>2, <2>2, <2>4, <2>5, <2>6, EndKeeps
<1>6. CASE /\ ~ c.fill /\ c.base = 0
           /\ Goes([c EXCEPT !.entries = << >>], "merge", c.entries, 1)
           /\ UNCHANGED state
    <2>1. PICK d, es : d = [c EXCEPT !.entries = << >>] /\ es = c.entries
        OBVIOUS
    <2>2. d \in Container /\ d.entries = << >> /\ es \in Seq(Entry) /\ Len(es) \in Nat
        <3>1. << >> \in Seq(Entry) /\ es \in Seq(Entry)
            BY <1>3, <2>1, ContainerParts
        <3>2. PICK none : none = << >>
            OBVIOUS
        <3>3. d = [c EXCEPT !.entries = none] /\ none \in Seq(Entry)
            BY <2>1, <3>1, <3>2
        <3>4. d \in Container /\ d.entries = none
            BY <1>3, <3>3 DEF Container
        <3> QED
            BY <3>1, <3>2, <3>4
    <2>3. c = given[x] /\ ~ data[x].fill /\ ~ given[x].fill
        BY <1>4, <1>6
    <2>4. Unfilled(x, d)
        BY <2>1, <2>2, <2>3 DEF Unfilled
    <2>5. (~ Plain(x) /\ es = Whole(x) /\ (given[x].base # 0 => data[given[x].base].fill))'
        BY <1>1, <1>6, <2>1, <2>3 DEF Plain, Whole
    <2>6. Merging(x, d, es, 0)'
        BY <2>2, <2>5, MergingStarts
    <2>7. PICK k : k = 1
        OBVIOUS
    <2>8. k \in 1 .. Len(es) + 1 /\ k - 1 = 0
        BY <2>2, <2>7
    <2>9. Merging(x, d, es, k - 1)'
        <3>1. PICK m : m = k - 1
            OBVIOUS
        <3> QED
            BY <2>6, <2>8, <3>1
    <2>10. Goes(d, "merge", es, k) /\ UNCHANGED <<options, i, state, out>>
        BY <1>1, <1>6, <2>1, <2>7
    <2> QED
        BY <1>1, <1>2, <2>2, <2>4, <2>8, <2>9, <2>10, MergeKeeps
<1>7. CASE ~ c.fill /\ c.base \in DOMAIN data /\ Call("base", c.base)
    <2>1. PICK z, fr : z = c.base /\ fr = [Top EXCEPT !.stage = "base"]
        OBVIOUS
    <2>2. /\ c = given[x] /\ ~ data[x].fill /\ ~ given[x].fill
          /\ z \in DOMAIN given /\ z = given[x].base
        BY <1>3, <1>4, <1>7, <2>1
    <2>3. z \in Below(x)
        <3>1. z \in Needs(x)
            BY <2>2 DEF Needs
        <3> QED
            BY <3>1, NeedsBelow
    <2>4. z # 0
        BY <2>2, GivenParts
    <2>5. Unfilled(x, c)
        BY <1>3, <2>2 DEF Unfilled, Container
    <2>6. ~ Plain(x)
        BY <2>2 DEF Plain
    <2>7. fr.at = x /\ fr.stage = "base"
        BY <1>2, <1>3, <2>1 DEF FrameType
    <2>8. Waits(fr, c, z)
        BY <1>3, <2>2, <2>4, <2>5, <2>6, <2>7 DEF Waits
    <2>9. Call("base", z)
        BY <1>7, <2>1
    <2> QED
        BY <1>1, <1>2, <2>1, <2>3, <2>8, <2>9, CallKeeps
<1> QED
    BY <1>2, <1>5, <1>6, <1>7 DEF Enter
----------------------------------------------------------------------------
(* What a container takes from, directly or through its base, is below it. *)
LEMMA WholeWithin ==
    ASSUME given \in Documents, Going, NEW x \in DOMAIN given, ~ Plain(x),
           given[x].base # 0 => data[given[x].base].fill
    PROVE  Within(x, Whole(x))
<1>1. /\ given \in Seq(Container) /\ data \in Seq(Container) /\ Len(data) = Len(given) /\ Settled
      /\ given[x] \in Container /\ given[x].entries \in Seq(Entry)
    BY GivenParts, ContainerParts DEF Going
<1>2. Within(x, given[x].entries)
    BY GivenWithin
<1>3. CASE given[x].base = 0
    BY <1>2, <1>3 DEF Whole
<1>4. CASE given[x].base # 0
    <2>1. PICK b, a, e : b = given[x].base /\ a = data[b].entries /\ e = given[x].entries
        OBVIOUS
    <2>2. b \in DOMAIN given /\ data[b].fill
        BY <1>4, <2>1 DEF Plain
    <2>3. data[b] \in Container
        BY <1>1, <2>2
    <2>4. Within(b, a)
        BY <1>1, <2>1, <2>2, ResultWithin DEF Settled
    <2>5. b \in Below(x)
        <3>1. b \in Needs(x)
            BY <2>1, <2>2 DEF Needs
        <3> QED
            BY <3>1, NeedsBelow
    <2>6. Within(x, a) /\ a \in Seq(Entry)
        BY <2>1, <2>3, <2>4, <2>5, WithinBelow, ContainerParts
    <2>7. Within(x, a \o e)
        BY <1>1, <1>2, <2>1, <2>6, WithinJoined
    <2> QED
        BY <1>4, <2>1, <2>7 DEF Whole
<1> QED
    BY <1>3, <1>4

(* The top frame deals with its next entry.                                *)
LEMMA EntryKeeps ==
    ASSUME given \in Documents, Going, ~ Cyclic, Merge
    PROVE  Going'
<1>1. /\ state = "run" /\ stack # << >> /\ Top.stage = "merge" /\ Top.k \in DOMAIN Top.es
      /\ UNCHANGED <<options, i, out>> /\ given' = given /\ self' = self
    BY DEF Merge, In, options
<1>2. PICK x, c, es, m, e : /\ x = Top.at /\ c = Curr /\ es = Top.es
                            /\ m = Top.k - 1 /\ e = Top.es[Top.k]
    OBVIOUS
<1>3. /\ x \in DOMAIN given /\ DOMAIN data = DOMAIN given /\ c \in Container
      /\ given[x] \in Container /\ Works(Top, c) /\ Top \in FrameType
      /\ given \in Seq(Container)
    BY <1>1, <1>2, TopParts, GivenParts DEF FrameOK
<1>4. /\ Settled /\ data \in Seq(Container) /\ Len(data) = Len(given)
      /\ \A y \in DOMAIN given : data[y].base = given[y].base
    BY DEF Going
<1>5. /\ Unfilled(x, c) /\ Merging(x, c, es, Top.k - 1)
    BY <1>1, <1>2, <1>3 DEF Works
<1>6. es \in Seq(Entry) /\ m \in Nat /\ m + 1 \in DOMAIN es /\ m + 1 = Top.k /\ e = es[m + 1]
      /\ Len(es) \in Nat /\ DOMAIN es = 1 .. Len(es)
    <2>1. es \in Seq(Entry)
        BY <1>2, <1>3 DEF FrameType
    <2>2. Top.k \in 1 .. Len(es) /\ Len(es) \in Nat /\ DOMAIN es = 1 .. Len(es)
        BY <1>1, <1>2, <2>1
    <2>3. m \in Nat /\ m + 1 = Top.k
        BY <1>2, <2>2
    <2> QED
        BY <1>2, <2>1, <2>2, <2>3
<1>7. Merging(x, c, es, m) /\ e \in Entry
    BY <1>2, <1>5, <1>6
<1>8. ~ c.fill /\ c.base = given[x].base /\ ~ data[x].fill
      /\ ~ given[x].fill /\ c = [given[x] EXCEPT !.entries = c.entries]
    <2>1. /\ c = [given[x] EXCEPT !.entries = c.entries] /\ ~ given[x].fill /\ ~ data[x].fill
        BY <1>5 DEF Unfilled
    <2>2. c.fill = given[x].fill /\ c.base = given[x].base
        BY <1>3, <2>1 DEF Container
    <2> QED
        BY <2>1, <2>2
<1>9. CASE ~ Taken(x, e)
    <2>1. PICK keep : keep = (IF e.include THEN e.name = x /\ self ELSE e.name \notin Fsl)
        OBVIOUS
    <2>2. PICK q : q = Part(x, e)
        OBVIOUS
    <2>3. q = IF keep THEN <<e>> ELSE << >>
        BY <1>9, <2>1, <2>2 DEF Part
    <2>4. q \in Seq(Entry) /\ c.entries \in Seq(Entry)
        BY <1>3, <1>7, <2>3, ContainerParts
    <2>5. PICK d : d = IF keep THEN [c EXCEPT !.entries = Append(@, e)] ELSE c
        OBVIOUS
    <2>6. /\ d \in Container /\ d.entries = c.entries \o q
          /\ d = [given[x] EXCEPT !.entries = d.entries]
        <3>1. PICK zs : zs = c.entries \o q
            OBVIOUS
        <3>2. zs \in Seq(Entry) /\ zs = IF keep THEN Append(c.entries, e) ELSE c.entries
            <4>1. CASE keep
                <5>1. q = <<e>>
                    BY <2>3, <4>1
                <5>2. c.entries \o <<e>> = Append(c.entries, e) /\ c.entries \o <<e>> \in Seq(Entry)
                    BY <1>7, <2>4
                <5> QED
                    BY <3>1, <4>1, <5>1, <5>2
            <4>2. CASE ~ keep
                <5>1. q = << >>
                    BY <2>3, <4>2
                <5>2. c.entries \o << >> = c.entries
                    BY <2>4
                <5> QED
                    BY <2>4, <3>1, <4>2, <5>1, <5>2
            <4> QED
                BY <4>1, <4>2
        <3>3. d = [c EXCEPT !.entries = zs]
            <4>1. CASE keep
                BY <2>5, <3>2, <4>1
            <4>2. CASE ~ keep
                BY <1>3, <2>5, <3>2, <4>2 DEF Container
            <4> QED
                BY <4>1, <4>2
        <3>4. d \in Container /\ d.entries = zs
            BY <1>3, <3>2, <3>3 DEF Container
        <3>5. d = [given[x] EXCEPT !.entries = zs]
            BY <1>3, <1>8, <3>3 DEF Container
        <3> QED
            BY <3>1, <3>4, <3>5
    <2>7. Goes(d, "merge", es, m + 2) /\ UNCHANGED state
        <3>1. ~ (e.include /\ e.name # x /\ e.name \in DOMAIN data)
            BY <1>3, <1>9 DEF Taken
        <3>2. Top.k + 1 = m + 2
            BY <1>6
        <3>3. /\ Goes(IF (IF e.include THEN e.name = x /\ self ELSE e.name \notin Fsl)
                      THEN [c EXCEPT !.entries = Append(@, e)] ELSE c, "merge", es, Top.k + 1)
              /\ UNCHANGED state
            BY <1>2, <3>1 DEF Merge
        <3> QED
            BY <2>1, <2>5, <3>2, <3>3
    <2>8. Stays
        BY <1>1, <1>2, <1>8, <2>7, GoesData
    <2>9. ~ Taken(x, e)' /\ Part(x, e)' = q
        BY <1>1, <1>9, <2>2 DEF Taken, Part
    <2>10. Within(x, q)
        BY <1>9, <2>3 DEF Within
    <2>11. Merging(x, d, es, m + 1)'
        BY <1>1, <1>3, <1>4, <1>6, <1>7, <2>4, <2>6, <2>8, <2>9, <2>10, MergingMore
    <2>12. Unfilled(x, d)
        BY <1>8, <2>6 DEF Unfilled
    <2>13. PICK k, p : k = m + 2 /\ p = m + 1
        OBVIOUS
    <2>14. k \in 1 .. Len(es) + 1 /\ k - 1 = p
        BY <1>6, <2>13
    <2>15. Merging(x, d, es, k - 1)'
        BY <2>11, <2>13, <2>14
    <2> QED
        BY <1>1, <1>2, <1>6, <2>6, <2>7, <2>12, <2>13, <2>14, <2>15, MergeKeeps
<1>10. CASE Taken(x, e)
    <2>1. PICK z, fr : z = e.name /\ fr = [Top EXCEPT !.stage = "include"]
        OBVIOUS
    <2>2. Call("include", z)
        <3>1. e.include /\ e.name # x /\ e.name \in DOMAIN data
            BY <1>3, <1>10 DEF Taken
        <3> QED
            BY <1>2, <2>1, <3>1 DEF Merge
    <2>3. Within(x, es)
        BY <1>3, <1>7, WholeWithin DEF Merging
    <2>4. z \in Below(x)
        BY <1>6, <1>10, <2>1, <2>3 DEF Within
    <2>5. /\ fr \in FrameType /\ fr.at = x /\ fr.stage = "include" /\ fr.es = es /\ fr.k = Top.k
        BY <1>2, <1>3, <2>1 DEF FrameType
    <2>6. Waits(fr, c, z)
        BY <1>2, <1>3, <1>5, <1>6, <1>10, <2>1, <2>5 DEF Waits
    <2> QED
        BY <1>1, <1>2, <2>1, <2>2, <2>4, <2>6, CallKeeps
<1> QED
    BY <1>9, <1>10

(* The top frame has dealt with all entries.                               *)
LEMMA FinishKeeps ==
    ASSUME given \in Documents, Going, ~ Cyclic, Finish
    PROVE  Going'
<1>1. /\ state = "run" /\ stack # << >> /\ Top.stage = "merge" /\ Top.k \notin DOMAIN Top.es
      /\ UNCHANGED <<options, i, state, out>>
    BY DEF Finish, In
<1>2. PICK x, c, es, m : x = Top.at /\ c = Curr /\ es = Top.es /\ m = Top.k - 1
    OBVIOUS
<1>3. /\ x \in DOMAIN given /\ DOMAIN data = DOMAIN given /\ c \in Container
      /\ given[x] \in Container /\ Works(Top, c) /\ Top \in FrameType
    BY <1>1, <1>2, TopParts, GivenParts DEF FrameOK
<1>4. \A y \in DOMAIN given : data[y].base = given[y].base
    BY DEF Going
<1>5. Unfilled(x, c) /\ Merging(x, c, es, m) /\ Top.k \in 1 .. Len(es) + 1
    BY <1>1, <1>2, <1>3 DEF Works
<1>6. m = Len(es) /\ es = Whole(x) /\ ~ Plain(x)
    <2>1. es \in Seq(Entry)
        BY <1>2, <1>3 DEF FrameType
    <2>2. m = Len(es)
        BY <1>1, <1>2, <1>5, <2>1
    <2> QED
        BY <1>5, <2>2 DEF Merging
<1>7. PICK based : based = \E y \in DOMAIN data : data[y].base = Top.at
    OBVIOUS
<1>8. based <=> Based(x)
    BY <1>2, <1>3, <1>4, <1>7 DEF Based
<1>9. PICK d : d = [c EXCEPT !.abstract = IF Skip(c) THEN @ ELSE based,
                             !.root = IF Skip(c) THEN @ ELSE based, !.fill = TRUE]
    OBVIOUS
<1>10. /\ d \in Container /\ d.fill /\ d.base = c.base /\ d.entries = c.entries
       /\ d.abstract <=> IF Skip(c) THEN c.abstract ELSE Based(x)
       /\ d.root <=> IF Skip(c) THEN c.root ELSE Based(x)
    <2>1. based \in BOOLEAN
        BY <1>7
    <2> QED
        BY <1>3, <1>8, <1>9, <2>1 DEF Container
<1>11. Goes(d, "end", << >>, 0)
    BY <1>2, <1>7, <1>9, Zenon DEF Finish
<1>12. c = [given[x] EXCEPT !.entries = c.entries] /\ ~ data[x].fill /\ c.base = given[x].base
    BY <1>3, <1>5 DEF Unfilled, Container
<1>13. Marked(x, d)
    BY <1>10, <1>12 DEF Marked
<1>14. Merging(x, d, Whole(x), Len(Whole(x)))
    BY <1>5, <1>6, <1>10 DEF Merging
<1>15. Result(x, d)
    BY <1>6, <1>10, <1>12, <1>13, <1>14 DEF Result
<1> QED
    BY <1>1, <1>2, <1>10, <1>11, <1>12, <1>15, EndKeeps

(* The next container is up.                                               *)
LEMMA BeginKeeps ==
    ASSUME given \in Documents, Going, Begin
    PROVE  Going'
<1>1. /\ state = "run" /\ stack = << >> /\ i \in DOMAIN data /\ data' = data /\ given' = given
      /\ self' = self /\ state' = state /\ out' = out
    BY DEF Begin, options
<1>2. /\ data \in Seq(Container) /\ Len(data) = Len(given) /\ given \in Seq(Container)
      /\ DOMAIN data = DOMAIN given /\ i \in Nat \ {0} /\ Settled
      /\ \A y \in DOMAIN given : data[y].base = given[y].base
      /\ \A y \in DOMAIN given : y < i => data[y].fill \/ given[y].abstract
    BY GivenParts DEF Going
<1>3. Stays
    BY <1>1 DEF Stays
<1>4. ASSUME NEW y \in DOMAIN given
      PROVE  (IF data[y].fill THEN Result(y, data[y])
              ELSE data[y] = given[y] \/ (stack # << >> /\ y = i))'
    <2>1. PICK d : d = data[y]
        OBVIOUS
    <2>2. IF d.fill THEN Result(y, d) ELSE d = given[y]
        BY <1>1, <1>2, <2>1 DEF Settled
    <2>3. d.fill => Result(y, d)'
        BY <1>1, <1>2, <1>3, <2>2, ResultStays
    <2> QED
        BY <1>1, <2>1, <2>2, <2>3
<1>5. Settled'
    BY <1>1, <1>4 DEF Settled
<1>6. CASE data[i].abstract /\ i' = i + 1 /\ UNCHANGED stack
    <2>1. data[i].fill \/ given[i].abstract
        BY <1>1, <1>2, <1>6 DEF Settled
    <2>2. \A y \in DOMAIN given : y < i + 1 => data[y].fill \/ given[y].abstract
        <3>1. \A y \in DOMAIN given : y < i + 1 => y < i \/ y = i
            BY <1>2
        <3> QED
            BY <1>2, <2>1, <3>1
    <2>3. Chain' /\ DOMAIN stack' = {} /\ stack' \in Seq(FrameType)
        BY <1>1, <1>6 DEF Chain
    <2> QED
        BY <1>1, <1>2, <1>5, <1>6, <2>2, <2>3 DEF Going
<1>7. CASE stack' = <<Frame(i)>> /\ UNCHANGED i
    <2>1. PICK new : new = Frame(i)
        OBVIOUS
    <2>2. data[i] \in Container /\ i \in Nat /\ << >> \in Seq(Entry)
        BY <1>1, <1>2
    <2>3. new \in FrameType /\ new.at = i /\ new.stage = "begin"
        BY <2>1, <2>2 DEF Frame, FrameType
    <2>4. /\ stack' \in Seq(FrameType) /\ Len(stack') = 1 /\ stack'[1] = new
          /\ DOMAIN stack' = {1} /\ stack' # << >>
        BY <1>7, <2>1, <2>3
    <2>5. PICK d : d = data[i]
        OBVIOUS
    <2>6. d.fill \/ d = given[i]
        BY <1>1, <1>2, <2>5 DEF Settled
    <2>7. Works(new, d)'
        BY <1>1, <1>2, <2>3, <2>5, <2>6 DEF Works
    <2>8. Cur(1)' = d
        BY <1>1, <2>3, <2>4, <2>5 DEF Cur
    <2>9. FrameOK(1)'
        BY <2>4, <2>7, <2>8 DEF FrameOK
    <2>10. Chain'
        BY <2>4 DEF Chain
    <2> QED
        BY <1>1, <1>2, <1>5, <1>7, <2>3, <2>4, <2>9, <2>10 DEF Going
<1> QED
    BY <1>6, <1>7 DEF Begin
----------------------------------------------------------------------------
(* No call is in progress, and the containers stay as they are.            *)
LEMMA StillKeeps ==
    ASSUME given \in Documents, Going, UNCHANGED <<options, data, i, stack>>,
           stack = << >>, i \notin DOMAIN data, state' \in {"print", "done"},
           state' = "done" => out' = {x \in DOMAIN data : all \/ ~ Skip(data[x])}
    PROVE  Going'
<1>1. /\ given' = given /\ self' = self /\ all' = all /\ data' = data /\ i' = i /\ stack' = stack
      /\ given \in Seq(Container)
    BY GivenParts DEF options
<1>2. /\ data \in Seq(Container) /\ Len(data) = Len(given) /\ DOMAIN data = DOMAIN given
      /\ Settled
    BY <1>1 DEF Going
<1>3. Settled'
    <2>1. Stays
        BY <1>1 DEF Stays
    <2>2. ASSUME NEW y \in DOMAIN given
          PROVE  (IF data[y].fill THEN Result(y, data[y])
                  ELSE data[y] = given[y] \/ (stack # << >> /\ y = i))'
        <3>1. PICK d : d = data[y]
            OBVIOUS
        <3>2. d.fill => Result(y, d)
            BY <1>2, <3>1 DEF Settled
        <3>3. d.fill => Result(y, d)'
            BY <1>1, <2>1, <3>2, ResultStays
        <3> QED
            BY <1>1, <1>2, <3>1, <3>3 DEF Settled
    <2> QED
        BY <1>1, <2>2 DEF Settled
<1>4. Chain' /\ DOMAIN stack' = {} /\ stack' \in Seq(FrameType) /\ stack' = << >>
    BY <1>1 DEF Chain
<1> QED
    BY <1>1, <1>2, <1>3, <1>4 DEF Going

(* The invariant holds at first, and each step keeps it.                   *)
LEMMA InitHolds ==
    ASSUME InitTransform
    PROVE  IInv
<1>1. /\ given \in Documents /\ self \in BOOLEAN /\ clean \in BOOLEAN /\ all \in BOOLEAN
      /\ data = given /\ i = 1 /\ stack = << >> /\ state = "run" /\ out = {}
    BY DEF InitTransform
<1>2. given \in Seq(Container) /\ DOMAIN given = 1 .. Len(given)
    BY <1>1, GivenParts
<1>3. Settled
    <2>1. ASSUME NEW x \in DOMAIN given, given[x].fill
          PROVE  Result(x, given[x])
        BY <2>1 DEF Result, Plain
    <2> QED
        BY <1>1, <2>1 DEF Settled
<1>4. Chain /\ DOMAIN stack = {} /\ stack \in Seq(FrameType)
    BY <1>1 DEF Chain
<1>5. Going
    <2>1. \A x \in DOMAIN given : ~ x < i
        BY <1>1, <1>2
    <2> QED
        BY <1>1, <1>2, <1>3, <1>4, <2>1 DEF Going
<1> QED
    BY <1>1, <1>5 DEF IInv

LEMMA StepHolds ==
    ASSUME IInv, [NextTransform]_tvars
    PROVE  IInv'
<1> USE DEF IInv
<1>1. given' = given /\ self' = self /\ clean' = clean /\ all' = all /\ (Cyclic' <=> Cyclic)
    <2>1. given' = given /\ self' = self /\ clean' = clean /\ all' = all
        BY DEF NextTransform, Clean, Begin, EndUpdate, PrintData, Enter, Merge, Finish, Return, tvars, options
    <2>2. \A x : Below(x)' = Below(x)
        BY <2>1 DEF Below, Needs
    <2> QED
        BY <2>1, <2>2 DEF Cyclic
<1>2. CASE clean
    <2>1. stack = << >> /\ state # "overflow"
        BY <1>2
    <2>2. stack' = << >> /\ state' # "overflow"
        BY <1>2, <2>1 DEF NextTransform, Clean, Begin, EndUpdate, PrintData, Enter, Merge, Finish, Return, In, tvars
    <2> QED
        BY <1>1, <1>2, <2>2
<1>3. CASE Cyclic /\ ~ clean
    BY <1>1, <1>3
<1>4. ASSUME ~ clean, ~ Cyclic
      PROVE  Going'
    <2>1. Going /\ given \in Documents
        BY <1>4
    <2>2. CASE Clean
        BY <1>4, <2>2 DEF Clean
    <2>3. CASE Begin
        BY <2>1, <2>3, BeginKeeps
    <2>4. CASE EndUpdate
        <3>1. /\ state' = "print" /\ stack = << >> /\ i \notin DOMAIN data
              /\ UNCHANGED <<options, data, i, stack>>
            BY <2>4 DEF EndUpdate
        <3> QED
            BY <2>1, <3>1, StillKeeps
    <2>5. CASE PrintData
        <3>1. /\ state = "print" /\ state' = "done" /\ UNCHANGED <<options, data, i, stack>>
              /\ out' = {x \in DOMAIN data : all \/ ~ Skip(data[x])}
            BY <2>5 DEF PrintData
        <3>2. stack = << >> /\ i \notin DOMAIN data
            <4>1. DOMAIN data = DOMAIN given
                BY <2>1, GivenParts DEF Going
            <4> QED
                BY <2>1, <3>1, <4>1 DEF Going
        <3> QED
            BY <2>1, <3>1, <3>2, StillKeeps
    <2>6. CASE Enter
        BY <1>4, <2>1, <2>6, EnterKeeps
    <2>7. CASE Merge
        BY <1>4, <2>1, <2>7, EntryKeeps
    <2>8. CASE Finish
        BY <1>4, <2>1, <2>8, FinishKeeps
    <2>9. CASE Return
        BY <1>4, <2>1, <2>9, ReturnKeeps DEF Return, In
    <2>10. CASE UNCHANGED tvars
        <3>1. /\ given' = given /\ self' = self /\ all' = all /\ data' = data /\ i' = i
              /\ stack' = stack /\ state' = state /\ out' = out
            BY <2>10 DEF tvars, options
        <3>2. /\ \A x : Below(x)' = Below(x) /\ (Plain(x)' <=> Plain(x)) /\ Whole(x)' = Whole(x)
              /\ \A x, e : (Taken(x, e)' <=> Taken(x, e)) /\ Part(x, e)' = Part(x, e)
            BY <3>1 DEF Below, Needs, Plain, Whole, Taken, Part
        <3>3. \A x, es : Within(x, es)' <=> Within(x, es)
            BY <3>2 DEF Within
        <3>4. \A x, es, m : Dealt(x, es, m)' = Dealt(x, es, m)
            BY <3>2 DEF Dealt
        <3>5. \A x, c, es, m : Merging(x, c, es, m)' <=> Merging(x, c, es, m)
            BY <3>1, <3>2, <3>3, <3>4 DEF Merging
        <3>6. \A x, c : Result(x, c)' <=> Result(x, c)
            BY <3>1, <3>2, <3>5 DEF Result, Marked, Based
        <3>7. \A x, c : Unfilled(x, c)' <=> Unfilled(x, c)
            BY <3>1 DEF Unfilled
        <3>8. \A fr, c, next : /\ Waits(fr, c, next)' <=> Waits(fr, c, next)
                               /\ Works(fr, c)' <=> Works(fr, c)
            BY <3>1, <3>2, <3>5, <3>6, <3>7 DEF Waits, Works
        <3>9. \A j : FrameOK(j)' <=> FrameOK(j)
            BY <3>1, <3>8 DEF FrameOK, Cur
        <3>10. (Settled' <=> Settled) /\ (Chain' <=> Chain)
            BY <3>1, <3>2, <3>6 DEF Settled, Chain
        <3> QED
            BY <2>1, <3>1, <3>9, <3>10 DEF Going
    <2> QED
        BY <2>2, <2>3, <2>4, <2>5, <2>6, <2>7, <2>8, <2>9, <2>10 DEF NextTransform
<1> QED
    BY <1>1, <1>2, <1>3, <1>4

(* When all is done, the entries are those the containers stand for.       *)
LEMMA DoneMerged ==
    ASSUME IInv
    PROVE  MergeAgrees
<1>1. ASSUME state = "overflow", ~ Cyclic
      PROVE  FALSE
    BY <1>1 DEF IInv, Going
<1>2. ASSUME state = "done", ~ clean, ~ Cyclic, NEW x \in DOMAIN given
      PROVE  /\ IF Plain(x) THEN data[x].entries = given[x].entries
                ELSE IF data[x].fill THEN Merged(x)
                ELSE given[x].abstract /\ data[x] = given[x]
             /\ ~ all /\ ~ Plain(x) /\ ~ given[x].abstract =>
                  (x \in out <=>
                     /\ ~ given[x].root /\ given[x].base # 0 /\ data[x].entries # << >>
                     /\ \A y \in DOMAIN given : given[y].base # x)
    <2>1. /\ Going /\ given \in Seq(Container)
          /\ DOMAIN given = 1 .. Len(given) /\ Len(given) \in Nat
        BY <1>2, GivenParts DEF IInv
    <2>2. /\ data \in Seq(Container) /\ DOMAIN data = DOMAIN given /\ stack = << >>
          /\ i \in Nat \ {0} /\ i \notin DOMAIN given /\ Settled /\ data[x].base = given[x].base
          /\ out = {y \in DOMAIN data : all \/ ~ Skip(data[y])}
          /\ x < i => data[x].fill \/ given[x].abstract
        BY <1>2, <2>1 DEF Going
    <2>3. data[x].fill \/ given[x].abstract
        BY <1>2, <2>1, <2>2
    <2>4. IF data[x].fill THEN Result(x, data[x]) ELSE data[x] = given[x]
        BY <2>2 DEF Settled
    <2>5. Plain(x) => data[x].entries = given[x].entries
        BY <2>4 DEF Result
    <2>6. ASSUME ~ Plain(x), data[x].fill
          PROVE  Merged(x) /\ Marked(x, data[x])
        <3>1. Merging(x, data[x], Whole(x), Len(Whole(x))) /\ Marked(x, data[x])
            BY <2>4, <2>6 DEF Result
        <3>2. Whole(x) \in Seq(Entry)
            BY <2>1, <2>2, <2>6, WholeType
        <3>3. PICK es : es = Whole(x)
            OBVIOUS
        <3>4. DOMAIN es = 1 .. Len(es)
            BY <3>2, <3>3
        <3>5. Dealt(x, es, Len(es)) = [k \in DOMAIN es |-> Part(x, es[k])]
            BY <3>4 DEF Dealt
        <3>6. /\ Joins(data[x].entries, Dealt(x, es, Len(es)))
              /\ given[x].base # 0 => data[given[x].base].fill
              /\ \A k \in 1 .. Len(es) : Taken(x, es[k]) => data[es[k].name].fill
            BY <3>1, <3>3 DEF Merging
        <3> QED
            BY <3>1, <3>3, <3>4, <3>5, <3>6 DEF Merged
    <2>7. ASSUME ~ all, ~ Plain(x), ~ given[x].abstract
          PROVE  x \in out <=>
                   /\ ~ given[x].root /\ given[x].base # 0 /\ data[x].entries # << >>
                   /\ \A y \in DOMAIN given : given[y].base # x
        <3>1. Marked(x, data[x])
            BY <2>3, <2>6, <2>7
        <3>2. x \in out <=> ~ Skip(data[x])
            BY <2>2, <2>7
        <3>3. Based(x) <=> \E y \in DOMAIN given : given[y].base = x
            BY DEF Based
        <3>4. given[x] \in Container
            BY <2>1
        <3>5. PICK d : d = [given[x] EXCEPT !.entries = data[x].entries]
            OBVIOUS
        <3>6. /\ d.base = given[x].base /\ d.entries = data[x].entries
              /\ d.abstract <=> given[x].abstract
              /\ d.root <=> given[x].root
            BY <3>4, <3>5 DEF Container
        <3>7. /\ data[x].abstract <=> IF Skip(d) THEN d.abstract ELSE Based(x)
              /\ data[x].root <=> IF Skip(d) THEN d.root ELSE Based(x)
            BY <3>1, <3>5 DEF Marked
        <3> QED
            BY <2>2, <2>7, <3>2, <3>3, <3>6, <3>7 DEF Skip
    <2> QED
        BY <2>3, <2>4, <2>5, <2>6, <2>7
<1> QED
    BY <1>1, <1>2 DEF MergeAgrees

(* Whatever the documents and the options of transform, the entries of     *)
(* each container are those it stands for, once all are merged, and the    *)
(* calls have an end unless containers need each other in a circle: the    *)
(* order in which they are merged, and what is worked on when, shows       *)
(* nowhere (updateData, updateEntries, Clone, Skip).                       *)
THEOREM MergeAlwaysAgrees == SpecTransform => []MergeAgrees
<1>1. InitTransform => IInv
    BY InitHolds
<1>2. IInv /\ [NextTransform]_tvars => IInv'
    BY StepHolds
<1>3. IInv => MergeAgrees
    BY DoneMerged
<1> QED
    BY <1>1, <1>2, <1>3, PTL DEF SpecTransform
=============================================================================
