------------------------------- MODULE MkArc -------------------------------
(***************************************************************************)
(* cmd/mkarc: runs the mk commands of an experiment, a bounded number of   *)
(* them at a time.                                                         *)
(*                                                                         *)
(* main takes a permit of a weighted semaphore for each command, in the    *)
(* order of the configuration, and hands it to a goroutine.  The goroutine *)
(* runs the children of the command one after the other (its pre commands, *)
(* itself, its post commands), stops at the first that fails, and releases *)
(* the permit.  main ends when it gets all the permits back.               *)
(***************************************************************************)
EXTENDS Integers, FiniteSets

CONSTANTS
    N,          \* number of commands in the configuration
    Task,       \* the option parallel
    Pre, Post,  \* Pre[j], Post[j]: how many commands run before, after j
    Env,        \* Env[j]: the variables that the configuration gives to j
    Inherited   \* the variables of the environment of mkarc

Job == 1 .. N

(* A negative parallel is never satisfied: see README.md.                  *)
ASSUME MkArcAssumption ==
    /\ N \in Nat
    /\ Task \in Nat
    /\ Pre \in [Job -> Nat]
    /\ Post \in [Job -> Nat]

(* Zero stands for as many as there are commands.                          *)
Width == IF Task = 0 THEN N ELSE Task

Last(j) == Pre[j] + 1 + Post[j]

VARIABLES
    main,     \* "loop", "spawn" (it has a permit), "drain" or "exit"
    next,     \* the command whose turn it is
    taken,    \* permits taken from the semaphore
    state,    \* state[j]: "idle", "exec", "child", "ending" or "gone"
    stage,    \* stage[j]: the child at hand, 1 .. Last(j)
    outcome   \* outcome[j][s]: "none", "ok" or "failed"

vars == <<main, next, taken, state, stage, outcome>>

TypeOK ==
    /\ main \in {"loop", "spawn", "drain", "exit"}
    /\ next \in 1 .. N + 1
    /\ main = "spawn" => next \in Job
    /\ taken \in 0 .. Width
    /\ state \in [Job -> {"idle", "exec", "child", "ending", "gone"}]
    /\ stage \in [Job -> Nat \ {0}]
    /\ \A j \in Job : stage[j] <= Last(j)
    /\ DOMAIN outcome = Job
    /\ \A j \in Job : outcome[j] \in [1 .. Last(j) -> {"none", "ok", "failed"}]

Init ==
    /\ main = "loop"
    /\ next = 1
    /\ taken = 0
    /\ state = [j \in Job |-> "idle"]
    /\ stage = [j \in Job |-> 1]
    /\ outcome = [j \in Job |-> [s \in 1 .. Last(j) |-> "none"]]

(* The semaphore grants n permits when so many are left.                   *)
Grants_OffByOne(n) == taken + n <= Width + 1
Grants(n) == taken + n <= Width

Acquire ==
    /\ main = "loop" /\ next <= N
    /\ Grants(1)
    /\ taken' = taken + 1
    /\ main' = "spawn"
    /\ UNCHANGED <<next, state, stage, outcome>>

Spawn ==
    /\ main = "spawn"
    /\ state' = [state EXCEPT ![next] = "exec"]
    /\ next' = next + 1
    /\ main' = "loop"
    /\ UNCHANGED <<taken, stage, outcome>>

(* Cmd.Run starts a child process and waits for it.                        *)
StartChild(j) ==
    /\ state[j] = "exec"
    /\ state' = [state EXCEPT ![j] = "child"]
    /\ UNCHANGED <<main, next, taken, stage, outcome>>

ChildEnds_GoesOn(j) ==
    /\ state[j] = "child"
    /\ \E result \in {"ok", "failed"} :
         outcome' = [outcome EXCEPT ![j][stage[j]] = result]
    /\ \/ /\ stage[j] < Last(j)
          /\ stage' = [stage EXCEPT ![j] = @ + 1]
          /\ state' = [state EXCEPT ![j] = "exec"]
       \/ /\ stage[j] = Last(j)
          /\ state' = [state EXCEPT ![j] = "ending"]
          /\ UNCHANGED stage
    /\ UNCHANGED <<main, next, taken>>

(* Cmd.Exec and execCmd: the next child only after one that succeeded.     *)
ChildEnds(j) ==
    /\ state[j] = "child"
    /\ \/ /\ outcome' = [outcome EXCEPT ![j][stage[j]] = "ok"]
          /\ stage[j] < Last(j)
          /\ stage' = [stage EXCEPT ![j] = @ + 1]
          /\ state' = [state EXCEPT ![j] = "exec"]
       \/ /\ outcome' = [outcome EXCEPT ![j][stage[j]] = "ok"]
          /\ stage[j] = Last(j)
          /\ state' = [state EXCEPT ![j] = "ending"]
          /\ UNCHANGED stage
       \/ /\ outcome' = [outcome EXCEPT ![j][stage[j]] = "failed"]
          /\ state' = [state EXCEPT ![j] = "ending"]
          /\ UNCHANGED stage
    /\ UNCHANGED <<main, next, taken>>

(* The deferred function of the goroutine releases the permit.             *)
Release_OnSuccess(j) ==
    /\ state[j] = "ending"
    /\ state' = [state EXCEPT ![j] = "gone"]
    /\ taken' = IF outcome[j][stage[j]] = "ok" THEN taken - 1 ELSE taken
    /\ UNCHANGED <<main, next, stage, outcome>>
Release(j) ==
    /\ state[j] = "ending"
    /\ state' = [state EXCEPT ![j] = "gone"]
    /\ taken' = taken - 1
    /\ UNCHANGED <<main, next, stage, outcome>>

Drain ==
    /\ main = "loop" /\ next > N
    /\ main' = "drain"
    /\ UNCHANGED <<next, taken, state, stage, outcome>>

(* The last Acquire asks for all the permits.                              *)
Exit_One ==
    /\ main = "drain"
    /\ Grants(1)
    /\ taken' = taken + 1
    /\ main' = "exit"
    /\ UNCHANGED <<next, state, stage, outcome>>
Exit ==
    /\ main = "drain"
    /\ Grants(Width)
    /\ taken' = taken + Width
    /\ main' = "exit"
    /\ UNCHANGED <<next, state, stage, outcome>>

Ended == main = "exit" /\ UNCHANGED vars

Routine(j) == main # "exit" /\ (StartChild(j) \/ ChildEnds(j) \/ Release(j))

Next == Acquire \/ Spawn \/ Drain \/ Exit \/ Ended \/ \E j \in Job : Routine(j)

(* The Go scheduler runs every goroutine that can run, and the children    *)
(* end: they are batch commands.                                           *)
Fairness ==
    /\ WF_vars(Acquire \/ Spawn \/ Drain \/ Exit)
    /\ \A j \in Job : WF_vars(Routine(j))

Spec == Init /\ [][Next]_vars
FairSpec == Spec /\ Fairness
----------------------------------------------------------------------------
Started == {j \in Job : state[j] \in {"exec", "child", "ending"}}

(* No more commands run at a time than the option parallel says, whatever  *)
(* fails and in whatever order they end.                                   *)
AtMostTask == Cardinality(Started) <= Width

(* When main returns, no child is running and none is left to be run: all  *)
(* commands have been through (the last sema.Acquire of main).             *)
ExitWaits == main = "exit" => \A j \in Job : state[j] = "gone"

(* A child runs only after all those before it succeeded: no post command  *)
(* after a command that failed (Cmd.Exec, execCmd).                        *)
StagesInOrder ==
    \A j \in Job : \A s \in 1 .. Last(j) : outcome[j][s] # "none" =>
        \A r \in 1 .. s - 1 : outcome[j][r] = "ok"

(* Every command gets its turn and main returns, although each failure     *)
(* cuts a command short.                                                   *)
AllRun == <>(main = "exit")
----------------------------------------------------------------------------
(* Cmd.Run appends three strings to the environment of the child for each  *)
(* variable: a format without arguments, the name and the value.  None of  *)
(* them is an assignment to the variable, and an environment that is not   *)
(* empty replaces the inherited one.                                       *)
Garbled == "%!s(MISSING)"
Environ(j) == IF Env[j] = {} THEN Inherited ELSE {Garbled}

(* README.md:248: the variables listed in env are added to the environment *)
(* of the executed command.                                                *)
EnvReachesChild ==
    \A j \in Job : state[j] = "child" /\ stage[j] = Pre[j] + 1 =>
        Env[j] \cup Inherited \subseteq Environ(j)
============================================================================
