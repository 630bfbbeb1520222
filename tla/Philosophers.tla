------------------------------ MODULE Philosophers ------------------------------
(***************************************************************************)
(* The two dining programs of Mutual Exclusion/Deadlock: philosophers that *)
(* try_lock their left and then their right fork and put the left one back *)
(* if they fail (deadlock_dining_philosophers.cpp), and philosophers that  *)
(* take both with std::lock (try_lock_dining_philosophers.cpp).  Each eats *)
(* once.  A step is one operation on a fork or on mouthfuls; the pauses    *)
(* and the printing order nothing and are left out.                        *)
(***************************************************************************)
EXTENDS Naturals

CONSTANT Forks   (* n_forks, also n_philosophers; 5 in the code             *)

VARIABLES program,    (* the program that runs                              *)
          pc,         (* per philosopher: what it does next                 *)
          fork,       (* per fork: who holds fork_mutex, or OnTable         *)
          mouthfuls   (* int mouthfuls[n_philosophers]                      *)

own == <<fork, mouthfuls>>

Philosophers == 0 .. Forks - 1
OnTable == Forks
Left(p) == p
Right(p) == (p + 1) % Forks

DineByTryLock == [name |-> "dine by try_lock"]
DineByStdLock == [name |-> "dine by std::lock"]
Mine == {DineByTryLock, DineByStdLock}
Runs == program.name \in {"dine by try_lock", "dine by std::lock"}

Init == /\ program \in Mine
        /\ pc = [p \in Philosophers |-> IF program = DineByTryLock THEN "tryLeft" ELSE "lockBoth"]
        /\ fork = [f \in Philosophers |-> OnTable]
        /\ mouthfuls = [p \in Philosophers |-> 0]

Goto(p, loc) == pc' = [pc EXCEPT ![p] = loc]
Take(p, f) == fork[f] = OnTable /\ fork' = [fork EXCEPT ![f] = p]
PutDown(f) == fork' = [fork EXCEPT ![f] = OnTable]
--------------------------------------------------------------------------------
TryLeft(p) == /\ pc[p] = "tryLeft"
              /\ \/ Take(p, Left(p)) /\ Goto(p, "tryRight")
                 \/ fork[Left(p)] # OnTable /\ UNCHANGED <<pc, fork>>
              /\ UNCHANGED mouthfuls

TryRightBlindly(p) == /\ pc[p] = "tryRight"
                      /\ fork' = [fork EXCEPT ![Right(p)] = p]
                      /\ Goto(p, "eat")
                      /\ UNCHANGED mouthfuls
TryRight(p) == /\ pc[p] = "tryRight"
               /\ \/ Take(p, Right(p)) /\ Goto(p, "eat")
                  \/ fork[Right(p)] # OnTable /\ Goto(p, "giveBack") /\ UNCHANGED fork
               /\ UNCHANGED mouthfuls

GiveBack(p) == /\ pc[p] = "giveBack"
               /\ PutDown(Left(p))
               /\ Goto(p, "tryLeft")
               /\ UNCHANGED mouthfuls

(* std::lock returns with both mutexes or waits holding neither for good. *)
LockBoth(p) == /\ pc[p] = "lockBoth"
               /\ fork[Left(p)] = OnTable /\ fork[Right(p)] = OnTable
               /\ fork' = [fork EXCEPT ![Left(p)] = p, ![Right(p)] = p]
               /\ Goto(p, "eat")
               /\ UNCHANGED mouthfuls

Eat(p) == /\ pc[p] = "eat"
          /\ mouthfuls' = [mouthfuls EXCEPT ![p] = @ + 1]
          /\ Goto(p, "unlockFirst")
          /\ UNCHANGED fork

First(p) == IF program = DineByTryLock THEN Right(p) ELSE Left(p)
Second(p) == IF program = DineByTryLock THEN Left(p) ELSE Right(p)

UnlockFirst(p) == /\ pc[p] = "unlockFirst"
                  /\ PutDown(First(p))
                  /\ Goto(p, "unlockSecond")
                  /\ UNCHANGED mouthfuls

UnlockSecond(p) == /\ pc[p] = "unlockSecond"
                   /\ PutDown(Second(p))
                   /\ Goto(p, "done")
                   /\ UNCHANGED mouthfuls

Run(p) == /\ Runs /\ p \in Philosophers
          /\ UNCHANGED program
          /\ \/ TryLeft(p) \/ TryRight(p) \/ GiveBack(p) \/ LockBoth(p)
             \/ Eat(p) \/ UnlockFirst(p) \/ UnlockSecond(p)
--------------------------------------------------------------------------------
TypeOK == Runs =>
  /\ pc \in [Philosophers -> {"tryLeft", "tryRight", "giveBack", "lockBoth", "eat",
                              "unlockFirst", "unlockSecond", "done"}]
  /\ fork \in [Philosophers -> Philosophers \cup {OnTable}]
  /\ mouthfuls \in [Philosophers -> 0 .. 1]

Eating(p) == pc[p] \in {"eat", "unlockFirst"}

(* Neighbours never eat at the same time: a philosopher that eats holds     *)
(* both of its forks (lines 46-60), whatever its neighbours give back.      *)
NeighboursEatApart == Runs =>
  \A p \in Philosophers : Eating(p) => fork[Left(p)] = p /\ fork[Right(p)] = p

(* With try_lock the philosophers can pick up and give back their left      *)
(* forks in step for ever, but only until one of them eats and leaves: from *)
(* then on the others cannot keep each other from eating.                   *)
MayDineForEver == program = DineByTryLock /\ \A p \in Philosophers : mouthfuls[p] = 0
================================================================================
