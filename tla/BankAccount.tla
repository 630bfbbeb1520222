------------------------------ MODULE BankAccount ------------------------------
(***************************************************************************)
(* BankAccount (Mutual Exclusion/mutex_example.cpp): two accounts, each a  *)
(* plain int with a mutex, and threads that transfer random amounts, some  *)
(* from the first account to the second and some the other way.  A step is *)
(* one load or store of a balance, so that what the two mutexes protect    *)
(* can be seen.  std::lock acquires both mutexes or waits for both.        *)
(***************************************************************************)
EXTENDS Integers

CONSTANTS A, B,       (* account1 and account2                              *)
          Forward,    (* threads running Transfer(account1, account2, n)    *)
          Backward,   (* threads running Transfer(account2, account1, n)    *)
          Free,       (* owner of a mutex that is not locked                *)
          Initial,    (* initial_balance of both accounts; 1000 in main     *)
          Amounts,    (* what dist(gen) can return; 1 .. 100 in the code    *)
          Transfers   (* num_transfers; 10 in main                          *)

Accounts == {A, B}
Threads == Forward \cup Backward

ASSUME BankAssumption == /\ A # B
                         /\ Forward \cap Backward = {}
                         /\ Free \notin Threads
                         /\ Initial \in Nat
                         /\ Amounts \subseteq Nat
                         /\ Transfers \in Nat

VARIABLES balance,  (* per account: int balance                             *)
          mtx,      (* per account: the thread that holds mtx, or Free      *)
          pc,       (* per thread                                           *)
          source,   (* per thread: the account whose transfer it is in      *)
          amount,   (* per thread: amount                                   *)
          temp,     (* per thread: the balance it loaded last               *)
          i         (* per thread: i of Transfer's loop                     *)

vars == <<balance, mtx, pc, source, amount, temp, i>>

From(t) == IF t \in Forward THEN A ELSE B      (* account1 of Transfer     *)
Other(a) == IF a = A THEN B ELSE A
Destination(t) == Other(source[t])

Init == /\ balance = [a \in Accounts |-> Initial]
        /\ mtx = [a \in Accounts |-> Free]
        /\ pc = [t \in Threads |-> "loop"]
        /\ source = [t \in Threads |-> From(t)]
        /\ amount = [t \in Threads |-> 0]
        /\ temp = [t \in Threads |-> 0]
        /\ i = [t \in Threads |-> 0]

Goto(t, loc) == pc' = [pc EXCEPT ![t] = loc]
--------------------------------------------------------------------------------
(* Transfer: draw an amount, call account1.transfer(account2, amount). *)
Draw(t) == /\ pc[t] = "loop"
           /\ i[t] < Transfers
           /\ \E x \in Amounts : amount' = [amount EXCEPT ![t] = x]
           /\ source' = [source EXCEPT ![t] = From(t)]
           /\ Goto(t, "lock")
           /\ UNCHANGED <<balance, mtx, temp, i>>

LockSourceOnly(t) == /\ pc[t] = "lock"
                     /\ mtx[source[t]] = Free
                     /\ mtx' = [mtx EXCEPT ![source[t]] = t]
                     /\ Goto(t, "check")
                     /\ UNCHANGED <<balance, source, amount, temp, i>>
Lock(t) == /\ pc[t] = "lock"
           /\ \A a \in Accounts : mtx[a] = Free
           /\ mtx' = [a \in Accounts |-> t]
           /\ Goto(t, "check")
           /\ UNCHANGED <<balance, source, amount, temp, i>>

Unlocked(t) == [a \in Accounts |-> IF mtx[a] = t THEN Free ELSE mtx[a]]

(* Insufficient balance: a transfer of account1 is followed by the reverse  *)
(* one with the same amount, after both mutexes were released.              *)
Fail(t) == /\ mtx' = Unlocked(t)
           /\ IF source[t] = From(t)
              THEN /\ source' = [source EXCEPT ![t] = Other(From(t))]
                   /\ Goto(t, "lock")
                   /\ UNCHANGED i
              ELSE /\ Goto(t, "loop")
                   /\ i' = [i EXCEPT ![t] = @ + 1]
                   /\ UNCHANGED source
           /\ UNCHANGED <<balance, amount, temp>>

CheckNothing(t) == /\ pc[t] = "check"
                   /\ temp' = [temp EXCEPT ![t] = balance[source[t]]]
                   /\ Goto(t, "debit")
                   /\ UNCHANGED <<balance, mtx, source, amount, i>>
Check(t) == /\ pc[t] = "check"
            /\ \/ /\ balance[source[t]] >= amount[t]
                  /\ temp' = [temp EXCEPT ![t] = balance[source[t]]]
                  /\ Goto(t, "debit")
                  /\ UNCHANGED <<balance, mtx, source, amount, i>>
               \/ balance[source[t]] < amount[t] /\ Fail(t)

Debit(t) == /\ pc[t] = "debit"
            /\ balance' = [balance EXCEPT ![source[t]] = temp[t] - amount[t]]
            /\ Goto(t, "load")
            /\ UNCHANGED <<mtx, source, amount, temp, i>>

LoadDestination(t) == /\ pc[t] = "load"
                      /\ temp' = [temp EXCEPT ![t] = balance[Destination(t)]]
                      /\ Goto(t, "credit")
                      /\ UNCHANGED <<balance, mtx, source, amount, i>>

Credit(t) == /\ pc[t] = "credit"
             /\ balance' = [balance EXCEPT ![Destination(t)] = temp[t] + amount[t]]
             /\ Goto(t, "unlock")
             /\ UNCHANGED <<mtx, source, amount, temp, i>>

KeepLocked(t) == /\ pc[t] = "unlock"
                 /\ i' = [i EXCEPT ![t] = @ + 1]
                 /\ Goto(t, "loop")
                 /\ UNCHANGED <<balance, mtx, source, amount, temp>>
Unlock(t) == /\ pc[t] = "unlock"
             /\ mtx' = Unlocked(t)
             /\ i' = [i EXCEPT ![t] = @ + 1]
             /\ Goto(t, "loop")
             /\ UNCHANGED <<balance, source, amount, temp>>
--------------------------------------------------------------------------------
Finished == \A t \in Threads : pc[t] = "loop" /\ i[t] = Transfers

Run(t) == \/ Draw(t) \/ Lock(t) \/ Check(t) \/ Debit(t)
          \/ LoadDestination(t) \/ Credit(t) \/ Unlock(t)

Next == \/ \E t \in Threads : Run(t)
        \/ Finished /\ UNCHANGED vars

Spec == Init /\ [][Next]_vars

(* Threads are scheduled.  Weak fairness is enough for Lock although others *)
(* may take the mutexes again and again: their transfers run out.           *)
FairSpec == Spec /\ \A t \in Threads : WF_vars(Run(t))
--------------------------------------------------------------------------------
Inside(t) == pc[t] \in {"check", "debit", "load", "credit", "unlock"}

TypeOK == /\ balance \in [Accounts -> Int]
          /\ mtx \in [Accounts -> Threads \cup {Free}]
          /\ pc \in [Threads -> {"loop", "lock", "check", "debit", "load", "credit", "unlock"}]
          /\ source \in [Threads -> Accounts]
          /\ amount \in [Threads -> Nat]
          /\ temp \in [Threads -> Int]
          /\ i \in [Threads -> 0 .. Transfers]

(* Money is neither made nor lost: the two balances add up to what was      *)
(* deposited, less the one amount that a thread has debited and not yet     *)
(* credited (lines 25-27), whatever transfers run in both directions.       *)
InFlight(t) == pc[t] \in {"load", "credit"}
MoneyConserved ==
  LET total == balance[A] + balance[B]
  IN \/ total = 2 * Initial /\ \A t \in Threads : ~InFlight(t)
     \/ \E t \in Threads : InFlight(t) /\ total = 2 * Initial - amount[t]

(* No account is overdrawn: the balance tested is the balance debited.      *)
NeverOverdrawn == \A a \in Accounts : balance[a] >= 0

(* Opposite transfers never wait for each other's mutex for good: all       *)
(* threads finish, so main's joins return.                                  *)
AllTransfersEnd == <>Finished
================================================================================
