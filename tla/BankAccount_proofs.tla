--------------------------- MODULE BankAccount_proofs ---------------------------
(* The money of BankAccount, for any threads, amounts and initial balances.   *)
EXTENDS BankAccount, TLAPS

(* A thread inside transfer owns both mutexes, so nobody else is inside, and  *)
(* what it loaded is still what the account holds when it stores.             *)
Exclusive == /\ \A t \in Threads : Inside(t) => \A a \in Accounts : mtx[a] = t
             /\ \A a \in Accounts : mtx[a] # Free => Inside(mtx[a])
Fresh == \A t \in Threads :
           /\ pc[t] = "debit" => temp[t] = balance[source[t]] /\ temp[t] >= amount[t]
           /\ pc[t] = "credit" => temp[t] = balance[Destination(t)]
           /\ pc[t] # "loop" => i[t] < Transfers

IInv == TypeOK /\ Exclusive /\ Fresh /\ MoneyConserved /\ NeverOverdrawn

LEMMA BankInit == Init => IInv
  <1> SUFFICES ASSUME Init PROVE IInv
    OBVIOUS
  <1> USE BankAssumption DEF Init, Accounts
  <1>1. TypeOK
    BY DEF TypeOK, From
  <1>2. Exclusive /\ Fresh
    BY DEF Exclusive, Fresh, Inside
  <1>3. MoneyConserved /\ NeverOverdrawn
    BY DEF MoneyConserved, NeverOverdrawn, InFlight
  <1> QED BY <1>1, <1>2, <1>3 DEF IInv

(* A thread that is inside is the only one. *)
LEMMA Alone ==
  ASSUME IInv, NEW t \in Threads, NEW u \in Threads, Inside(t), Inside(u) PROVE t = u
  BY DEF IInv, Exclusive, Accounts

LEMMA OutsideSteps ==
  ASSUME IInv, NEW t \in Threads, Draw(t) PROVE IInv'
  <1> USE BankAssumption DEF Draw, Goto, Inside, Accounts, Other, Destination, From
  <1>1. TypeOK'
    BY DEF IInv, TypeOK
  <1>2. Exclusive'
    BY DEF IInv, TypeOK, Exclusive
  <1>3. Fresh'
    BY DEF IInv, TypeOK, Fresh
  <1>4. MoneyConserved' /\ NeverOverdrawn'
    BY DEF IInv, TypeOK, MoneyConserved, NeverOverdrawn, InFlight
  <1> QED BY <1>1, <1>2, <1>3, <1>4 DEF IInv

LEMMA LockSteps ==
  ASSUME IInv, NEW t \in Threads, Lock(t) PROVE IInv'
  <1> USE BankAssumption DEF Lock, Goto, Inside, Accounts, Other, Destination
  <1>1. TypeOK'
    BY DEF IInv, TypeOK
  <1>2. \A u \in Threads : ~Inside(u)
    BY DEF IInv, Exclusive
  <1>3. Exclusive'
    BY <1>2 DEF IInv, TypeOK, Exclusive
  <1>4. Fresh'
    BY DEF IInv, TypeOK, Fresh
  <1>5. MoneyConserved' /\ NeverOverdrawn'
    BY DEF IInv, TypeOK, MoneyConserved, NeverOverdrawn, InFlight
  <1> QED BY <1>1, <1>3, <1>4, <1>5 DEF IInv

(* Leaving transfer, with or without success. *)
LEMMA UnlockedIsFree ==
  ASSUME IInv, NEW t \in Threads, Inside(t)
  PROVE  Unlocked(t) = [a \in Accounts |-> Free]
  BY DEF IInv, Exclusive, Unlocked

LEMMA LeaveSteps ==
  ASSUME IInv, NEW t \in Threads,
         Unlock(t) \/ (pc[t] = "check" /\ Fail(t))
  PROVE  IInv'
  <1> USE BankAssumption DEF Goto, Inside, Accounts, Other, Destination, From
  <1>0. Inside(t) /\ mtx' = [a \in Accounts |-> Free] /\ UNCHANGED <<balance, amount, temp>>
    BY UnlockedIsFree DEF Unlock, Fail
  <1>1. TypeOK'
    <2>1. i[t] < Transfers
      BY <1>0 DEF IInv, Fresh
    <2> QED BY <1>0, <2>1 DEF IInv, TypeOK, Unlock, Fail
  <1>2. \A u \in Threads : ~Inside(u)'
    <2>1. ~Inside(t)'
      BY DEF IInv, TypeOK, Unlock, Fail
    <2>2. ASSUME NEW u \in Threads, u # t PROVE ~Inside(u)'
      <3>1. ~Inside(u)
        BY <1>0, <2>2, Alone
      <3> QED BY <2>2, <3>1 DEF IInv, TypeOK, Unlock, Fail
    <2> QED BY <2>1, <2>2
  <1>3. Exclusive'
    BY <1>0, <1>2 DEF Exclusive
  <1>4. Fresh'
    BY <1>2, <1>0 DEF IInv, TypeOK, Fresh, Unlock, Fail
  <1>5. MoneyConserved' /\ NeverOverdrawn'
    <2>1. \A u \in Threads : ~InFlight(u) /\ ~InFlight(u)'
      BY <1>0, <1>2, Alone DEF InFlight, Unlock, Fail
    <2> QED BY <1>0, <2>1 DEF IInv, MoneyConserved, NeverOverdrawn
  <1> QED BY <1>1, <1>3, <1>4, <1>5 DEF IInv

LEMMA InsideSteps ==
  ASSUME IInv, NEW t \in Threads,
         \/ pc[t] = "check" /\ Check(t) /\ pc'[t] = "debit"
         \/ Debit(t) \/ LoadDestination(t) \/ Credit(t)
  PROVE  IInv'
  <1> USE BankAssumption DEF Goto, Inside, Accounts, Other, Destination
  <1>0. /\ Inside(t) /\ Inside(t)'
        /\ \A u \in Threads \ {t} : ~Inside(u) /\ pc'[u] = pc[u]
        /\ UNCHANGED <<mtx, source, amount, i>>
    <2>1. \A u \in Threads \ {t} : ~Inside(u)
      BY Alone DEF Check, Debit, LoadDestination, Credit
    <2>2. pc[t] = "check" /\ Check(t) /\ pc'[t] = "debit" => UNCHANGED <<mtx, source, amount, i>>
      BY DEF Check, Fail, IInv, TypeOK
    <2> QED BY <2>1, <2>2 DEF Check, Fail, Debit, LoadDestination, Credit, IInv, TypeOK
  <1>1. TypeOK'
    BY <1>0 DEF IInv, TypeOK, Check, Fail, Debit, LoadDestination, Credit
  <1>2. Exclusive'
    BY <1>0 DEF IInv, TypeOK, Exclusive
  <1>3. Fresh'
    BY <1>0 DEF IInv, TypeOK, Fresh, Check, Fail, Debit, LoadDestination, Credit
  <1>4. MoneyConserved' /\ NeverOverdrawn'
    <2> DEFINE s == source[t]
               d == Destination(t)
    <2>1. /\ s \in Accounts /\ d \in Accounts /\ s # d
          /\ balance[A] + balance[B] = balance[s] + balance[d]
          /\ balance'[A] + balance'[B] = balance'[s] + balance'[d]
          /\ balance[A] \in Int /\ balance[B] \in Int /\ amount[t] \in Nat
      BY <1>1 DEF IInv, TypeOK
    <2>2. \A u \in Threads \ {t} : ~InFlight(u) /\ ~InFlight(u)'
      BY <1>0 DEF InFlight
    <2>3. CASE Check(t) /\ pc[t] = "check"
      BY <1>0, <2>2, <2>3 DEF IInv, TypeOK, MoneyConserved, NeverOverdrawn, InFlight, Check, Fail
    <2>4. CASE Debit(t)
      <3>1. balance'[s] = balance[s] - amount[t] /\ balance'[d] = balance[d]
        BY <2>1, <2>4 DEF IInv, TypeOK, Fresh, Debit
      <3>2. ~InFlight(t) /\ InFlight(t)'
        BY <2>4 DEF IInv, TypeOK, InFlight, Debit
      <3>3. balance[A] + balance[B] = 2 * Initial
        BY <2>2, <3>2 DEF IInv, MoneyConserved
      <3>4. balance[s] >= amount[t]
        BY <2>4 DEF IInv, Fresh, Debit
      <3>5. MoneyConserved'
        BY <1>0, <2>1, <3>1, <3>2, <3>3 DEF MoneyConserved
      <3>6. NeverOverdrawn'
        BY <2>1, <2>4, <3>1, <3>4 DEF IInv, NeverOverdrawn, Debit, TypeOK
      <3> QED BY <3>5, <3>6
    <2>5. CASE LoadDestination(t)
      BY <1>0, <2>2, <2>5 DEF IInv, TypeOK, MoneyConserved, NeverOverdrawn, InFlight, LoadDestination
    <2>6. CASE Credit(t)
      <3>1. balance'[d] = balance[d] + amount[t] /\ balance'[s] = balance[s]
        BY <2>1, <2>6 DEF IInv, TypeOK, Fresh, Credit
      <3>2. InFlight(t) /\ ~InFlight(t)'
        BY <2>6 DEF IInv, TypeOK, InFlight, Credit
      <3>3. balance[A] + balance[B] = 2 * Initial - amount[t]
        BY <2>2, <3>2 DEF IInv, MoneyConserved
      <3>4. MoneyConserved'
        <4>1. balance'[A] + balance'[B] = 2 * Initial
          BY <2>1, <3>1, <3>3
        <4> QED BY <2>2, <3>2, <4>1 DEF MoneyConserved
      <3>5. NeverOverdrawn'
        BY <2>1, <2>6, <3>1 DEF IInv, NeverOverdrawn, Credit, TypeOK
      <3> QED BY <3>4, <3>5
    <2> QED BY <2>3, <2>4, <2>5, <2>6
  <1> QED BY <1>1, <1>2, <1>3, <1>4 DEF IInv

LEMMA BankStep == IInv /\ [Next]_vars => IInv'
  <1> SUFFICES ASSUME IInv, [Next]_vars PROVE IInv'
    OBVIOUS
  <1>1. CASE UNCHANGED vars
    BY <1>1 DEF vars, IInv, TypeOK, Exclusive, Fresh, MoneyConserved, NeverOverdrawn, Inside,
                InFlight, Destination
  <1>2. ASSUME NEW t \in Threads, Check(t) PROVE IInv'
    <2>1. CASE Fail(t)
      BY <1>2, <2>1, LeaveSteps DEF Check
    <2>2. CASE ~Fail(t)
      <3>1. pc[t] = "check" /\ pc'[t] = "debit"
        BY <1>2, <2>2 DEF Check, Goto, IInv, TypeOK
      <3> QED BY <1>2, <3>1, InsideSteps
    <2> QED BY <2>1, <2>2
  <1> QED BY <1>1, <1>2, OutsideSteps, LockSteps, LeaveSteps, InsideSteps DEF Next, Run

LEMMA BankInvariant == Spec => []IInv
  BY BankInit, BankStep, PTL DEF Spec

(* The transfers conserve the money of the two accounts.                      *)
THEOREM BankConserves == Spec => []MoneyConserved
  <1>1. IInv => MoneyConserved
    BY DEF IInv
  <1> QED BY <1>1, BankInvariant, PTL

(* No interleaving of transfers overdraws an account.                         *)
THEOREM BankSolvent == Spec => []NeverOverdrawn
  <1>1. IInv => NeverOverdrawn
    BY DEF IInv
  <1> QED BY <1>1, BankInvariant, PTL
================================================================================
