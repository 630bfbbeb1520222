-------------------------------- MODULE Counting --------------------------------
(***************************************************************************)
(* Threads that count together.  increment_counter (Threads/data_race.cpp) *)
(* counts in a plain int, whose ++ is a load and a store; the worker of    *)
(* basic_counter.cpp in an atomic; the worker of Lock Free Programming/    *)
(* thread_pool.cpp then counts itself out and the last to do so announces  *)
(* the total; countem (atomics_class.cpp) waits for main, counts until     *)
(* somebody has won, and tries to be that one.  A step is one access to a  *)
(* shared variable.  `ready`, `left` and `winner` are the same variable of *)
(* different programs to the others: what the threads agree on.            *)
(***************************************************************************)
EXTENDS Naturals, FiniteSets

CONSTANTS Threads,  (* 2, 10, 100 or hardware_concurrency() in the code     *)
          Rounds    (* iterations, work_per_thread, max_count               *)

VARIABLES program,   (* the program that runs                               *)
          pc,        (* per thread: what it does next; main is thread 0     *)
          counter,   (* counter, shared_counter, g_count                    *)
          register,  (* per thread: what it has loaded                      *)
          turns,     (* per thread: rounds it has finished                  *)
          left,      (* workers_left                                        *)
          ready,     (* ready                                               *)
          winner,    (* winner                                              *)
          said       (* per thread: the counter it announced, or Nothing    *)

own == <<counter, register, turns, left, ready, winner, said>>

IncrementCounter == [name |-> "increment counter", begins |-> "load", finally |-> "done"]
BasicCounter     == [name |-> "basic counter", begins |-> "add", finally |-> "done"]
CountDown        == [name |-> "count down", begins |-> "add", finally |-> "countDown"]
Countem          == [name |-> "countem", begins |-> "spin", finally |-> "tryToWin"]
Mine == {IncrementCounter, BasicCounter, CountDown, Countem}
Runs == program.name \in {"increment counter", "basic counter", "count down",
                          "countem"}

Counters == 1 .. Threads
Main == 0
Total == Threads * Rounds
Nothing == Total + 1

Init == /\ program \in Mine
        /\ pc = [t \in 0 .. Threads |-> IF t # Main THEN program.begins
                                        ELSE IF program = Countem THEN "go" ELSE "done"]
        /\ counter = 0
        /\ register = [t \in Counters |-> 0]
        /\ turns = [t \in Counters |-> 0]
        /\ left = Threads
        /\ ready = FALSE
        /\ winner = FALSE
        /\ said = [t \in Counters |-> Nothing]

Goto(t, loc) == pc' = [pc EXCEPT ![t] = loc]
NextRound(t, again) == /\ turns' = [turns EXCEPT ![t] = @ + 1]
                       /\ Goto(t, IF turns'[t] = Rounds THEN program.finally ELSE again)
--------------------------------------------------------------------------------
(* counter++ of an int that nothing protects. *)
Load(t) == /\ pc[t] = "load"
           /\ register' = [register EXCEPT ![t] = counter]
           /\ Goto(t, "store")
           /\ UNCHANGED <<counter, turns, left, ready, winner, said>>

Store(t) == /\ pc[t] = "store"
            /\ counter' = register[t] + 1
            /\ NextRound(t, "load")
            /\ UNCHANGED <<register, left, ready, winner, said>>

FetchAdd(t) == /\ pc[t] = "add"
               /\ counter' = counter + 1
               /\ NextRound(t, IF program = Countem THEN "test" ELSE "add")
               /\ UNCHANGED <<register, left, ready, winner, said>>
--------------------------------------------------------------------------------
(* workers_left.fetch_sub(1) == 1: the last one goes on to load the counter.*)
FetchSub(t) == /\ pc[t] = "countDown"
               /\ left' = left - 1
               /\ Goto(t, IF left = 1 THEN "announce" ELSE "done")
               /\ UNCHANGED <<counter, register, turns, ready, winner, said>>

Announce(t) == /\ pc[t] = "announce"
               /\ said' = [said EXCEPT ![t] = counter]
               /\ Goto(t, "done")
               /\ UNCHANGED <<counter, register, turns, left, ready, winner>>
--------------------------------------------------------------------------------
Go(t) == /\ t = Main /\ pc[t] = "go"
         /\ ready' = TRUE
         /\ Goto(t, "done")
         /\ UNCHANGED <<counter, register, turns, left, winner, said>>

(* while(!ready) yield: a thread leaves the loop once main has let it.      *)
Spin(t) == /\ pc[t] = "spin" /\ ready
           /\ Goto(t, "test")
           /\ UNCHANGED own

Test(t) == /\ pc[t] = "test"
           /\ Goto(t, IF winner THEN "done" ELSE "add")
           /\ UNCHANGED own

TestThenSet(t) == /\ pc[t] = "tryToWin"
                  /\ \/ ~winner /\ Goto(t, "announce") /\ UNCHANGED winner
                     \/ winner /\ Goto(t, "done") /\ UNCHANGED winner
                  /\ UNCHANGED <<counter, register, turns, left, ready, said>>
(* winner.test_and_set(): who sees it clear prints that it has won.         *)
TestAndSet(t) == /\ pc[t] = "tryToWin"
                 /\ winner' = TRUE
                 /\ Goto(t, IF winner THEN "done" ELSE "announce")
                 /\ UNCHANGED <<counter, register, turns, left, ready, said>>

Run(t) == /\ Runs /\ t \in 0 .. Threads
          /\ UNCHANGED program
          /\ \/ Load(t) \/ Store(t) \/ FetchAdd(t) \/ FetchSub(t) \/ Announce(t)
             \/ Go(t) \/ Spin(t) \/ Test(t) \/ TestAndSet(t)
--------------------------------------------------------------------------------
TypeOK == Runs =>
  /\ pc \in [0 .. Threads -> {"load", "store", "add", "countDown", "announce", "go", "spin",
                              "test", "tryToWin", "done"}]
  /\ counter \in 0 .. Total
  /\ register \in [Counters -> 0 .. Total]
  /\ turns \in [Counters -> 0 .. Rounds]
  /\ left \in 0 .. Threads
  /\ ready \in BOOLEAN /\ winner \in BOOLEAN
  /\ said \in [Counters -> 0 .. Nothing]

Finished == \A t \in DOMAIN pc : pc[t] = "done"
Speakers == {t \in Counters : said[t] # Nothing}

(* What main prints: the atomic counters lose no increment (basic_counter   *)
(* line 19, "should be 20,000,000").  The plain int may lose all but two of *)
(* them, never more (data_race.cpp line 31 calls the full count expected).  *)
(* Exactly one thread announces: the last to count itself out, which sees   *)
(* every increment (thread_pool.cpp lines 22-25), or the first to win,      *)
(* which has counted to the end itself (atomics_class.cpp lines 38-41).     *)
FinalCount ==
  CASE program \in {BasicCounter, CountDown} -> counter = Total
    [] program = IncrementCounter -> counter \in (IF Rounds < 2 THEN Rounds ELSE 2) .. Total
    [] program = Countem -> counter \in Rounds .. Total
OneThreadAnnounces == program \in {CountDown, Countem} =>
  /\ Cardinality(Speakers) <= 1
  /\ Finished => Speakers # {}
  /\ \A t \in Speakers : /\ said[t] >= Rounds
                         /\ program = CountDown => said[t] = Total
CountsAddUp == Runs => (Finished => FinalCount) /\ OneThreadAnnounces
================================================================================
