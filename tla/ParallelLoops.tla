------------------------------ MODULE ParallelLoops ------------------------------
(***************************************************************************)
(* Loops that are divided among threads.  parallel_sieve (Sieve/           *)
(* prime_sieve.cpp): one thread clears the composites, then the workers    *)
(* clear them again, block by block, in a vector<bool> that nothing        *)
(* protects.  parallel_sum (Parallel Sum/parallel_sum.cpp) and add_parallel*)
(* (vector_parallel_sum.cpp): every thread adds the elements of a chunk;   *)
(* the threads of OMP/pi_monteCarlo.c take a share of the shots each.      *)
(* A vector<bool> packs its elements: clearing one reads the word it lies  *)
(* in and writes it back, so a step is one test, one read of a word, one   *)
(* write of a word, or one turn of an adding or shooting loop.             *)
(***************************************************************************)
EXTENDS Naturals, FiniteSets, FiniteSetsExt

CONSTANTS Limits,   (* values of n for parallel_sieve, from 2 on            *)
          Sizes,    (* sizes of the vectors that are added, or num_shots    *)
          Teams,    (* numbers of threads, num_threads                      *)
          Word      (* elements of a vector<bool> in a word; 64 in the build*)

VARIABLES program,   (* the program that runs                               *)
          pc,        (* per thread: what it does next                       *)
          is_prime,  (* the elements that are set                           *)
          index,     (* per thread: p, or i                                 *)
          multiple,  (* per thread: multiple                                *)
          word,      (* per thread: the elements set in the word it read    *)
          sum        (* per thread: the elements added so far               *)

own == <<is_prime, index, multiple, word, sum>>

(* The programs: how many elements they work on, with how many threads.    *)
ParallelSieve == {[name |-> "sieve", n |-> m, threads |-> k, begins |-> "test"] :
                    m \in Limits, k \in Teams}
ParallelSum   == {[name |-> "sum", n |-> m, threads |-> IF m < k THEN 1 ELSE k, begins |-> "add"] :
                    m \in Sizes, k \in Teams}
AddParallel   == {[name |-> "quarters", n |-> m, threads |-> 4, begins |-> "add"] : m \in Sizes}
MonteCarlo    == {[name |-> "shots", n |-> m, threads |-> k, begins |-> "add"] :
                    m \in Sizes, k \in Teams}
Mine == ParallelSieve \cup ParallelSum \cup AddParallel \cup MonteCarlo
Runs == program.name \in {"sieve", "sum", "quarters", "shots"}

n == program.n
num_threads == program.threads
Workers == 0 .. num_threads - 1

sqrt_n == CHOOSE r \in 0 .. n : r * r <= n /\ (r + 1) * (r + 1) > n
MultiplesFrom(p) == {j \in p * p .. n : j % p = 0}

(* Stage 1, run before there are workers: the multiples of i are cleared if *)
(* i is still set, for i = 2 .. sqrt_n.                                     *)
Cleared[i \in 1 .. n] ==
  IF i = 1 THEN {0, 1}
  ELSE Cleared[i - 1] \cup (IF i \in Cleared[i - 1] THEN {} ELSE MultiplesFrom(i))
StageOneTooShort == (0 .. n) \ Cleared[Max({sqrt_n - 1, 1})]
StageOne == (0 .. n) \ Cleared[sqrt_n]

(* The first and the end of a worker's block of 2 .. sqrt_n; the quotient is*)
(* rounded to 0, also when sqrt_n is 1.  Blocks may reach beyond n.         *)
block_size == (IF sqrt_n < 2 THEN 0 - 1 \div num_threads ELSE (sqrt_n - 2) \div num_threads) + 1
BlockFrom(t) == 2 + t * block_size
BlockEnd(t) == IF t + 1 = num_threads THEN sqrt_n + 1 ELSE BlockFrom(t) + block_size

(* The first of the elements 0 .. n - 1 a thread adds, and the end: the     *)
(* remainder goes to the first threads, one element each.                   *)
Extra(t) == IF t < n % num_threads THEN 1 ELSE 0
ChunkStart[t \in 0 .. num_threads] ==
  IF t = 0 THEN 0 ELSE Min({ChunkStart[t - 1] + n \div num_threads + Extra(t - 1), n})
ChunkEnd(t) == ChunkStart[t + 1]
Quarter(k) == (k * n) \div 4
local_shots(t) == n \div num_threads + Extra(t)
ShotsBefore(t) == t * (n \div num_threads) + Min({t, n % num_threads})   (* to number them *)

From(t) == CASE program.name = "sieve" -> BlockFrom(t)
             [] program.name = "sum" -> ChunkStart[t]
             [] program.name = "quarters" -> Quarter(t)
             [] program.name = "shots" -> ShotsBefore(t)
End(t) == CASE program.name = "sieve" -> BlockEnd(t)
            [] program.name = "sum" -> ChunkEnd(t)
            [] program.name = "quarters" -> Quarter(t + 1)
            [] program.name = "shots" -> ShotsBefore(t) + local_shots(t)

Goto(t, loc) == pc' = [pc EXCEPT ![t] = loc]

Init == /\ program \in Mine
        /\ is_prime = IF program.name = "sieve" THEN StageOne ELSE {}
        /\ index = [t \in Workers |-> From(t)]
        /\ multiple = [t \in Workers |-> 0]
        /\ word = [t \in Workers |-> {}]
        /\ sum = [t \in Workers |-> {}]
        /\ pc = [t \in Workers |-> IF From(t) < End(t) THEN program.begins ELSE "done"]

NextIndex(t, again) == /\ index' = [index EXCEPT ![t] = @ + 1]
                       /\ Goto(t, IF index'[t] < End(t) THEN again ELSE "done")
--------------------------------------------------------------------------------
(* if (is_prime[p]): on to its multiples from p * p, or to the next p.  What*)
(* lies beyond the vector may be read as set, but p * p is beyond n then.   *)
Test(t) == /\ pc[t] = "test"
           /\ \/ /\ index[t] \in is_prime
                 /\ index[t] * index[t] <= n
                 /\ multiple' = [multiple EXCEPT ![t] = index[t] * index[t]]
                 /\ Goto(t, "read") /\ UNCHANGED index
              \/ /\ index[t] \notin is_prime \/ index[t] * index[t] > n
                 /\ NextIndex(t, "test") /\ UNCHANGED multiple
           /\ UNCHANGED <<is_prime, word, sum>>

SameWord(j) == {k \in 0 .. n : k \div Word = j \div Word}

Read(t) == /\ pc[t] = "read"
           /\ word' = [word EXCEPT ![t] = is_prime \cap SameWord(multiple[t])]
           /\ Goto(t, "write")
           /\ UNCHANGED <<is_prime, index, multiple, sum>>

(* is_prime[multiple] = false: the whole word is written.                   *)
Write(t) == /\ pc[t] = "write"
            /\ is_prime' = (is_prime \ SameWord(multiple[t])) \cup (word[t] \ {multiple[t]})
            /\ word' = [word EXCEPT ![t] = {}]
            /\ \/ /\ multiple[t] + index[t] <= n
                  /\ multiple' = [multiple EXCEPT ![t] = @ + index[t]]
                  /\ Goto(t, "read") /\ UNCHANGED index
               \/ /\ multiple[t] + index[t] > n
                  /\ multiple' = [multiple EXCEPT ![t] = 0]
                  /\ NextIndex(t, "test")
            /\ UNCHANGED sum

(* sum += data[i], or a shot; a thread's own sum is used when its loop ends.*)
Add(t) == /\ pc[t] = "add"
          /\ sum' = [sum EXCEPT ![t] = @ \cup {index[t]}]
          /\ NextIndex(t, "add")
          /\ UNCHANGED <<is_prime, multiple, word>>

Run(t) == /\ Runs /\ t \in Workers
          /\ UNCHANGED program
          /\ \/ Test(t) \/ Read(t) \/ Write(t) \/ Add(t)
--------------------------------------------------------------------------------
TypeOK == Runs =>
  /\ pc \in [Workers -> {"test", "read", "write", "add", "done"}]
  /\ is_prime \subseteq 0 .. n
  /\ index \in [Workers -> Nat]
  /\ multiple \in [Workers -> 0 .. n]
  /\ \A t \in Workers : word[t] \subseteq 0 .. n /\ sum[t] \subseteq 0 .. n - 1

Finished == \A t \in DOMAIN pc : pc[t] = "done"
Primes == {k \in 2 .. n : \A d \in 2 .. k - 1 : k % d # 0}

(* What parallel_sieve returns is the primes, in spite of the workers that  *)
(* write the same words at the same time: no step clears a prime or sets a  *)
(* composite again, because all they clear has been cleared before.         *)
SieveIsExact == Runs /\ program.name = "sieve" => is_prime = Primes

(* Every element is added by exactly one thread, and none twice: the chunks *)
(* of the threads partition the vector, or the shots, whatever remains.     *)
EachAddedOnce == Runs /\ program.name # "sieve" =>
  /\ \A t, u \in Workers : t # u => sum[t] \cap sum[u] = {}
  /\ Finished => UNION {sum[t] : t \in Workers} = 0 .. n - 1
================================================================================
