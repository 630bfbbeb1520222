-------------------------------- MODULE Kernels --------------------------------
(***************************************************************************)
(* The GPU programs: a host enqueues kernels on an in-order command queue  *)
(* and reads their result back; the device takes the commands in turn and  *)
(* runs a kernel's work-groups, each on a compute unit of its own.  The    *)
(* work-items of a group share local memory and meet at barriers.  A step  *)
(* is a call of the host, a barrier or a shuffle, or what one item does    *)
(* between two accesses that another item may disturb.                     *)
(*                                                                         *)
(* A value is the bag of the terms it is made of: <<j, k>> is what element *)
(* j of the one input and element k of the other contribute.               *)
(*                                                                         *)
(* Matrix Multiplication/main.c is read as it is meant: its kernel uses TS,*)
(* which only the host defines, so a compiler refuses it.                  *)
(***************************************************************************)
EXTENDS Integers, Sequences, FiniteSets, Bags

CONSTANTS Elements,       (* lengths of the vectors                         *)
          GroupSize,      (* LOCAL_SIZE, or threads per block: a power of 2 *)
          Tile,           (* TS, or 32: the side of a tile, a power of 2    *)
          Dimensions,     (* <<M, N, K>>: C is M by N, the products K long  *)
          ComputeUnits    (* groups that run at the same time               *)

VARIABLES program, pc,
          commands,   (* the command queue                                  *)
          enqueued,   (* the kernels the host has enqueued                  *)
          status,     (* "ok", or what became of the host's errors          *)
          host,       (* the array the host reads back                      *)
          buffer,     (* per kernel: the array in global memory it writes   *)
          at,         (* per item of the running kernel: its place in it    *)
          round,      (* per item: offset, or the tile t                    *)
          shared,     (* per item: its cell of local memory                 *)
          private     (* per item: acc, or the value it has fetched         *)

own == <<commands, enqueued, status, host, buffer, at, round, shared, private>>

Before == SetToBag({<<-1, -1>>})     (* what memory held before the program  *)
Of(S) == SetToBag({<<j, j>> : j \in S})
RoundUp(n, size) == ((n + size - 1) \div size) * size

(* The kernels: the items they are started with, in groups of local; the    *)
(* place an item begins at, and those it goes to from the barriers.         *)
Map(range, reach, inPlace, global, local) ==
  [does |-> "map", range |-> range, reach |-> reach, inPlace |-> inPlace,
   global |-> global, local |-> local, begins |-> "map"]
Everywhere(n) == Map(0 .. n - 1, 0, FALSE, n, n)
InPlace(n)    == Map(0 .. n - 1, 0, TRUE, n, n)
Blocks(n)     == Map(0 .. n - 1, 0, TRUE, RoundUp(n, GroupSize), GroupSize)
Reduce(n) ==
  [does |-> "reduce", n |-> n, global |-> RoundUp(n, GroupSize), local |-> GroupSize,
   begins |-> "load", body |-> "fetch", again |-> "fetch", after |-> "write"]
Tiles(m, n, k, shuffles) ==
  [does |-> "tiles", m |-> m, n |-> n, k |-> k, shuffles |-> shuffles,
   global |-> RoundUp(m, Tile) * RoundUp(n, Tile), local |-> Tile * Tile,
   begins |-> "load", body |-> "accumulate", again |-> "load",
   after |-> IF shuffles THEN "shuffle" ELSE "write"]

(* The programs: their kernels, what may fail, which failures the host looks*)
(* for, whether it waits for the kernels, and whether it reads the result.  *)
OpenCL(name, kernels, checks) ==
  [name |-> name, kernels |-> kernels, fails |-> {"platform", "device", "call"}, checks |-> checks,
   finishes |-> name # "dot product", reads |-> TRUE, units |-> ComputeUnits]
Solve(name, kernel) ==
  [name |-> name, kernels |-> <<kernel>>, fails |-> {}, checks |-> {},
   finishes |-> TRUE, reads |-> FALSE, units |-> ComputeUnits]

DotProduct   == {OpenCL("dot product", <<Everywhere(n), Reduce(n)>>, {"platform", "call"}) : n \in Elements}
Saxpy        == {OpenCL("saxpy", <<InPlace(n)>>, {"platform", "device", "call"}) : n \in Elements}
Nonlinear    == {OpenCL("nonlinear", <<Everywhere(n)>>, {"platform", "device", "call"}) : n \in Elements}
Stencil      == {OpenCL("stencil1d", <<Map(1 .. n - 2, 1, FALSE, n, n)>>, {"platform", "device", "call"}) :
                   n \in Elements}
VectorAdd    == {[OpenCL("vector_add", <<Everywhere(n)>>, {"file"}) EXCEPT !.fails = @ \cup {"file"}] :
                   n \in Elements}
Matmul       == {OpenCL("matmul", <<Tiles(d[1], d[2], d[3], FALSE)>>, {"platform", "device", "call"}) :
                   d \in Dimensions}
DoubleKernel == {Solve("double_kernel", Blocks(n)) : n \in Elements}
InvertKernel == {Solve("invert_kernel", Blocks(n)) : n \in Elements}
ZeroKernel   == {Solve("zero_kernel", [Blocks(n) EXCEPT !.inPlace = FALSE]) : n \in Elements}
(* n is a multiple of the tile; its four groups run one after another here. *)
FusedMatmul  == {[Solve("fused matmul", Tiles(2 * Tile, 2 * Tile, 2 * Tile, TRUE))
                    EXCEPT !.fails = {"call"}, !.reads = TRUE, !.units = 1]}
Mine == DotProduct \cup Saxpy \cup Nonlinear \cup Stencil \cup VectorAdd \cup DoubleKernel
        \cup InvertKernel \cup ZeroKernel \cup Matmul \cup FusedMatmul
Runs == program.name \in {"dot product", "saxpy", "nonlinear", "stencil1d",
                          "vector_add", "matmul", "double_kernel",
                          "invert_kernel", "zero_kernel", "fused matmul"}

Kernels == program.kernels
Last == Len(Kernels)
Running == Kernels[Head(commands)]
Read == 0                            (* the command that copies to the host  *)

WorkItems == DOMAIN at
Group(i) == i \div Running.local
Lid(i) == i % Running.local
Peers(i) == {j \in WorkItems : Group(j) = Group(i)}
First(i) == Group(i) * Running.local
Row(i) == Lid(i) \div Tile           (* of the item in its tile              *)
Col(i) == Lid(i) % Tile
TileCols == RoundUp(Running.n, Tile) \div Tile
GlobalRow(i) == Tile * (Group(i) \div TileCols) + Row(i)
GlobalCol(i) == Tile * (Group(i) % TileCols) + Col(i)
Cell(i, row, col) == First(i) + row * Tile + col     (* the peer at row, col *)

Init == /\ program \in Mine
        /\ pc = [t \in {0, 1} |-> IF t = 0 THEN "setup" ELSE "serve"]
        /\ commands = <<>> /\ enqueued = 0 /\ status = "ok" /\ host = <<>>
        /\ buffer = [k \in DOMAIN Kernels |-> [i \in 0 .. Kernels[k].global - 1 |-> Before]]
        /\ at = <<>> /\ round = <<>> /\ shared = <<>> /\ private = <<>>

Goto(loc) == pc' = [pc EXCEPT ![0] = loc]
deviceVars == <<buffer, at, round, shared, private>>
--------------------------------------------------------------------------------
(* The host.  An error it looks for ends it; one it does not look for goes  *)
(* by unnoticed, the call having had no effect, but an element of an empty  *)
(* list of platforms or devices is undefined.                               *)
Fails(what, goOn) ==
  /\ IF what \in program.checks THEN status' = "failed" /\ Goto("done")
     ELSE IF what # "call" THEN status' = "undefined" /\ Goto("done")
     ELSE status' = "ignored" /\ Goto(goOn)
  /\ UNCHANGED <<commands, enqueued, host>>

Setup == /\ pc[0] = "setup"
         /\ \/ Goto("enqueue") /\ UNCHANGED <<commands, enqueued, status, host>>
            \/ \E what \in program.fails : Fails(what, "enqueue")

AfterEnqueue == IF enqueued' < Last THEN "enqueue"
                ELSE IF program.finishes THEN "finish" ELSE "read"
Enqueue == /\ pc[0] = "enqueue"
           /\ \/ /\ status = "ok"
                 /\ enqueued' = enqueued + 1
                 /\ commands' = Append(commands, enqueued')
                 /\ Goto(AfterEnqueue) /\ UNCHANGED <<status, host>>
              \/ Fails("call", "finish")

(* queue.finish(), clFinish, cudaDeviceSynchronize *)
FinishAtOnce == /\ pc[0] = "finish"
                /\ Goto(IF program.reads THEN "read" ELSE "done")
                /\ UNCHANGED <<commands, enqueued, status, host>>
Finish == /\ pc[0] = "finish" /\ commands = <<>>
          /\ Goto(IF program.reads THEN "read" ELSE "done")
          /\ UNCHANGED <<commands, enqueued, status, host>>

(* A blocking read: a command behind the kernels, which the host waits for. *)
ReadBack == /\ pc[0] = "read"
            /\ \/ /\ commands' = Append(commands, Read)
                  /\ Goto("wait") /\ UNCHANGED <<enqueued, status, host>>
               \/ Fails("call", "done")
Wait == /\ pc[0] = "wait" /\ commands = <<>>
        /\ Goto("done")
        /\ UNCHANGED <<commands, enqueued, status, host>>

Host == /\ \/ Setup \/ Enqueue \/ Finish \/ ReadBack \/ Wait
        /\ UNCHANGED deviceVars
--------------------------------------------------------------------------------
(* The device takes a command, starts the groups of a kernel as compute     *)
(* units become free, and is done with it when all items are.               *)
Launch == /\ commands # <<>> /\ Head(commands) # Read /\ at = <<>>
          /\ LET items == 0 .. Running.global - 1 IN
               /\ at' = [i \in items |-> "waiting"]
               /\ round' = [i \in items |-> 0]
               /\ shared' = [i \in items |-> [a |-> Before, b |-> Before]]
               /\ private' = [i \in items |-> EmptyBag]
          /\ UNCHANGED <<commands, host, buffer>>

Occupied == {Group(i) : i \in {j \in WorkItems : at[j] \notin {"waiting", "finished"}}}
StartGroup(i) ==
  /\ at[i] = "waiting" /\ Cardinality(Occupied) < program.units
  /\ at' = [j \in WorkItems |-> IF j \in Peers(i) THEN Running.begins ELSE at[j]]
  /\ round' = [j \in WorkItems |-> IF j \in Peers(i) /\ Running.does = "reduce"
                               THEN Running.local \div 2 ELSE round[j]]
  /\ UNCHANGED <<commands, host, buffer, shared, private>>

Retire == /\ at # <<>> /\ \A i \in WorkItems : at[i] = "finished"
          /\ commands' = Tail(commands)
          /\ at' = <<>> /\ round' = <<>> /\ shared' = <<>> /\ private' = <<>>
          /\ UNCHANGED <<host, buffer>>

Transfer == /\ commands # <<>> /\ Head(commands) = Read
            /\ host' = buffer[Last]
            /\ commands' = Tail(commands)
            /\ UNCHANGED deviceVars
--------------------------------------------------------------------------------
(* The items. *)
Moves(i, loc) == at' = [at EXCEPT ![i] = loc]

Elementwise(i) ==
  /\ at[i] = "map"
  /\ buffer' = IF i \notin Running.range THEN buffer
               ELSE [buffer EXCEPT ![Head(commands)][i] =
                       (IF Running.inPlace THEN @ ELSE EmptyBag) (+)
                       Of(i - Running.reach .. i + Running.reach)]
  /\ Moves(i, "finished") /\ UNCHANGED <<round, shared, private>>

LoadElement(i) ==
  /\ Running.does = "reduce"
  /\ shared' = [shared EXCEPT ![i].a = IF i < Running.n THEN buffer[Head(commands) - 1][i]
                                       ELSE EmptyBag]

(* The item's cells of the two tiles: the k of the element, or 0.0.         *)
LoadTiles(i) ==
  /\ Running.does = "tiles"
  /\ LET a == Tile * round[i] + Col(i)
         b == Tile * round[i] + Row(i)
     IN shared' = [shared EXCEPT
          ![i] = [a |-> IF GlobalRow(i) < Running.m /\ a < Running.k THEN Of({a}) ELSE EmptyBag,
                  b |-> IF GlobalCol(i) < Running.n /\ b < Running.k THEN Of({b}) ELSE EmptyBag]]

Load(i) == /\ at[i] = "load"
           /\ LoadElement(i) \/ LoadTiles(i)
           /\ Moves(i, "loaded") /\ UNCHANGED <<buffer, round, private>>

(* shared[lid] += shared[lid + offset], in two steps.                       *)
Fetch(i) == /\ at[i] = "fetch"
            /\ IF Lid(i) < round[i]
               THEN /\ private' = [private EXCEPT ![i] = shared[i + round[i]].a]
                    /\ Moves(i, "add")
               ELSE Moves(i, "turned") /\ UNCHANGED private
            /\ UNCHANGED <<buffer, round, shared>>
Add(i) == /\ at[i] = "add"
          /\ shared' = [shared EXCEPT ![i].a = @ (+) private[i]]
          /\ Moves(i, "turned") /\ UNCHANGED <<buffer, round, private>>

(* acc += Asub[row][k] * Bsub[k][col] for the k of the tile: a product is   *)
(* a term for each two terms of its factors.                                *)
Products(i) == {<<pair[1][1], pair[2][2]>> : pair \in
  UNION {BagToSet(shared[Cell(i, Row(i), k)].a) \X BagToSet(shared[Cell(i, k, Col(i))].b) :
           k \in {j \in 0 .. Tile - 1 : Tile * round[i] + j < Running.k}}}
Accumulate(i) == /\ at[i] = "accumulate"
                 /\ private' = [private EXCEPT ![i] = @ (+) SetToBag(Products(i))]
                 /\ Moves(i, "turned") /\ UNCHANGED <<buffer, round, shared>>

(* An item leaves a barrier when all items of its group have come to it.    *)
Again(i) == IF Running.does = "reduce" THEN round[i] > 1
            ELSE round[i] + 1 < RoundUp(Running.k, Tile) \div Tile
NextRound(i) == IF Running.does = "reduce" THEN round[i] \div 2
                ELSE IF Again(i) THEN round[i] + 1
                ELSE Tile \div 2     (* the first offset of the shuffles      *)
AfterBarrier(i) == IF at[i] = "loaded" THEN Running.body
                   ELSE IF Again(i) THEN Running.again ELSE Running.after
Barrier(i) ==
  /\ at[i] \in {"loaded", "turned"}
  /\ \A j \in Peers(i) : at[j] = at[i]
  /\ round' = [j \in WorkItems |-> IF j \in Peers(i) /\ at[i] = "turned" THEN NextRound(j) ELSE round[j]]
  /\ at' = [j \in WorkItems |-> IF j \in Peers(i) THEN AfterBarrier(j) ELSE at[j]]
  /\ UNCHANGED <<buffer, shared, private>>

(* acc += __shfl_down_sync(..., offset): the lanes of a warp, which is a row*)
(* of the tile, exchange their values at the same time.                     *)
Warp(i) == {j \in Peers(i) : Row(j) = Row(i)}
Shuffle(i) ==
  /\ \A j \in Warp(i) : at[j] = "shuffle" /\ round[j] = round[i]
  /\ private' = [j \in WorkItems |->
       IF j \notin Warp(i) THEN private[j]
       ELSE private[j] (+) private[IF Col(j) + round[j] < Tile THEN j + round[j] ELSE j]]
  /\ round' = [j \in WorkItems |-> IF j \in Warp(i) THEN round[j] \div 2 ELSE round[j]]
  /\ at' = [j \in WorkItems |-> IF j \in Warp(i) /\ round'[j] = 0 THEN "write" ELSE at[j]]
  /\ UNCHANGED <<buffer, shared>>

(* output[group] = shared[0] by item 0; C[globalRow][globalCol] = acc by    *)
(* every item in range; or atomicAdd of acc by the first item of a block.   *)
Writes(i) == CASE Running.does = "reduce" -> Lid(i) = 0
               [] Running.does = "tiles" -> /\ GlobalRow(i) < Running.m /\ GlobalCol(i) < Running.n
                                            /\ Running.shuffles => Lid(i) = 0
Place(i) == IF Running.does = "reduce" THEN Group(i) ELSE GlobalRow(i) * Running.n + GlobalCol(i)
Output(i, old) == CASE Running.does = "reduce" -> shared[i].a
                    [] Running.does = "tiles" -> IF Running.shuffles THEN old (+) private[i] ELSE private[i]
Write(i) == /\ at[i] = "write"
            /\ buffer' = IF Writes(i) THEN [buffer EXCEPT ![Head(commands)][Place(i)] = Output(i, @)]
                         ELSE buffer
            /\ Moves(i, "finished") /\ UNCHANGED <<round, shared, private>>

Device == \/ Launch \/ Retire \/ Transfer
          \/ \E i \in WorkItems :
               \/ StartGroup(i)
               \/ /\ \/ Elementwise(i) \/ Load(i) \/ Fetch(i) \/ Add(i) \/ Accumulate(i)
                     \/ Barrier(i) \/ Shuffle(i) \/ Write(i)
                  /\ UNCHANGED <<commands, host>>

(* When the host's process ends, what it has enqueued ends with it.         *)
Stop == pc[0] = "done" /\ pc' = [pc EXCEPT ![1] = "done"] /\ UNCHANGED own

Run(t) == /\ Runs
          /\ UNCHANGED program
          /\ \/ t = 0 /\ Host
             \/ t = 1 /\ pc[1] = "serve" /\ Device /\ UNCHANGED <<pc, enqueued, status>>
             \/ t = 1 /\ pc[1] = "serve" /\ Stop
--------------------------------------------------------------------------------
TypeOK == Runs =>
  /\ pc[0] \in {"setup", "enqueue", "finish", "read", "wait", "done"} /\ pc[1] \in {"serve", "done"}
  /\ commands \in Seq(Read .. Last) /\ enqueued \in 0 .. Last
  /\ status \in {"ok", "failed", "ignored", "undefined"}
  /\ \A k \in DOMAIN Kernels : \A i \in DOMAIN buffer[k] : IsABag(buffer[k][i])
  /\ DOMAIN round = WorkItems /\ DOMAIN shared = WorkItems /\ DOMAIN private = WorkItems

(* What the last kernel is to leave in element i of its array.              *)
Expected(k, i) ==
  CASE k.does = "map" -> IF i \notin k.range THEN Before
                         ELSE (IF k.inPlace THEN Before ELSE EmptyBag) (+) Of(i - k.reach .. i + k.reach)
    [] k.does = "reduce" -> IF i * GroupSize >= k.n THEN Before
                            ELSE Of({j \in 0 .. k.n - 1 : j \div GroupSize = i})
    [] k.does = "tiles" /\ ~k.shuffles -> IF i < k.m * k.n THEN Of(0 .. k.k - 1) ELSE Before
    [] k.does = "tiles" /\ k.shuffles ->
         IF (i \div k.n) % Tile # 0 \/ (i % k.n) % Tile # 0 THEN Before
         ELSE [p \in BagToSet(Of(0 .. k.k - 1)) |-> Tile] (+) Before

(* A host that saw no error and has returned holds the whole array, with    *)
(* what the kernels were to compute from the inputs in every element, each  *)
(* term once, and the memory beyond the arrays is as it was: although the   *)
(* kernels run after enqueueNDRangeKernel has returned, the work-groups are *)
(* rounded up beyond n, and the items read what other items have put into   *)
(* local memory.                                                            *)
HostGetsResults == Runs /\ pc[0] = "done" /\ status = "ok" =>
  LET result == IF program.reads THEN host ELSE buffer[Last]
  IN /\ DOMAIN result = DOMAIN buffer[Last]
     /\ \A i \in DOMAIN result : result[i] = Expected(Kernels[Last], i)
================================================================================
