----------------------------- MODULE LockFreeQueue -----------------------------
(***************************************************************************)
(* LockFreeQueue<T> (Lock Free Programming/Data Structures/                *)
(* lock_free_queue.cc), the Michael-Scott queue: a linked list with a      *)
(* sentinel, produce and consume as loops of loads and compare-exchanges.  *)
(* A step is one access to shared memory, in the order of the source; the  *)
(* local tests that follow a load belong to its step.  A node is a memory  *)
(* cell: `delete` leaves its contents in place and `new` never hands a cell*)
(* out twice.  Accesses to cells that have been deleted are undefined in   *)
(* C++; the model lets them read the cell as it is and records them in     *)
(* `dangling`.                                                             *)
(***************************************************************************)
EXTENDS Naturals, Sequences, FiniteSets

CONSTANTS Producers, Consumers,  (* threads calling produce, consume         *)
          Cells,                 (* the memory `new Node` can return         *)
          Null,                  (* nullptr                                  *)
          Values,                (* T                                        *)
          NoValue,               (* T{} of the sentinel; no argument         *)
          WeakCasMayFail,        (* compare_exchange_weak fails spuriously   *)
          MaxProduce             (* bound of the model: calls of produce     *)

Threads == Producers \cup Consumers

VARIABLES head, tail,  (* the two atomics                                    *)
          next,        (* per cell: Node::next                               *)
          data,        (* per cell: Node::data                               *)
          live,        (* cells allocated and not deleted                    *)
          used,        (* cells allocated at least once                      *)
          pc,          (* per thread: the access it makes next               *)
          reg,         (* per thread: its locals                             *)
          calls,       (* calls of produce so far                            *)
          dangling,    (* history: a cell that was not live was accessed     *)
          sawEmpty     (* history: consume calls that overlapped emptiness   *)

memory == <<head, tail, next, data, live, used>>
vars == <<memory, pc, reg, calls, dangling, sawEmpty>>

NoRegs == [new |-> Null, oldHead |-> Null, oldTail |-> Null, nxt |-> Null, val |-> NoValue]

Sentinel == CHOOSE c \in Cells : TRUE

Init == /\ head = Sentinel /\ tail = Sentinel
        /\ next = [c \in Cells |-> Null]
        /\ data = [c \in Cells |-> NoValue]
        /\ live = {Sentinel} /\ used = {Sentinel}
        /\ pc = [t \in Threads |-> "idle"]
        /\ reg = [t \in Threads |-> NoRegs]
        /\ calls = 0
        /\ dangling = FALSE
        /\ sawEmpty = {}

(* The list from head on, the sentinel first, and the values it holds. *)
Node[i \in 1 .. Cardinality(Cells)] ==
  IF i = 1 THEN head ELSE LET before == Node[i - 1] IN IF before = Null THEN Null ELSE next[before]
Chain == [i \in {j \in DOMAIN Node : Node[j] # Null} |-> Node[i]]
Contents == [i \in 1 .. Len(Chain) - 1 |-> data[Chain[i + 1]]]

Goto(t, loc) == pc' = [pc EXCEPT ![t] = loc]
Load(t, r, v) == reg' = [reg EXCEPT ![t][r] = v]
Touch(c) == dangling' = (dangling \/ c \notin live)
(* Locals that will be loaded again before they are used are forgotten.      *)
Keep(t, rs) == reg' = [reg EXCEPT ![t] = [f \in DOMAIN NoRegs |-> IF f \in rs THEN @[f] ELSE NoRegs[f]]]
Idle(t) == pc[t] \in {"idle", "produced", "consumed", "missed"}
--------------------------------------------------------------------------------
(* produce *)

(* What `new` returns: unused cells differ by nothing but their name. *)
Fresh == CHOOSE c \in Cells \ used : TRUE

Allocate(t, v) == /\ Cells # used
                  /\ live' = live \cup {Fresh} /\ used' = used \cup {Fresh}
                  /\ next' = [next EXCEPT ![Fresh] = Null]
                  /\ data' = [data EXCEPT ![Fresh] = v]
                  /\ reg' = [reg EXCEPT ![t] = [NoRegs EXCEPT !.new = Fresh, !.val = v]]

Produce(t, v) == /\ Idle(t) /\ calls < MaxProduce
                 /\ Allocate(t, v)
                 /\ calls' = calls + 1
                 /\ Goto(t, "p_tail")
                 /\ UNCHANGED <<head, tail, dangling, sawEmpty>>

ProduceLoadTail(t) == /\ pc[t] = "p_tail"
                      /\ Load(t, "oldTail", tail)
                      /\ Goto(t, "p_next")
                      /\ UNCHANGED <<memory, calls, dangling, sawEmpty>>

ProduceLoadNext(t) == /\ pc[t] = "p_next"
                      /\ Touch(reg[t].oldTail)
                      /\ Load(t, "nxt", next[reg[t].oldTail])
                      /\ Goto(t, "p_check")
                      /\ UNCHANGED <<memory, calls, sawEmpty>>

ProduceCheck(t) == /\ pc[t] = "p_check"
                   /\ \/ /\ reg[t].oldTail # tail
                         /\ Goto(t, "p_tail") /\ Keep(t, {"new", "val"})
                      \/ /\ reg[t].oldTail = tail
                         /\ Goto(t, IF reg[t].nxt = Null THEN "p_link" ELSE "p_help")
                         /\ UNCHANGED reg
                   /\ UNCHANGED <<memory, calls, dangling, sawEmpty>>

(* The compare-exchange of line 43: the produce takes effect here. *)
Link(t) == /\ pc[t] = "p_link"
           /\ Touch(reg[t].oldTail)
           /\ \/ /\ next[reg[t].oldTail] = Null
                 /\ next' = [next EXCEPT ![reg[t].oldTail] = reg[t].new]
                 /\ Goto(t, "p_swing")
                 /\ UNCHANGED reg
              \/ /\ next[reg[t].oldTail] # Null \/ WeakCasMayFail
                 /\ Goto(t, "p_tail") /\ Keep(t, {"new", "val"})
                 /\ UNCHANGED next
           /\ UNCHANGED <<head, tail, data, live, used, calls, sawEmpty>>

SwingTailNever(t, to) == UNCHANGED tail
(* tail.compare_exchange_weak(old_tail, to), its result ignored. *)
SwingTail(t, to) == \/ tail = reg[t].oldTail /\ tail' = to
                    \/ (tail # reg[t].oldTail \/ WeakCasMayFail) /\ UNCHANGED tail

ProduceSwing(t) == /\ pc[t] = "p_swing"
                   /\ SwingTail(t, reg[t].new)
                   /\ Goto(t, "produced")
                   /\ reg' = [reg EXCEPT ![t] = NoRegs]
                   /\ UNCHANGED <<head, next, data, live, used, calls, dangling, sawEmpty>>

ProduceHelp(t) == /\ pc[t] = "p_help"
                  /\ SwingTail(t, reg[t].nxt)
                  /\ Goto(t, "p_tail") /\ Keep(t, {"new", "val"})
                  /\ UNCHANGED <<head, next, data, live, used, calls, dangling, sawEmpty>>
--------------------------------------------------------------------------------
(* consume *)

Consume(t) == /\ Idle(t)
              /\ Goto(t, "c_head")
              /\ reg' = [reg EXCEPT ![t] = NoRegs]
              /\ sawEmpty' = IF Contents = <<>> THEN sawEmpty \cup {t} ELSE sawEmpty
              /\ UNCHANGED <<memory, calls, dangling>>

ConsumeLoadHead(t) == /\ pc[t] = "c_head"
                      /\ Load(t, "oldHead", head)
                      /\ Goto(t, "c_tail")
                      /\ UNCHANGED <<memory, calls, dangling, sawEmpty>>

ConsumeLoadTail(t) == /\ pc[t] = "c_tail"
                      /\ Load(t, "oldTail", tail)
                      /\ Goto(t, "c_next")
                      /\ UNCHANGED <<memory, calls, dangling, sawEmpty>>

ConsumeLoadNext(t) == /\ pc[t] = "c_next"
                      /\ Touch(reg[t].oldHead)
                      /\ Load(t, "nxt", next[reg[t].oldHead])
                      /\ Goto(t, "c_check")
                      /\ UNCHANGED <<memory, calls, sawEmpty>>

(* Where lines 72-81 go from here. *)
Verdict(t) == IF reg[t].oldHead # reg[t].oldTail THEN "c_data"
              ELSE IF reg[t].nxt = Null THEN "missed" ELSE "c_help"

ConsumeCheck(t) == /\ pc[t] = "c_check"
                   /\ \/ /\ reg[t].oldHead # head
                         /\ Goto(t, "c_head") /\ Keep(t, {})
                         /\ UNCHANGED sawEmpty
                      \/ /\ reg[t].oldHead = head
                         /\ Goto(t, Verdict(t))
                         /\ IF Verdict(t) = "missed" THEN Keep(t, {}) ELSE UNCHANGED reg
                         /\ sawEmpty' = IF Verdict(t) = "missed" THEN sawEmpty \ {t} ELSE sawEmpty
                   /\ UNCHANGED <<memory, calls, dangling>>

ConsumeHelp(t) == /\ pc[t] = "c_help"
                  /\ SwingTail(t, reg[t].nxt)
                  /\ Goto(t, "c_head") /\ Keep(t, {})
                  /\ UNCHANGED <<head, next, data, live, used, calls, dangling, sawEmpty>>

ReadDataOfSentinel(t) == /\ pc[t] = "c_data"
                         /\ Touch(reg[t].oldHead)
                         /\ Load(t, "val", data[reg[t].oldHead])
                         /\ Goto(t, "c_swing")
                         /\ UNCHANGED <<memory, calls, sawEmpty>>
ReadData(t) == /\ pc[t] = "c_data"
               /\ Touch(reg[t].nxt)
               /\ Load(t, "val", IF reg[t].nxt = Null THEN NoValue ELSE data[reg[t].nxt])
               /\ Goto(t, "c_swing")
               /\ UNCHANGED <<memory, calls, sawEmpty>>

SwingHeadBlindly(t) == /\ pc[t] = "c_swing"
                       /\ head' = reg[t].nxt
                       /\ Goto(t, "c_delete") /\ Keep(t, {"oldHead", "nxt", "val"})
                       /\ UNCHANGED <<tail, next, data, live, used, calls, dangling, sawEmpty>>
(* The compare-exchange of line 82: the consume takes effect here. *)
SwingHead(t) == /\ pc[t] = "c_swing"
                /\ \/ /\ head = reg[t].oldHead
                      /\ head' = reg[t].nxt
                      /\ Goto(t, "c_delete") /\ Keep(t, {"oldHead", "nxt", "val"})
                      /\ sawEmpty' = (IF Len(Contents) <= 1
                                      THEN {u \in Consumers : ~Idle(u) /\ pc[u] # "c_delete"}
                                      ELSE sawEmpty) \ {t}
                   \/ /\ head # reg[t].oldHead \/ WeakCasMayFail
                      /\ Goto(t, "c_head") /\ Keep(t, {})
                      /\ UNCHANGED <<head, sawEmpty>>
                /\ UNCHANGED <<tail, next, data, live, used, calls, dangling>>

DeleteTwo(t) == /\ pc[t] = "c_delete"
                /\ live' = live \ {reg[t].oldHead, reg[t].nxt}
                /\ Goto(t, "consumed") /\ Keep(t, {"val"})
                /\ UNCHANGED <<head, tail, next, data, used, calls, dangling, sawEmpty>>
Delete(t) == /\ pc[t] = "c_delete"
             /\ live' = live \ {reg[t].oldHead}
             /\ Goto(t, "consumed") /\ Keep(t, {"val"})
             /\ UNCHANGED <<head, tail, next, data, used, calls, dangling, sawEmpty>>
--------------------------------------------------------------------------------
ProduceStep(t) == \/ ProduceLoadTail(t) \/ ProduceLoadNext(t) \/ ProduceCheck(t)
                  \/ Link(t) \/ ProduceSwing(t) \/ ProduceHelp(t)

ConsumeStep(t) == \/ ConsumeLoadHead(t) \/ ConsumeLoadTail(t) \/ ConsumeLoadNext(t)
                  \/ ConsumeCheck(t) \/ ConsumeHelp(t) \/ ReadData(t)
                  \/ SwingHead(t) \/ Delete(t)

Next == \/ \E t \in Producers : (\E v \in Values : Produce(t, v)) \/ ProduceStep(t)
        \/ \E t \in Consumers : Consume(t) \/ ConsumeStep(t)

Spec == Init /\ [][Next]_vars
--------------------------------------------------------------------------------
Locations == {"idle", "produced", "consumed", "missed", "p_tail", "p_next", "p_check",
              "p_link", "p_swing", "p_help", "c_head", "c_tail", "c_next", "c_check",
              "c_help", "c_data", "c_swing", "c_delete"}

TypeOK == /\ head \in Cells /\ tail \in Cells
          /\ next \in [Cells -> Cells \cup {Null}]
          /\ data \in [Cells -> Values \cup {NoValue}]
          /\ live \subseteq used /\ used \subseteq Cells
          /\ pc \in [Threads -> Locations]
          /\ reg \in [Threads -> [new : Cells \cup {Null}, oldHead : Cells \cup {Null},
                                  oldTail : Cells \cup {Null}, nxt : Cells \cup {Null},
                                  val : Values \cup {NoValue}]]
          /\ calls \in 0 .. MaxProduce
          /\ dangling \in BOOLEAN
          /\ sawEmpty \subseteq Consumers

(* Everything reachable from head is allocated and tail is on that list, so *)
(* that a produce can always find the end of the queue from tail.           *)
ListIsIntact == LET cells == {Chain[i] : i \in DOMAIN Chain}
                IN cells \subseteq live /\ tail \in cells

(* produce and consume are linearizable: each takes effect at its one       *)
(* successful compare-exchange, in FIFO order, and a consume that answers   *)
(* false overlapped a moment at which the queue was empty.                  *)
Abstract == INSTANCE LinearizableQueue WITH
  items  <- Contents,
  status <- [t \in Threads |->
    CASE pc[t] \in {"p_tail", "p_next", "p_check", "p_link", "p_help"}
           -> [op |-> "producing", arg |-> reg[t].val]
      [] pc[t] \in {"p_swing", "produced"} -> [op |-> "produced", arg |-> NoValue]
      [] pc[t] \in {"c_delete", "consumed"} -> [op |-> "consumed", arg |-> reg[t].val]
      [] pc[t] = "missed" -> [op |-> "missed", arg |-> NoValue]
      [] pc[t] = "idle" -> [op |-> "idle", arg |-> NoValue]
      [] OTHER -> [op |-> "consuming", arg |-> NoValue]]
Linearizable == Abstract!Spec
================================================================================
