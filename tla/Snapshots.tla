------------------------------- MODULE Snapshots -------------------------------
(***************************************************************************)
(* ConfigManager (Atomics/Lock Free Programming/config_manager.cpp): an    *)
(* atomic shared_ptr to a configuration that nobody changes; a writer      *)
(* replaces the pointer, readers take a copy of it and look at the         *)
(* configuration afterwards.  A configuration is freed with the last       *)
(* pointer to it.  A step is a load or a store of the pointer, a look at   *)
(* one field, or the end of a pointer.                                     *)
(***************************************************************************)
EXTENDS Naturals, Sequences, Functions

CONSTANTS Readers,   (* threads that read; one in main                      *)
          Reads      (* turns of a reader's loop, 5                         *)

VARIABLES program, pc,
          cfg,       (* the configuration the manager points to             *)
          c,         (* per reader: the one its copy points to, or Null     *)
          new_cfg,   (* the one the writer has made, or Null                *)
          replaced,  (* the one the writer's store has replaced, or Null    *)
          fields,    (* per allocated configuration: level and mode         *)
          updated_to,(* the updates the writer has made                     *)
          level,     (* per reader: the level it has just read              *)
          printed    (* per reader: what it has printed                     *)

own == <<cfg, c, new_cfg, replaced, fields, updated_to, level, printed>>

ConfigManager == [name |-> "config manager"]
Mine == {ConfigManager}
Runs == program.name \in {"config manager"}

Null == 0
Writer == Readers + 1
ReaderThreads == 1 .. Readers
Updates == <<[level |-> 1, mode |-> "alpha"], [level |-> 2, mode |-> "beta"]>>
Version(k) == IF k = 0 THEN [level |-> 0, mode |-> "init"] ELSE Updates[k]
Address(k) == k + 1            (* where make_shared puts version k           *)

Init == /\ program \in Mine
        /\ pc = [t \in 1 .. Writer |-> IF t = Writer THEN "make" ELSE "load"]
        /\ cfg = Address(0) /\ new_cfg = Null /\ replaced = Null
        /\ fields = [a \in {Address(0)} |-> Version(0)]
        /\ c = [t \in ReaderThreads |-> Null]
        /\ updated_to = 0
        /\ level = [t \in ReaderThreads |-> 0]
        /\ printed = [t \in ReaderThreads |-> <<>>]

Goto(t, loc) == pc' = [pc EXCEPT ![t] = loc]
(* The configurations somebody points to. *)
Referenced == {cfg, new_cfg, replaced} \cup {c[t] : t \in ReaderThreads}
(* A pointer ends; the last pointer to a configuration frees it.            *)
Release == fields' = Restrict(fields, DOMAIN fields \cap Referenced')
--------------------------------------------------------------------------------
(* current(): the copy is counted in the same step as the pointer is read.  *)
Load(t) == /\ pc[t] = "load"
           /\ c' = [c EXCEPT ![t] = cfg]
           /\ Goto(t, "level")
           /\ UNCHANGED <<cfg, new_cfg, replaced, fields, updated_to, level, printed>>

(* c->level and c->mode, one after the other. *)
ReadLevel(t) == /\ pc[t] = "level"
                /\ level' = [level EXCEPT ![t] = fields[c[t]].level]
                /\ Goto(t, "mode")
                /\ UNCHANGED <<cfg, c, new_cfg, replaced, fields, updated_to, printed>>
Show(t, mode) == /\ printed' = [printed EXCEPT ![t] = Append(@, [level |-> level[t], mode |-> mode])]
                  /\ Goto(t, "drop")
                  /\ UNCHANGED <<cfg, c, new_cfg, replaced, fields, updated_to, level>>
ReadModeOfCurrent(t) == pc[t] = "mode" /\ Show(t, fields[cfg].mode)
ReadMode(t) == pc[t] = "mode" /\ Show(t, fields[c[t]].mode)

(* The turn of the loop ends, and c with it. *)
Drop(t) == /\ pc[t] = "drop"
           /\ c' = [c EXCEPT ![t] = Null]
           /\ UNCHANGED <<cfg, new_cfg, replaced, updated_to, level, printed>>
           /\ Release
           /\ Goto(t, IF Len(printed[t]) < Reads THEN "load" ELSE "done")
--------------------------------------------------------------------------------
(* update(): make_shared, the store, and at the end new_cfg and what the    *)
(* store has taken out of cfg go.                                           *)
Make(t) == /\ pc[t] = "make"
           /\ updated_to' = updated_to + 1
           /\ new_cfg' = Address(updated_to')
           /\ fields' = [a \in DOMAIN fields \cup {new_cfg'} |->
                           IF a = new_cfg' THEN Version(updated_to') ELSE fields[a]]
           /\ Goto(t, "store")
           /\ UNCHANGED <<cfg, c, replaced, level, printed>>
Store(t) == /\ pc[t] = "store"
            /\ cfg' = new_cfg /\ replaced' = cfg
            /\ Goto(t, "leave")
            /\ UNCHANGED <<c, new_cfg, fields, updated_to, level, printed>>
Leave(t) == /\ pc[t] = "leave"
            /\ new_cfg' = Null /\ replaced' = Null
            /\ UNCHANGED <<cfg, c, updated_to, level, printed>>
            /\ Release
            /\ Goto(t, IF updated_to < Len(Updates) THEN "make" ELSE "done")

Run(t) == /\ Runs /\ t \in DOMAIN pc
          /\ UNCHANGED program
          /\ \/ Load(t) \/ ReadLevel(t) \/ ReadMode(t) \/ Drop(t)
             \/ Make(t) \/ Store(t) \/ Leave(t)
--------------------------------------------------------------------------------
TypeOK == Runs =>
  /\ pc \in [1 .. Writer -> {"load", "level", "mode", "drop", "make", "store", "leave", "done"}]
  /\ updated_to \in 0 .. Len(Updates)
  /\ DOMAIN fields \subseteq 1 .. Address(updated_to)
  /\ \A a \in DOMAIN fields : fields[a] = Version(a - 1)
  /\ level \in [ReaderThreads -> Nat]

(* Readers see whole snapshots (config_manager.cpp line 13): each line a    *)
(* reader prints is the level and the mode of one version, in the order of  *)
(* the updates, of a configuration that is there as long as it looks at it; *)
(* and of the configurations only the last is left in the end.              *)
SnapshotsAreWhole == Runs =>
  /\ \A t \in ReaderThreads :
       /\ \A i \in DOMAIN printed[t] :
            /\ \E k \in 0 .. updated_to : printed[t][i] = Version(k)
            /\ i > 1 => printed[t][i].level >= printed[t][i - 1].level
       /\ pc[t] \in {"level", "mode"} => c[t] \in DOMAIN fields
  /\ (\A t \in DOMAIN pc : pc[t] = "done") => DOMAIN fields = {Address(Len(Updates))}
================================================================================
