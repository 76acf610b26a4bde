----------------------------- MODULE WalletFile -----------------------------
(***************************************************************************)
(* The wallet file: electrum/json_db.py (JsonDB), electrum/stored_dict.py  *)
(* (StoredDict) and electrum/storage.py (WalletStorage).                   *)
(*                                                                         *)
(* The wallet is a tree of StoredDicts in memory.  Each change of it is    *)
(* kept as a JSON patch; a write of the wallet appends the patches to the  *)
(* file, or replaces the file by a dump of the tree.  Loading applies the  *)
(* patches in the file to the dump it starts with.                         *)
(*                                                                         *)
(* The tree has two levels here: the root, and dicts of plain values in    *)
(* some of its slots.  All methods take JsonDB's lock, so each is a step.  *)
(* The lengths of two files differ if the files do.  A file that is        *)
(* encrypted or did not exist when the program was started is never        *)
(* appended to; it is left out, as are StoredLists and upgrades.           *)
(***************************************************************************)
EXTENDS Naturals, Sequences, FiniteSets, SequencesExt

CONSTANTS
    Slot,          \* the keys of the root
    Key, Val,      \* the keys and values in a dict
    Obj,           \* identities of StoredDicts
    Faults,        \* what may go wrong in a write: "torn", "replace", "fsync"
    MaxPending, MaxPatches, MaxFaults, MaxCrashes   \* bounds for TLC

ASSUME FaultsAssumption == Faults \subseteq {"torn", "replace", "fsync"}
ASSUME PrunedAssumption == "pruned" \notin Slot
ASSUME ObjAssumption == \E f \in [Slot -> Obj] : \A s, t \in Slot : f[s] = f[t] => s = t
ASSUME BoundsAssumption == {MaxPending, MaxPatches, MaxFaults, MaxCrashes} \subseteq Nat

VARIABLES
    up,         \* whether the program runs
    root,       \* JsonDB.data: which dict is in a slot
    content,    \* content[o]: what is in a dict
    parent,     \* parent[o]: the slot given by _key and _parent, or Pruned
    held,       \* the dicts somebody has a reference to
    replaced,   \* history: those that another dict was stored in the place of
    pending,    \* pending_changes
    modified,   \* _modified
    pos,        \* the file whose length `pos' is
    disk,       \* the file
    since,      \* history: the states of memory from the one in the file on
    left        \* how many faults and crashes are left

vars == <<up, root, content, parent, held, replaced, pending, modified, pos, disk, since, left>>
tree == <<root, content, parent, held, replaced>>

Dump(data) == [base |-> data, patches |-> << >>]
Pruned == "pruned"

\* `stray' is history: a patch is stray if a dict made it that was replaced, in whose
\* place another one is, or none.
patch(op, path, value, stray) == [op |-> op, path |-> path, value |-> value, stray |-> stray]

\* What is left of a patch that was cut short
Cut == patch("cut", << >>, 0, FALSE)

Strays(patches) == \E i \in DOMAIN patches : patches[i].stray

-----------------------------------------------------------------------------
(* JSON patches, as jsonpatch applies them *)

Fits(data, p) ==
    LET d == IF Len(p.path) = 1 THEN data ELSE data[p.path[1]]
    IN  /\ Len(p.path) = 2 => p.path[1] \in DOMAIN data
        /\ p.op # "add" => Last(p.path) \in DOMAIN d

Without(d, k) == [j \in DOMAIN d \ {k} |-> d[j]]
With(d, k, v) == [j \in DOMAIN d \cup {k} |-> IF j = k THEN v ELSE d[j]]

Edited(d, p) ==
    IF p.op = "remove" THEN Without(d, Last(p.path)) ELSE With(d, Last(p.path), p.value)

\* A patch that does not fit raises, and so do those after it.
ApplyPatch(loaded, p) ==
    LET d == loaded.data
        s == p.path[1]
    IN  IF ~loaded.ok \/ ~Fits(d, p) THEN [loaded EXCEPT !.ok = FALSE]
        ELSE [ok   |-> TRUE,
              data |-> IF Len(p.path) = 1 THEN Edited(d, p) ELSE With(d, s, Edited(d[s], p))]

\* The patches of `file' up to one that was cut short, which
\* maybe_load_incomplete_data drops with all that follows
Complete(file) ==
    LET n == Len(file.patches)
        cuts == {k \in 1 .. n : file.patches[k] = Cut}
    IN  SubSeq(file.patches, 1, Min({n + 1} \cup cuts) - 1)

load_data(file, patches) ==
    LET all == Complete(file) \o patches
        loaded[n \in 0 .. Len(all)] ==
            IF n = 0 THEN [ok |-> TRUE, data |-> file.base]
            ELSE ApplyPatch(loaded[n - 1], all[n])
    IN  loaded[Len(all)]

-----------------------------------------------------------------------------
(* StoredDict *)

Memory == [s \in DOMAIN root |-> content[root[s]]]

\* db_add, db_replace, db_remove; a pruned dict has no path
Emit(o, op, k, v) ==
    /\ pending' = IF parent[o] = Pruned THEN pending
                  ELSE Append(pending, patch(op, <<parent[o], k>>, v, o \in replaced))
    /\ modified' = (modified \/ parent[o] # Pruned)

Room == up /\ Len(pending) < MaxPending /\ Len(pending) + Len(disk.patches) < MaxPatches

Changed == since' = IF pending' = pending THEN since ELSE Append(since, Memory')

\* __setitem__ of a value, which does nothing if the value is there
SetValue(o, k, v) ==
    /\ Room
    /\ o \in held
    /\ k \in DOMAIN content[o] => content[o][k] # v
    /\ content' = [content EXCEPT ![o] = With(@, k, v)]
    /\ Emit(o, IF k \in DOMAIN content[o] THEN "replace" ELSE "add", k, v)
    /\ UNCHANGED <<up, root, parent, held, replaced, pos, disk, left>>
    /\ Changed

\* pop and __delitem__ of a value
PopValue(o, k) ==
    /\ Room
    /\ o \in held
    /\ k \in DOMAIN content[o]
    /\ content' = [content EXCEPT ![o] = Without(@, k)]
    /\ Emit(o, "remove", k, 0)
    /\ UNCHANGED <<up, root, parent, held, replaced, pos, disk, left>>
    /\ Changed

\* __setitem__ of a dict, get_dict and put: it becomes a new StoredDict.  The one it
\* replaces keeps its _parent and its _key, and so has the path of what is there now.
SetDict(s, d) ==
    LET o   == CHOOSE o \in Obj : o \notin held
        old == {root[t] : t \in DOMAIN root \cap {s}}
    IN  /\ Room
        /\ held # Obj
        /\ \A p \in old : content[p] # d
        /\ root' = With(root, s, o)
        /\ content' = [content EXCEPT ![o] = d]
        /\ parent' = [parent EXCEPT ![o] = s]
        /\ held' = held \cup {o}
        /\ replaced' = replaced \cup old
        /\ pending' = Append(pending, patch(IF old # {} THEN "replace" ELSE "add", <<s>>, d, FALSE))
        /\ modified' = TRUE
        /\ UNCHANGED <<up, pos, disk, left>>
        /\ Changed

\* Mistake: what was removed from the tree still has a path.
pruned_parent_Kept(o) == parent

\* What pop and __delitem__ do to the parent of the dict they remove
pruned_parent(o) == [parent EXCEPT ![o] = Pruned]

\* pop and __delitem__ of a dict
PopDict(s) ==
    /\ Room
    /\ s \in DOMAIN root
    /\ root' = Without(root, s)
    /\ parent' = pruned_parent(root[s])
    /\ pending' = Append(pending, patch("remove", <<s>>, 0, FALSE))
    /\ modified' = TRUE
    /\ UNCHANGED <<up, content, held, replaced, pos, disk, left>>
    /\ Changed

\* The last reference to a dict that is not in the tree goes.
Release(o) ==
    /\ up
    /\ o \in held /\ \A s \in DOMAIN root : root[s] # o
    /\ held' = held \ {o}
    /\ replaced' = replaced \ {o}
    /\ content' = [content EXCEPT ![o] = << >>]
    /\ parent' = [parent EXCEPT ![o] = Pruned]
    /\ UNCHANGED <<up, root, pending, modified, pos, disk, since, left>>

-----------------------------------------------------------------------------
(* Writing *)

\* Mistake: the file is extended whatever its length is.
can_append_Always == pending # << >>

\* write, when it need not replace the file, and nobody else changed the file
can_append == pending # << >> /\ disk = pos

\* The file with the first k pending patches, and perhaps a piece of the next
Appended(k, cut) ==
    [disk EXCEPT !.patches = @ \o SubSeq(pending, 1, k) \o (IF cut THEN <<Cut>> ELSE << >>)]

\* What remains of `since' when the file has got to its state number k
Onward(k) == SubSeq(since, Min({k, Len(since)}), Len(since))

\* _append_pending_changes
AppendPending ==
    /\ up /\ can_append
    /\ disk' = Appended(Len(pending), FALSE)
    /\ pos' = disk'
    /\ pending' = << >>
    /\ since' = Onward(Len(since))
    /\ UNCHANGED <<up, tree, modified, left>>

\* Mistake: the patches that are in the dump stay pending.
pending_after_dump_Kept == pending
pending_after_dump == << >>

\* write_and_force_consolidation: the dump goes to another file, which then
\* takes the place of the wallet file
Consolidate ==
    /\ up /\ modified
    /\ disk' = Dump(Memory)
    /\ pos' = disk'
    /\ pending' = pending_after_dump
    /\ modified' = FALSE
    /\ since' = Onward(Len(since))
    /\ UNCHANGED <<up, tree, left>>

Fault(f) == up /\ f \in Faults /\ left.faults > 0 /\ left' = [left EXCEPT !.faults = @ - 1]

\* The append fails half way, as the disk is full; or at its end, in fsync, when
\* the new length has been taken.  The patches stay pending.
AppendFails(k, cut) ==
    /\ Fault("torn")
    /\ can_append /\ k <= Len(pending) /\ (k = Len(pending) => ~cut)
    /\ disk' = Appended(k, cut)
    /\ pos' \in {pos} \cup (IF "fsync" \in Faults /\ k = Len(pending) THEN {disk'} ELSE {})
    /\ since' = Onward(k + 1)
    /\ UNCHANGED <<up, tree, pending, modified>>

\* os.replace fails: the length is that of the other file.
ReplaceFails ==
    /\ Fault("replace")
    /\ modified
    /\ pos' = Dump(Memory)
    /\ UNCHANGED <<up, tree, pending, modified, disk, since>>

-----------------------------------------------------------------------------
(* The program *)

\* It stops, perhaps in the middle of an append.  With a stray patch in the file, the
\* history begins anew with what would be loaded.
Crash(k, cut) ==
    /\ up
    /\ left.crashes > 0
    /\ left' = [left EXCEPT !.crashes = @ - 1]
    /\ k # 0 \/ cut => can_append
    /\ k <= Len(pending) /\ (k = Len(pending) => ~cut)
    /\ up' = FALSE
    /\ disk' = Appended(k, cut)
    /\ since' = <<IF Strays(disk'.patches) THEN load_data(disk', << >>).data ELSE Onward(k + 1)[1]>>
    /\ UNCHANGED <<tree, pending, modified, pos>>

\* JsonDB.__init__: the file is loaded, and replaced by a dump if there was more
\* than a dump in it.
Start ==
    LET loaded == load_data(disk, << >>)
        At(f, o) == CHOOSE s \in DOMAIN f : f[s] = o
    IN  /\ ~up
        /\ loaded.ok
        /\ up' = TRUE
        /\ root' = CHOOSE f \in [DOMAIN loaded.data -> Obj] :
                       \A s, t \in DOMAIN f : f[s] = f[t] => s = t
        /\ held' = {root'[s] : s \in DOMAIN root'}
        /\ content' = [o \in Obj |-> IF o \in held' THEN loaded.data[At(root', o)] ELSE << >>]
        /\ parent' = [o \in Obj |-> IF o \in held' THEN At(root', o) ELSE Pruned]
        /\ replaced' = {}
        /\ pending' = << >>
        /\ modified' = FALSE
        /\ disk' = Dump(loaded.data)
        /\ pos' = disk'
        /\ UNCHANGED <<since, left>>

Init ==
    /\ up = TRUE
    /\ root = << >>
    /\ content = [o \in Obj |-> << >>]
    /\ parent = [o \in Obj |-> Pruned]
    /\ held = {}
    /\ replaced = {}
    /\ pending = << >>
    /\ modified = FALSE
    /\ pos = Dump(Memory)
    /\ disk = Dump(Memory)
    /\ since = <<Memory>>
    /\ left = [faults |-> MaxFaults, crashes |-> MaxCrashes]

Next ==
    \/ \E o \in Obj, k \in Key : PopValue(o, k) \/ \E v \in Val : SetValue(o, k, v)
    \/ \E s \in Slot, d \in {<< >>} \cup [Key -> Val] : SetDict(s, d)
    \/ \E s \in Slot : PopDict(s)
    \/ \E o \in Obj : Release(o)
    \/ AppendPending \/ Consolidate \/ ReplaceFails
    \/ \E k \in 0 .. MaxPending, cut \in BOOLEAN : AppendFails(k, cut) \/ Crash(k, cut)
    \/ Start

Spec == Init /\ [][Next]_vars

-----------------------------------------------------------------------------
(* Properties *)

\* Whenever the program stops, wherever an append was interrupted and whichever
\* write failed before, the file can be loaded, and gives a state that memory was
\* in ("must recover to a valid prefix state"): the last one if all is written.
\* The exception is a file with a patch made through a dict that had been replaced,
\* until a dump takes its place: such a patch may change, or not fit, what is there.
FileLoads ==
    /\ ~Strays(disk.patches) => load_data(disk, << >>) = [ok |-> TRUE, data |-> Head(since)]
    /\ up => Last(since) = Memory
    /\ up /\ pending = << >> => Len(since) = 1

\* The wallet file is a SavedStates: memory changes, a write moves what would be
\* loaded forward to some state memory has been in since, and a crash goes back
\* to that.  Only a crash with a stray patch in the file may lead elsewhere.
Saved == INSTANCE SavedStates WITH
    mem <- IF up THEN Memory ELSE load_data(disk, << >>).data

SavedStatesSpec ==
    /\ Saved!Init
    /\ [][Saved!Next \/ (Saved!Elsewhere /\ ~up' /\ Strays(disk'.patches))]_(Saved!vars)

=============================================================================
