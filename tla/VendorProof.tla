---------------------------- MODULE VendorProof ----------------------------
(***************************************************************************)
(* A run of vendor.py that ends well leaves the tree that description,     *)
(* lock file and patches determine, for every upstream, description, patch *)
(* series and command line; and the lock file is written only when it may  *)
(* be, and only once the tree is in place.  What it commits is what it     *)
(* produced, with a whole series of patches, and none of it lies outside   *)
(* the target directory, however the paths of the mapping are written.     *)
(***************************************************************************)
EXTENDS Vendor, TLAPS, SequenceTheorems, Induction

IsUpstream(u) ==
  u = [url |-> u.url, rev |-> u.rev, only_subdir |-> u.only_subdir]
IsSnapshot(s) ==
  s = [desc |-> s.desc, lock |-> s.lock, tree |-> s.tree, patches |-> s.patches]

\* What the working directory, the index or the last commit hold.
Sound(s) ==
  /\ s.desc \in Descs
  /\ s.lock \in {NoLock, TornLock} \/ IsUpstream(s.lock)

Disk ==
  /\ IsSnapshot(index) /\ IsSnapshot(head)
  /\ Sound(index) /\ Sound(head) /\ Sound(Snapshot)

\* What the process has loaded still is what the disk says.
Loading ==
  step # "idle" =>
    /\ result = "none"
    /\ run.desc.items = Desc(desc).items
    /\ run.desc.exclude = Desc(desc).exclude
    /\ Len(run.desc.items) \in Nat
    /\ IsUpstream(run.desc.upstream)
    /\ run.update => run.mayMove
    /\ run.update \/ (run.desc.upstream = lock /\ run.lock = lock)

\* The checkout is of the locked commit, unless the run updates.
CheckedOut ==
  step \in {"remove", "copy", "patch", "lock", "write", "commit", "staged"} =>
    /\ IsUpstream(src) /\ src.url \in Url /\ src.rev \in Commit
    /\ run.update \/ src = lock

\* An entry as copied, and as it is with all its patches.
CopiedEntry(t, i) ==
  t[i] = [Placed(run.desc, i, src, t[i].at) EXCEPT !.applied = t[i].applied]
Whole(t, i) == CopiedEntry(t, i) /\ t[i].applied = SeriesOf(run.desc, i, patches)

\* Entries are copied and patched in order; the last may be under way.
Importing ==
  /\ step \in {"copy", "patch"} =>
       tree \in Seq(Range(tree)) /\ Len(tree) <= Len(run.desc.items)
  /\ step = "copy" =>
       Len(tree) < Len(run.desc.items) /\ \A i \in DOMAIN tree : Whole(tree, i)
  /\ step = "patch" =>
       /\ Len(tree) # 0 /\ \A i \in 1 .. Len(tree) - 1 : Whole(tree, i)
       /\ CopiedEntry(tree, Len(tree))
       /\ tree[Len(tree)].applied \cup todo = SeriesOf(run.desc, Len(tree), patches)

\* What comes after the import.
Done ==
  /\ step \in {"lock", "write", "commit", "staged"} =>
       Imported(tree, run.desc, src, patches)
  /\ step \in {"lock", "write"} => run.update
  /\ step \in {"commit", "staged"} => lock = src

Inv == Disk /\ Loading /\ CheckedOut /\ Importing /\ Done /\ Pinned

----------------------------------------------------------------------------
\* Command-line overrides leave the mapping and the exclusions alone.
LEMMA OverridesKeep ==
  ASSUME NEW d \in Descs, NEW o,
         \A i \in DOMAIN o : define_arg_type(o[i])
  PROVE  LET e == apply_overrides(d, o)
         IN  \A s \in {"mapping", "patch_dir", "exclude_from_upstream"} :
               /\ s \in DOMAIN e <=> s \in DOMAIN d
               /\ s \in DOMAIN d => e[s] = d[s]
<1> DEFINE keys == {o[i][1] : i \in DOMAIN o}
<1>1. \A key \in keys : key[1] \in {"patch_repo", "upstream"}
  BY DEF define_arg_type, OVERRIDABLE_DESC_KEYS
<1> QED
  BY <1>1 DEF apply_overrides

\* So what is imported is what the description file says, and a list.
LEMMA ImportsAsDescribed ==
  ASSUME NEW d \in Descs, NEW o,
         \A i \in DOMAIN o : define_arg_type(o[i]),
         DescOK(apply_overrides(d, o))
  PROVE  /\ Desc(apply_overrides(d, o)).items = Desc(d).items
         /\ Desc(apply_overrides(d, o)).exclude = Desc(d).exclude
         /\ Len(Desc(d).items) \in Nat
         /\ IsUpstream(Desc(apply_overrides(d, o)).upstream)
<1> DEFINE e == apply_overrides(d, o)
<1>1. \A s \in {"mapping", "patch_dir", "exclude_from_upstream"} :
        (s \in DOMAIN e <=> s \in DOMAIN d) /\ (s \in DOMAIN d => e[s] = d[s])
  BY OverridesKeep
<1> HIDE DEF e
<1>2. Desc(e).items = Desc(d).items /\ Desc(e).exclude = Desc(d).exclude
  BY <1>1 DEF Desc, Field
<1>3. IsUpstream(Desc(e).upstream)
  BY DEF Desc, Upstream, IsUpstream
<1>4. CASE "mapping" \in DOMAIN d
  <2>1. d.mapping # Mistyped
    BY <1>1, <1>4 DEF e, DescOK, FieldOK
  <2>2. d.mapping \in Seq(Range(d.mapping))
    BY <1>4, <2>1, MappingAssumption
  <2>3. Desc(d).items = [i \in DOMAIN d.mapping |-> Item(d.mapping[i])]
    BY <1>4 DEF Desc
  <2>4. Len(Desc(d).items) = Len(d.mapping) /\ Len(d.mapping) \in Nat
    BY <2>2, <2>3
  <2> QED
    BY <1>2, <1>3, <2>4 DEF e
<1>5. CASE "mapping" \notin DOMAIN d
  <2>1. Len(Desc(d).items) = 1
    BY <1>5 DEF Desc
  <2> QED
    BY <1>2, <1>3, <2>1 DEF e
<1> QED
  BY <1>4, <1>5

\* An import depends on the entries and the exclusions of a description only.
LEMMA ImportedSame ==
  ASSUME NEW t, NEW d, NEW e, NEW from, NEW ps,
         d.items = e.items, d.exclude = e.exclude, Imported(t, d, from, ps)
  PROVE  Imported(t, e, from, ps)
<1>1. \A i, at : Placed(d, i, from, at) = Placed(e, i, from, at)
  BY DEF Placed
<1>2. \A i : SeriesOf(d, i, ps) = SeriesOf(e, i, ps)
  BY DEF SeriesOf
<1> QED
  BY <1>1, <1>2 DEF Imported

\* The last entry is whole: so is the import, or the next one is copied.
LEMMA Onwards ==
  ASSUME NEW t, Len(t) <= Len(run.desc.items), Len(run.desc.items) \in Nat,
         t \in Seq(Range(t)), \A i \in DOMAIN t : Whole(t, i)
  PROVE  IF Len(t) < Len(run.desc.items) THEN TRUE
         ELSE Imported(t, run.desc, src, patches)
BY DEF Imported, Whole, CopiedEntry

\* One more entry.
LEMMA Appended ==
  ASSUME NEW t, t \in Seq(Range(t)), NEW x
  PROVE  /\ Append(t, x) \in Seq(Range(Append(t, x)))
         /\ Len(Append(t, x)) = Len(t) + 1
         /\ Append(t, x)[Len(t) + 1] = x
         /\ \A i \in 1 .. Len(t) : Append(t, x)[i] = t[i]
<1> DEFINE S == Range(t) \cup {x}
<1>1. t \in Seq(S) /\ x \in S
  OBVIOUS
<1>2. /\ Append(t, x) \in Seq(S)
      /\ Len(Append(t, x)) = Len(t) + 1
      /\ Append(t, x)[Len(t) + 1] = x
      /\ \A i \in 1 .. Len(t) : Append(t, x)[i] = t[i]
  BY <1>1, AppendProperties
<1>3. Append(t, x) \in Seq(Range(Append(t, x)))
  BY <1>2 DEF Range
<1> QED
  BY <1>2, <1>3

\* A list of anything is a list of its own elements.
LEMMA OwnElements ==
  ASSUME NEW S, NEW s \in Seq(S)
  PROVE  s \in Seq(Range(s))
BY DEF Range

LEMMA Single ==
  ASSUME NEW x
  PROVE  <<x>> \in Seq(Range(<<x>>)) /\ DOMAIN <<x>> = {1} /\ <<x>>[1] = x
<1>1. <<x>> \in Seq({x}) /\ DOMAIN <<x>> = {1} /\ <<x>>[1] = x
  OBVIOUS
<1> QED
  BY <1>1, OwnElements

\* Changing an entry in place.
LEMMA Replaced ==
  ASSUME NEW t, t \in Seq(Range(t)), NEW n \in DOMAIN t, NEW x
  PROVE  LET u == [t EXCEPT ![n] = x]
         IN  /\ u \in Seq(Range(u)) /\ Len(u) = Len(t) /\ u[n] = x
             /\ \A i \in DOMAIN t \ {n} : u[i] = t[i]
<1> DEFINE S == Range(t) \cup {x}
           u == [t EXCEPT ![n] = x]
<1>1. t \in Seq(S) /\ x \in S
  OBVIOUS
<1>2. u \in Seq(S) /\ Len(u) = Len(t)
  BY <1>1
<1>3. u[n] = x /\ \A i \in DOMAIN t \ {n} : u[i] = t[i]
  BY <1>1
<1> HIDE DEF u
<1>4. u \in Seq(Range(u))
  BY <1>2 DEF Range
<1> QED
  BY <1>2, <1>3, <1>4 DEF u

----------------------------------------------------------------------------
\* A process that has not ended well owes nothing but a sound disk.
LEMMA Ended ==
  ASSUME Disk', step' = "idle", result' # "ok"
  PROVE  Inv'
BY DEF Inv, Loading, CheckedOut, Importing, Done, Pinned

LEMMA InvInit == Init => Inv
<1> SUFFICES ASSUME Init PROVE Inv
  OBVIOUS
<1>1. Disk
  BY DEF Init, Disk, Snapshot, IsSnapshot, Sound
<1> QED
  BY <1>1 DEF Init, Inv, Loading, CheckedOut, Importing, Done, Pinned

\* What the user and the upstream repositories do.
LEMMA InvOutside == Inv /\ Outside => Inv'
<1> SUFFICES ASSUME Inv, Outside PROVE Inv'
  OBVIOUS
<1> USE DEF Inv, Disk, Sound, IsSnapshot, Snapshot
<1>1. CASE EditDesc
  BY <1>1, Ended DEF EditDesc, Edit, Idle, git, world
<1>2. CASE EditTree
  BY <1>2, Ended DEF EditTree, Edit, Idle, git, world
<1>3. CASE AddPatch
  BY <1>3, Ended DEF AddPatch, Edit, Idle, git, world
<1>4. CASE EditLock
  BY <1>4, Ended DEF EditLock, Edit, Idle, git, world, IsUpstream
<1>5. CASE CommitAll
  BY <1>5, Ended DEF CommitAll, Idle, files, world
<1>6. CASE Discard
  BY <1>6, Ended DEF Discard, Idle, world
<1>7. CASE UpstreamMoves
  BY <1>7, Ended DEF UpstreamMoves, Edit, Idle, files, git
<1> QED
  BY <1>1, <1>2, <1>3, <1>4, <1>5, <1>6, <1>7 DEF Outside

\* What goes wrong.
LEMMA InvTrouble == Inv /\ (Trouble \/ Reject) => Inv'
<1> SUFFICES ASSUME Inv, Trouble \/ Reject PROVE Inv'
  OBVIOUS
<1> USE DEF Inv, Disk, Sound, IsSnapshot, Snapshot
<1>1. CASE ExportFails
  BY <1>1, Ended DEF ExportFails, End, git, world
<1>2. CASE CloneFails
  BY <1>2, Ended DEF CloneFails, End, git, files
<1>3. CASE CopyFails
  BY <1>3, Ended DEF CopyFails, End, git, world
<1>4. CASE Crash
  BY <1>4, Ended DEF Crash, End, git, files
<1>5. CASE CrashInRemoval
  BY <1>5, Ended DEF CrashInRemoval, End, git, world
<1>6. CASE Reject
  BY <1>6, Ended DEF Reject, git, files
<1> QED
  BY <1>1, <1>2, <1>3, <1>4, <1>5, <1>6 DEF Trouble

\* Starting a run: what is loaded.
LEMMA InvBegin == Inv /\ Begin => Inv'
<1> SUFFICES ASSUME Inv, Begin PROVE Inv'
  OBVIOUS
<1>1. PICK o \in Options :
        /\ Accepted(o) /\ run' = Loaded(o)
        /\ step' = IF o.refresh THEN "refresh" ELSE "clone"
  BY DEF Begin
<1>2. Disk'
  BY DEF Inv, Disk, Sound, IsSnapshot, Snapshot, Begin, files, git
<1> DEFINE d == Desc(apply_overrides(desc, o.overrides))
<1>3. /\ d.items = Desc(desc).items /\ d.exclude = Desc(desc).exclude
      /\ Len(d.items) \in Nat /\ IsUpstream(d.upstream)
  <2>1. desc \in Descs
    BY DEF Inv, Disk, Sound, Snapshot
  <2> QED
    BY <1>1, <2>1, ImportsAsDescribed DEF Accepted
<1>4. lock # NoLock => IsUpstream(lock)
  BY <1>1 DEF Accepted, LockDesc, Inv, Disk, Sound, Snapshot
<1> HIDE DEF d
<1>5. Loading'
  <2>1. CASE o.update \/ lock = NoLock
    BY <1>1, <1>3, <2>1 DEF Loaded, Loading, LockDesc, Begin, files, d
  <2>2. CASE ~(o.update \/ lock = NoLock)
    <3>1. run'.desc = [d EXCEPT !.upstream = lock] /\ run'.lock = lock /\ run'.update = FALSE
      BY <1>1, <2>2 DEF Loaded, LockDesc, d
    <3>2. /\ run'.desc.items = d.items /\ run'.desc.exclude = d.exclude
          /\ run'.desc.upstream = lock
      BY <3>1 DEF d, Desc
    <3> QED
      BY <1>3, <1>4, <2>2, <3>1, <3>2 DEF Loading, Begin, files
  <2> QED
    BY <2>1, <2>2
<1> QED
  BY <1>1, <1>2, <1>5
  DEF Inv, Begin, CheckedOut, Importing, Done, Pinned

\* Before the import.
LEMMA InvPrepare ==
  Inv /\ (RemovePatches \/ _export_patches \/ clone_git_repo) => Inv'
<1> SUFFICES ASSUME Inv, RemovePatches \/ _export_patches \/ clone_git_repo
             PROVE  Inv'
  OBVIOUS
<1> USE DEF Inv, Disk, Sound, IsSnapshot, Snapshot
<1>1. CASE RemovePatches
  <2>1. Disk'
    BY <1>1 DEF RemovePatches, git
  <2>2. CASE run.desc.patch_repo = None
    BY <1>1, <2>1, <2>2, Ended DEF RemovePatches, End
  <2>3. CASE run.desc.patch_repo # None
    BY <1>1, <2>1, <2>3
    DEF RemovePatches, Loading, CheckedOut, Importing, Done, Pinned
  <2> QED
    BY <2>2, <2>3
<1>2. CASE _export_patches
  <2>1. Disk'
    BY <1>2 DEF _export_patches, git
  <2> QED
    BY <1>2, <2>1
    DEF _export_patches, Loading, CheckedOut, Importing, Done, Pinned
<1>3. CASE clone_git_repo
  <2>1. Disk'
    BY <1>3 DEF clone_git_repo, git, files
  <2>2. PICK c \in Resolve(run.desc.upstream) :
          IF Usable(run.desc.upstream, c)
          THEN /\ src' = [run.desc.upstream EXCEPT !.rev = c]
               /\ step' = "remove" /\ UNCHANGED <<run, todo, result>>
          ELSE End("failed")
    BY <1>3 DEF clone_git_repo
  <2>3. CASE ~Usable(run.desc.upstream, c)
    BY <2>1, <2>2, <2>3, Ended DEF End
  <2>4. CASE Usable(run.desc.upstream, c)
    <3>1. step = "clone" /\ lock' = lock /\ desc' = desc
      BY <1>3 DEF clone_git_repo, files
    <3>2. IsUpstream(run.desc.upstream)
      BY <3>1 DEF Loading
    <3>3. run.desc.upstream.url \in Url /\ c \in Commit
      BY <2>2, HasAssumption DEF Resolve
    <3>4. IsUpstream(src') /\ src'.url \in Url /\ src'.rev \in Commit
      BY <2>2, <2>4, <3>2, <3>3 DEF IsUpstream
    <3>5. run.update \/ src' = lock
      BY <2>2, <2>4, <3>1, <3>2 DEF Usable, Loading, IsUpstream
    <3> QED
      BY <2>1, <2>2, <2>4, <3>1, <3>4, <3>5
      DEF Loading, CheckedOut, Importing, Done, Pinned
  <2> QED
    BY <2>3, <2>4
<1> QED
  BY <1>1, <1>2, <1>3

\* What holds after an entry is whole, or before the first.
LEMMA InvOnward ==
  ASSUME Inv, Disk', step \in {"remove", "patch"}, step' = Onward,
         UNCHANGED <<desc, lock, patches, run, src, result>>,
         tree' \in Seq(Range(tree')), Len(tree') <= Len(run.desc.items),
         \A i \in DOMAIN tree' : Whole(tree', i)
  PROVE  Inv'
<1>1. Loading' /\ CheckedOut' /\ Pinned'
  BY DEF Inv, Loading, CheckedOut, Pinned, Onward
<1>2. \A i \in DOMAIN tree' : Whole(tree, i)'
  BY DEF Whole, CopiedEntry
<1>3. Len(run.desc.items) \in Nat
  BY DEF Inv, Loading
<1>4. run.update \/ src = lock
  BY DEF Inv, CheckedOut
<1>5. CASE Len(tree') < Len(run.desc.items)
  <2>1. step' = "copy"
    BY <1>5 DEF Onward
  <2> QED
    BY <1>1, <1>2, <1>5, <2>1 DEF Inv, Importing, Done
<1>6. CASE ~(Len(tree') < Len(run.desc.items))
  <2>1. Imported(tree', run.desc, src, patches)
    BY <1>3, <1>6, Onwards
  <2>2. step' = IF run.update THEN "lock" ELSE "commit"
    BY <1>6 DEF Onward
  <2> QED
    BY <1>1, <1>4, <2>1, <2>2 DEF Inv, Importing, Done
<1> QED
  BY <1>5, <1>6

\* The import itself.
LEMMA InvImport ==
  Inv /\ (RemoveTree \/ CopyItem \/ apply_patch \/ ItemDone) => Inv'
<1> SUFFICES ASSUME Inv, RemoveTree \/ CopyItem \/ apply_patch \/ ItemDone
             PROVE  Inv'
  OBVIOUS
<1>d. Disk'
  BY DEF Inv, Disk, Sound, IsSnapshot, Snapshot, RemoveTree, CopyItem,
         apply_patch, ItemDone, git, files
<1>1. CASE RemoveTree
  <2>1. tree' = <<>> /\ Len(run.desc.items) \in Nat
    BY <1>1 DEF RemoveTree, Inv, Loading
  <2>2. tree' \in Seq(Range(tree')) /\ Len(tree') = 0 /\ DOMAIN tree' = {}
    BY <2>1
  <2> QED
    BY <1>d, <1>1, <2>1, <2>2, InvOnward DEF RemoveTree
<1>2. CASE CopyItem
  <2> DEFINE n == Len(tree) + 1
  <2>0. PICK at \in Landings(tree, run.desc.items[n], src) :
          tree' = Append(tree, Placed(run.desc, n, src, at))
    BY <1>2 DEF CopyItem, Next1
  <2> DEFINE x == Placed(run.desc, n, src, at)
  <2>1. /\ step = "copy" /\ step' = "patch" /\ tree' = Append(tree, x)
        /\ todo' = SeriesOf(run.desc, n, patches)
        /\ UNCHANGED <<desc, lock, patches, run, src, result>>
    BY <1>2, <2>0 DEF CopyItem, Next1
  <2>2. /\ tree \in Seq(Range(tree)) /\ Len(tree) < Len(run.desc.items)
        /\ Len(run.desc.items) \in Nat /\ \A i \in DOMAIN tree : Whole(tree, i)
    BY <2>1 DEF Inv, Importing, Loading
  <2>3. x = [Placed(run.desc, n, src, x.at) EXCEPT !.applied = x.applied]
        /\ x.applied = {}
    BY DEF Placed
  <2> HIDE DEF x
  <2>4. /\ tree' \in Seq(Range(tree')) /\ Len(tree') = n /\ tree'[n] = x
        /\ \A i \in 1 .. Len(tree) : tree'[i] = tree[i]
    BY <2>1, <2>2, Appended
  <2>5. Len(tree) \in Nat /\ DOMAIN tree = 1 .. Len(tree)
    BY <2>2
  <2>6. \A i \in 1 .. Len(tree) : Whole(tree, i)'
    BY <2>1, <2>2, <2>4, <2>5 DEF Whole, CopiedEntry
  <2>7. CopiedEntry(tree, Len(tree))'
    BY <2>1, <2>3, <2>4 DEF CopiedEntry
  <2>8. Importing'
    BY <2>1, <2>2, <2>3, <2>4, <2>5, <2>6, <2>7 DEF Importing
  <2> QED
    BY <1>d, <2>1, <2>8 DEF Inv, Loading, CheckedOut, Done, Pinned
<1>3. CASE apply_patch
  <2>1. PICK no \in todo :
          IF <<no, src.rev>> \in Fits
          THEN /\ tree' = [tree EXCEPT ![Len(tree)].applied = @ \cup {no}]
               /\ todo' = todo \ {no}
               /\ UNCHANGED <<step, run, src, result>>
          ELSE End("failed") /\ UNCHANGED tree
    BY <1>3 DEF apply_patch
  <2>2. CASE <<no, src.rev>> \notin Fits
    BY <1>d, <2>1, <2>2, Ended DEF End
  <2>3. CASE <<no, src.rev>> \in Fits
    <3> DEFINE n == Len(tree)
               x == [tree[n] EXCEPT !.applied = @ \cup {no}]
    <3>1. /\ step = "patch" /\ tree' = [tree EXCEPT ![n] = x] /\ todo' = todo \ {no}
          /\ UNCHANGED <<step, desc, lock, patches, run, src, result>>
      BY <1>3, <2>1, <2>3 DEF apply_patch
    <3>2. /\ tree \in Seq(Range(tree)) /\ n <= Len(run.desc.items) /\ n # 0
          /\ \A i \in 1 .. n - 1 : Whole(tree, i)
          /\ CopiedEntry(tree, n)
          /\ tree[n].applied \cup todo = SeriesOf(run.desc, n, patches)
      BY <3>1 DEF Inv, Importing
    <3>3. n \in DOMAIN tree /\ n \in Nat /\ DOMAIN tree = 1 .. n
      BY <3>2
    <3>4. /\ x = [Placed(run.desc, n, src, x.at) EXCEPT !.applied = x.applied]
          /\ x.applied = tree[n].applied \cup {no}
      BY <3>2 DEF CopiedEntry, Placed
    <3> HIDE DEF x
    <3>5. /\ tree' \in Seq(Range(tree')) /\ Len(tree') = n /\ tree'[n] = x
          /\ \A i \in DOMAIN tree \ {n} : tree'[i] = tree[i]
      BY <3>1, <3>2, <3>3, Replaced
    <3>6. \A i \in 1 .. n - 1 : Whole(tree, i)'
      BY <3>1, <3>2, <3>3, <3>5 DEF Whole, CopiedEntry
    <3>7. CopiedEntry(tree, n)'
      BY <3>1, <3>4, <3>5 DEF CopiedEntry
    <3>8. tree'[n].applied \cup todo' = SeriesOf(run.desc, n, patches)
      BY <2>1, <3>1, <3>2, <3>4, <3>5
    <3>9. Importing'
      BY <3>1, <3>2, <3>5, <3>6, <3>7, <3>8 DEF Importing
    <3> QED
      BY <1>d, <3>1, <3>9 DEF Inv, Loading, CheckedOut, Done, Pinned
  <2> QED
    BY <2>2, <2>3
<1>4. CASE ItemDone
  <2>1. /\ step = "patch" /\ todo = {} /\ step' = Onward
        /\ UNCHANGED <<desc, lock, tree, patches, run, src, result>>
    BY <1>4 DEF ItemDone, files
  <2>2. /\ tree \in Seq(Range(tree)) /\ Len(tree) <= Len(run.desc.items)
        /\ Len(tree) # 0 /\ \A i \in 1 .. Len(tree) - 1 : Whole(tree, i)
        /\ Whole(tree, Len(tree))
    BY <2>1 DEF Inv, Importing, Whole
  <2>3. \A i \in DOMAIN tree : Whole(tree, i)
    BY <2>2
  <2> QED
    BY <1>d, <2>1, <2>2, <2>3, InvOnward
<1> QED
  BY <1>1, <1>2, <1>3, <1>4

\* After the import.
LEMMA InvRecord ==
  Inv /\ (OpenLock \/ WriteLock \/ Finish \/ Stage \/ git_add_commit) => Inv'
<1> SUFFICES ASSUME Inv, OpenLock \/ WriteLock \/ Finish \/ Stage \/ git_add_commit
             PROVE  Inv'
  OBVIOUS
<1>1. CASE OpenLock
  BY <1>1 DEF OpenLock, Inv, Disk, Sound, IsSnapshot, Snapshot, git,
    Loading, CheckedOut, Importing, Done, Pinned
<1>2. CASE WriteLock
  BY <1>2 DEF WriteLock, Inv, Disk, Sound, IsSnapshot, Snapshot, git,
    Loading, CheckedOut, Importing, Done, Pinned
<1>3. CASE Stage
  <2>1. Disk'
    BY <1>3 DEF Stage, Inv, Disk, Sound, IsSnapshot, Snapshot, files
  <2> QED
    BY <1>3, <2>1 DEF Stage, Inv, files, Loading, CheckedOut, Importing,
      Done, Pinned
<1>4. CASE Finish \/ git_add_commit
  <2>1. Disk'
    BY <1>4 DEF Finish, git_add_commit, Inv, Disk, Sound, IsSnapshot, Snapshot,
      files, git
  <2>2. /\ step \in {"commit", "staged"} /\ step' = "idle"
        /\ UNCHANGED <<desc, lock, tree, patches>>
    BY <1>4 DEF Finish, git_add_commit, End, files
  <2>3. Imported(tree, Desc(desc), lock, patches)
    BY <2>2, ImportedSame DEF Inv, Done, Loading
  <2>4. lock \in [url : Url, rev : Commit, only_subdir : {lock.only_subdir}]
    BY <2>2 DEF Inv, Done, CheckedOut, IsUpstream
  <2>5. Pinned'
    BY <2>2, <2>3, <2>4 DEF Pinned
  <2> QED
    BY <2>1, <2>2, <2>5 DEF Inv, Loading, CheckedOut, Importing, Done
<1> QED
  BY <1>1, <1>2, <1>3, <1>4

----------------------------------------------------------------------------
LEMMA InvNext == Inv /\ [Next]_vars => Inv'
<1> SUFFICES ASSUME Inv, [Next]_vars PROVE Inv'
  OBVIOUS
<1>1. CASE UNCHANGED vars
  BY <1>1 DEF vars, world, files, git, process, Inv, Disk, Sound, IsSnapshot,
    Snapshot, Loading, CheckedOut, Importing, Whole, CopiedEntry, Done,
    Pinned
<1> QED
  BY <1>1, InvBegin, InvOutside, InvTrouble, InvPrepare, InvImport, InvRecord
  DEF Next, Work

\* While a run imports, and after it ended well, no entry that is the whole target
\* directory has files of a failed removal beside it.
Aside ==
  step \in {"copy", "patch", "lock", "write", "commit", "staged"} \/ result = "ok" => Alone(tree)

\* One more entry that stands alone.
LEMMA AloneGrows ==
  ASSUME NEW t, t \in Seq(Range(t)), Alone(t), NEW x,
         x.at = <<>> => IsFile(x.src, x.item.from) \/ ~kept
  PROVE  Alone(Append(t, x))
<1>1. /\ Len(Append(t, x)) = Len(t) + 1
      /\ Append(t, x)[Len(t) + 1] = x
      /\ \A i \in 1 .. Len(t) : Append(t, x)[i] = t[i]
      /\ DOMAIN Append(t, x) = 1 .. Len(Append(t, x))
  BY Appended
<1>2. Len(t) \in Nat /\ DOMAIN t = 1 .. Len(t)
  OBVIOUS
<1>3. ASSUME NEW i \in DOMAIN Append(t, x)
      PROVE  i = Len(t) + 1 \/ i \in DOMAIN t
  BY <1>1, <1>2
<1> QED
  BY <1>1, <1>2, <1>3 DEF Alone

LEMMA AsideNext == Inv /\ Aside /\ [Next]_vars => Aside'
<1> SUFFICES ASSUME Inv, Aside, [Next]_vars PROVE Aside'
  OBVIOUS
<1> USE DEF Aside, world, files, git, vars, process
<1>0. kept' = kept /\ tree' = tree /\ Alone(tree) => Alone(tree)'
  BY DEF Alone
<1>1. CASE UNCHANGED vars
  BY <1>0, <1>1
<1>2. CASE RemoveTree
  <2>1. tree' = <<>>
    BY <1>2 DEF RemoveTree
  <2> QED
    BY <2>1 DEF Alone
<1>3. CASE CopyItem
  <2> DEFINE n == Len(tree) + 1
  <2>1. PICK at \in Landings(tree, run.desc.items[n], src) :
          /\ CanPlace(tree, run.desc.items[n], src, at)
          /\ tree' = Append(tree, Placed(run.desc, n, src, at))
    BY <1>3 DEF CopyItem, Next1
  <2> DEFINE x == Placed(run.desc, n, src, at)
  <2>2. x.at = at /\ x.src = src /\ x.item = run.desc.items[n]
    BY DEF Placed
  <2>3. at = <<>> => IsFile(src, run.desc.items[n].from) \/ ~kept
    BY <2>1 DEF CanPlace
  <2> HIDE DEF x
  <2>4. tree \in Seq(Range(tree)) /\ Alone(tree) /\ kept' = kept
    BY <1>3 DEF CopyItem, Inv, Importing
  <2>5. Alone(Append(tree, x))
    BY <2>2, <2>3, <2>4, AloneGrows
  <2>6. tree' = Append(tree, x)
    BY <2>1 DEF x
  <2> QED
    BY <2>4, <2>5, <2>6 DEF Alone
<1>4. CASE apply_patch
  <2>1. step = "patch" /\ kept' = kept /\ Alone(tree)
    BY <1>4 DEF apply_patch
  <2>2. CASE tree' = tree
    BY <1>0, <2>1, <2>2
  <2>3. ASSUME NEW no, tree' = [tree EXCEPT ![Len(tree)].applied = @ \cup {no}]
        PROVE  Alone(tree)'
    <3>1. CopiedEntry(tree, Len(tree)) /\ tree \in Seq(Range(tree)) /\ Len(tree) # 0
      BY <2>1 DEF Inv, Importing
    <3>2. DOMAIN tree' = DOMAIN tree /\ Len(tree) \in DOMAIN tree
      BY <2>3, <3>1
    <3>3. \A i \in DOMAIN tree : i # Len(tree) => tree'[i] = tree[i]
      BY <2>3, <3>2
    <3> DEFINE x == [tree[Len(tree)] EXCEPT !.applied = @ \cup {no}]
    <3>4. x.item = tree[Len(tree)].item /\ x.src = tree[Len(tree)].src /\ x.at = tree[Len(tree)].at
      BY <3>1 DEF CopiedEntry, Placed
    <3>5. tree'[Len(tree)] = x
      BY <2>3, <3>2
    <3> HIDE DEF x
    <3> QED
      BY <2>1, <3>2, <3>3, <3>4, <3>5 DEF Alone
  <2> QED
    BY <1>4, <2>2, <2>3 DEF apply_patch
<1>5. CASE Begin \/ Reject \/ RemovePatches \/ _export_patches \/ clone_git_repo
             \/ Trouble \/ Outside
  BY <1>5 DEF Inv, Loading, Begin, Reject, RemovePatches, _export_patches, clone_git_repo,
    Trouble, Outside, ExportFails, CloneFails, CopyFails, Crash, CrashInRemoval, EditDesc,
    EditTree, AddPatch, EditLock, CommitAll, Discard, UpstreamMoves, Edit, Idle, End
<1>6. CASE ItemDone \/ OpenLock \/ WriteLock \/ Finish \/ Stage \/ git_add_commit
  BY <1>0, <1>6 DEF ItemDone, OpenLock, WriteLock, Finish, Stage, git_add_commit, End
<1> QED
  BY <1>1, <1>2, <1>3, <1>4, <1>5, <1>6 DEF Next, Work

\* A run that ends well leaves what the description, the lock file and the patches
\* determine, pinned to a commit, with nothing of a removal that failed beside an entry
\* that is the whole target directory: whatever runs, crashes, edits and moves of
\* upstream there were before (vendor.py:677).
THEOREM RunsArePinned == Spec => []SuccessPinned
<1>1. Inv /\ Aside => SuccessPinned
  BY DEF Inv, Aside, SuccessPinned
<1>2. Init => Aside
  BY DEF Init, Aside, Alone
<1> QED
  BY <1>1, <1>2, InvInit, InvNext, AsideNext, PTL DEF Spec

\* No run writes the lock file unless it was asked to update, or there was
\* no lock file when it began.
THEOREM RunsKeepPins == Spec => PinKept
<1>1. Inv /\ [Next]_vars => [(step # "idle" /\ lock' # lock) => run.mayMove]_vars
  BY DEF Inv, Loading, Done, Next, Begin, Reject, Work, Trouble, Outside,
    RemovePatches, _export_patches, clone_git_repo, RemoveTree, CopyItem,
    apply_patch, ItemDone, OpenLock, WriteLock, Finish, Stage, git_add_commit,
    ExportFails, CloneFails, CopyFails, Crash, CrashInRemoval, EditDesc,
    EditTree, AddPatch, EditLock, CommitAll, Discard, UpstreamMoves, Edit,
    Idle, End, world, files, git, process, vars
<1> QED
  BY <1>1, InvInit, InvNext, PTL DEF Spec, PinKept

\* When the lock file is written, the tree is the import of what it names.
THEOREM RunsPinLast == Spec => PinFollowsTree
<1>1. Inv /\ [Next]_vars =>
        [(step # "idle" /\ lock' # lock /\ lock' # TornLock) =>
           Imported(tree, run.desc, lock', patches)]_vars
  BY DEF Inv, Done, Next, Begin, Reject, Work, Trouble, Outside,
    RemovePatches, _export_patches, clone_git_repo, RemoveTree, CopyItem,
    apply_patch, ItemDone, OpenLock, WriteLock, Finish, Stage, git_add_commit,
    ExportFails, CloneFails, CopyFails, Crash, CrashInRemoval, EditDesc,
    EditTree, AddPatch, EditLock, CommitAll, Discard, UpstreamMoves, Edit,
    Idle, End, world, files, git, process, vars
<1> QED
  BY <1>1, InvInit, InvNext, PTL DEF Spec, PinFollowsTree

----------------------------------------------------------------------------
\* What a run that will commit relies on: the directory was clean when it
\* began, and only a refresh takes patches away.
Committing ==
  /\ step \in {"refresh", "export"} => run.refresh
  /\ step # "idle" /\ step # "staged" /\ run.commit =>
       /\ index = head /\ desc = head.desc
       /\ run.refresh \/ head.patches \subseteq patches
  /\ step = "staged" =>
       /\ index.desc = desc /\ index.tree = tree /\ index.lock = lock
       /\ index.patches \subseteq patches

PatchesTyped ==
  /\ series \in Series
  /\ \A ps \in {patches, index.patches, head.patches} : ps \subseteq AllPatches

CommitInv == Inv /\ Committing /\ PatchesTyped /\ CommitRecords

LEMMA PatchesTypedNext == Inv /\ PatchesTyped /\ [Next]_vars => PatchesTyped'
<1> SUFFICES ASSUME Inv, PatchesTyped, [Next]_vars PROVE PatchesTyped'
  OBVIOUS
<1>1. \A nos \in SUBSET series : Numbered(nos) \subseteq AllPatches
  BY PatchDirsAssumption DEF PatchesTyped, Numbered, AllPatches
<1> USE DEF Inv, Disk, IsSnapshot, Snapshot, PatchesTyped, world, files, git, vars
<1>2. CASE UNCHANGED vars
  BY <1>2
<1>3. CASE Begin \/ Reject
  BY <1>3 DEF Begin, Reject
<1>4. CASE Work
  <2>1. CASE _export_patches
    BY <1>1, <2>1 DEF _export_patches
  <2>2. CASE Stage
    <3>1. index'.patches \in {patches, index.patches}
      BY <2>2 DEF Stage
    <3> QED
      BY <2>2, <3>1 DEF Stage
  <2>3. CASE Work /\ ~_export_patches /\ ~Stage
    BY <2>3 DEF Work, RemovePatches, clone_git_repo, RemoveTree, CopyItem,
      apply_patch, ItemDone, OpenLock, WriteLock, Finish, git_add_commit
  <2> QED
    BY <1>4, <2>1, <2>2, <2>3
<1>5. CASE Trouble
  <2>1. CASE ExportFails
    BY <1>1, <2>1 DEF ExportFails
  <2>2. CASE CrashInRemoval
    <3>1. patches' \subseteq patches
      BY <2>2 DEF CrashInRemoval
    <3> QED
      BY <2>2, <3>1 DEF CrashInRemoval
  <2>3. CASE CloneFails \/ CopyFails \/ Crash
    BY <2>3 DEF CloneFails, CopyFails, Crash
  <2> QED
    BY <1>5, <2>1, <2>2, <2>3 DEF Trouble
<1>6. CASE Outside
  <2>1. CASE AddPatch
    <3>1. PICK q \in AllPatches \ patches :
            /\ patches' = patches \cup {q}
            /\ index' = [index EXCEPT !.patches = @ \cup {q}]
      BY <2>1 DEF AddPatch
    <3>2. index'.patches = index.patches \cup {q}
      BY <3>1
    <3> QED
      BY <2>1, <3>1, <3>2 DEF AddPatch
  <2>2. CASE UpstreamMoves
    BY <2>2 DEF UpstreamMoves
  <2>3. CASE EditDesc \/ EditTree \/ EditLock
    BY <2>3 DEF EditDesc, EditTree, EditLock
  <2>4. CASE CommitAll
    BY <2>4 DEF CommitAll
  <2>5. CASE Discard
    <3>1. patches' \in {head.patches, patches \cup head.patches}
      BY <2>5 DEF Discard
    <3> QED
      BY <2>5, <3>1 DEF Discard
  <2> QED
    BY <1>6, <2>1, <2>2, <2>3, <2>4, <2>5 DEF Outside
<1> QED
  BY <1>2, <1>3, <1>4, <1>5, <1>6 DEF Next

LEMMA CommittingNext == Inv /\ Committing /\ [Next]_vars => Committing'
<1> SUFFICES ASSUME Inv, Committing, [Next]_vars PROVE Committing'
  OBVIOUS
<1> USE DEF Committing, world, files, git, vars, process
<1>1. CASE UNCHANGED vars
  BY <1>1
<1>2. CASE Begin
  <2>1. PICK o \in Options : Accepted(o) /\ run' = Loaded(o) /\
          step' = IF o.refresh THEN "refresh" ELSE "clone"
    BY <1>2 DEF Begin
  <2>2. run'.refresh = o.refresh /\ run'.commit = o.commit
    BY <2>1 DEF Loaded
  <2> QED
    BY <1>2, <2>1, <2>2 DEF Begin, Accepted, Clean
<1>3. CASE Stage
  <2>1. index' = [index EXCEPT !.tree = tree, !.lock = lock,
                               !.patches = IF run.refresh THEN patches ELSE @]
        /\ step = "commit" /\ run.commit /\ IsSnapshot(index)
    BY <1>3 DEF Stage, Inv, Disk
  <2>2. /\ index'.tree = tree /\ index'.lock = lock /\ index'.desc = index.desc
        /\ index'.patches = IF run.refresh THEN patches ELSE index.patches
    BY <2>1 DEF IsSnapshot
  <2> QED
    BY <1>3, <2>1, <2>2 DEF Stage
<1>4. CASE Reject \/ (Work /\ ~Stage)
  BY <1>4 DEF Reject, Work, RemovePatches, _export_patches, clone_git_repo,
    RemoveTree, CopyItem, apply_patch, ItemDone, Onward, OpenLock, WriteLock,
    Finish, git_add_commit, End
<1>5. CASE Trouble \/ Outside
  BY <1>5 DEF Trouble, ExportFails, CloneFails, CopyFails, Crash,
    CrashInRemoval, Outside, EditDesc, EditTree, AddPatch, EditLock, CommitAll,
    Discard, UpstreamMoves, Edit, Idle, End
<1> QED
  BY <1>1, <1>2, <1>3, <1>4, <1>5 DEF Next

\* Only git_add_commit makes a commit whose message names a revision.
LEMMA CommitRecordsNext == CommitInv /\ [Next]_vars => CommitRecords'
<1> SUFFICES ASSUME CommitInv, [Next]_vars PROVE CommitRecords'
  OBVIOUS
<1>1. CASE UNCHANGED <<head, message>>
  BY <1>1 DEF CommitInv, CommitRecords
<1>2. CASE message' = NoMessage
  BY <1>2 DEF CommitRecords
<1>3. CASE step = "staged" /\ head' = index /\ message' = src.rev
  <2>1. /\ Imported(tree, run.desc, src, patches) /\ lock = src
        /\ run.desc.items = Desc(desc).items /\ run.desc.exclude = Desc(desc).exclude
        /\ IsUpstream(src) /\ src.url \in Url
    BY <1>3 DEF CommitInv, Inv, Done, Loading, CheckedOut
  <2>2. Imported(tree, Desc(desc), src, patches)
    BY <2>1, ImportedSame
  <2>3. /\ head'.desc = desc /\ head'.tree = tree /\ head'.lock = src
        /\ head'.patches \subseteq patches /\ patches \in SUBSET AllPatches
    BY <1>3, <2>1 DEF CommitInv, Committing, PatchesTyped
  <2>4. src \in [url : Url, rev : {src.rev}, only_subdir : {src.only_subdir}]
    BY <2>1 DEF IsUpstream
  <2> QED
    BY <1>3, <2>2, <2>3, <2>4 DEF CommitRecords
<1> QED
  BY <1>1, <1>2, <1>3 DEF Next, Begin, Reject, Work, Trouble, Outside,
    RemovePatches, _export_patches, clone_git_repo, RemoveTree, CopyItem,
    apply_patch, ItemDone, OpenLock, WriteLock, Finish, Stage, git_add_commit,
    ExportFails, CloneFails, CopyFails, Crash, CrashInRemoval, EditDesc,
    EditTree, AddPatch, EditLock, CommitAll, Discard, UpstreamMoves, Edit,
    Idle, world, files, git, vars

LEMMA CommitInvAlways == Spec => []CommitInv
<1>1. Init => CommitInv
  BY InvInit DEF Init, CommitInv, Committing, PatchesTyped, CommitRecords,
    Snapshot
<1>2. CommitInv /\ [Next]_vars => CommitInv'
  BY InvNext, PatchesTypedNext, CommittingNext, CommitRecordsNext DEF CommitInv
<1> QED
  BY <1>1, <1>2, PTL DEF Spec

\* A commit of the tool holds the tree of the revision it names, imported as
\* its own description says, with every patch it holds.
THEOREM CommitsAreRecorded == Spec => []CommitRecords
BY CommitInvAlways, PTL DEF CommitInv

----------------------------------------------------------------------------
\* The patches outside the mapping's directories are the exported series,
\* from the export of a run that refreshes to its commit.
Root(ps) == {p \in ps : p.dir = <<>>}
Refreshed ==
  /\ step = "export" => Root(patches) = {}
  /\ step \notin {"idle", "refresh", "export"} /\ run.refresh =>
       Root(patches) = Numbered(series)
  /\ step = "staged" =>
       \/ index.patches = head.patches
       \/ index.patches = patches /\ run.refresh

LEMMA RefreshedNext ==
  CommitInv /\ Refreshed /\ [Next]_vars => Refreshed'
<1> SUFFICES ASSUME CommitInv, Refreshed, [Next]_vars PROVE Refreshed'
  OBVIOUS
<1> USE DEF Refreshed, Root, world, files, git, vars, process
<1>1. CASE UNCHANGED vars
  BY <1>1
<1>2. CASE Begin
  <2>1. PICK o \in Options : Accepted(o) /\ run' = Loaded(o) /\
          step' = IF o.refresh THEN "refresh" ELSE "clone"
    BY <1>2 DEF Begin
  <2>2. run'.refresh = o.refresh
    BY <2>1 DEF Loaded
  <2> QED
    BY <1>2, <2>1, <2>2 DEF Begin
<1>3. CASE RemovePatches
  BY <1>3 DEF RemovePatches, End
<1>4. CASE _export_patches
  BY <1>4 DEF _export_patches, Numbered
<1>5. CASE Stage
  <2>1. /\ step = "commit" /\ step' = "staged" /\ run.commit
        /\ index' = [index EXCEPT !.tree = tree, !.lock = lock,
                       !.patches = IF run.refresh THEN patches ELSE @]
        /\ UNCHANGED <<series, patches, head, run>>
    BY <1>5 DEF Stage
  <2>2. IsSnapshot(index) /\ index = head
    BY <2>1 DEF CommitInv, Inv, Disk, Committing
  <2>3. index'.patches = IF run.refresh THEN patches ELSE index.patches
    BY <2>1, <2>2 DEF IsSnapshot
  <2> QED
    BY <2>1, <2>2, <2>3
<1>6. CASE Reject \/ (Work /\ ~RemovePatches /\ ~_export_patches /\ ~Stage)
  BY <1>6 DEF Reject, Work, clone_git_repo, RemoveTree, CopyItem, apply_patch,
    ItemDone, Onward, OpenLock, WriteLock, Finish, git_add_commit, End
<1>7. CASE Trouble \/ Outside
  BY <1>7 DEF Trouble, ExportFails, CloneFails, CopyFails, Crash,
    CrashInRemoval, Outside, EditDesc, EditTree, AddPatch, EditLock, CommitAll,
    Discard, UpstreamMoves, Edit, Idle, End
<1> QED
  BY <1>1, <1>2, <1>3, <1>4, <1>5, <1>6, <1>7 DEF Next

LEMMA RefreshedAlways == Spec => []Refreshed
<1>1. Init => Refreshed
  BY DEF Init, Refreshed
<1> QED
  BY <1>1, CommitInvAlways, RefreshedNext, PTL DEF Spec

\* No commit of the tool holds a series that a refresh left incomplete.
THEOREM SeriesAreKept == Spec => CommitKeepsSeries
<1> DEFINE Kept == \/ head'.patches = head.patches
                   \/ {p.no : p \in {q \in head'.patches : q.dir = <<>>}} \in Series
<1>1. CommitInv /\ Refreshed /\ [Next]_vars =>
        [(step = "staged" /\ head' # head) => Kept]_vars
  <2> SUFFICES ASSUME CommitInv, Refreshed, [Next]_vars,
                      step = "staged", head' # head
               PROVE  Kept
    OBVIOUS
  <2>1. head' = index
    BY DEF Next, Begin, Reject, Work, Trouble, Outside,
      RemovePatches, _export_patches, clone_git_repo, RemoveTree, CopyItem,
      apply_patch, ItemDone, OpenLock, WriteLock, Finish, Stage, git_add_commit,
      ExportFails, CloneFails, CopyFails, Crash, CrashInRemoval, EditDesc,
      EditTree, AddPatch, EditLock, CommitAll, Discard, UpstreamMoves, Edit,
      Idle, world, files, git, process, vars
  <2>2. CASE index.patches = patches /\ run.refresh
    <3>1. {q \in head'.patches : q.dir = <<>>} = Numbered(series)
      BY <2>1, <2>2 DEF Refreshed, Root
    <3>2. {p.no : p \in Numbered(series)} = series
      <4> DEFINE one(n) == [dir |-> <<>>, no |-> n]
      <4>1. \A n : one(n).no = n
        OBVIOUS
      <4> HIDE DEF one
      <4>2. {p.no : p \in {one(n) : n \in series}} = series
        BY <4>1, Zenon
      <4> QED
        BY <4>2 DEF Numbered, one
    <3>3. {p.no : p \in {q \in head'.patches : q.dir = <<>>}} = series
      BY <3>1, <3>2
    <3> QED
      BY <3>3 DEF CommitInv, PatchesTyped
  <2> QED
    BY <2>1, <2>2 DEF Refreshed
<1> QED
  BY <1>1, CommitInvAlways, RefreshedAlways, PTL DEF Spec, CommitKeepsSeries

----------------------------------------------------------------------------
\* The sub-directory to import is not among the keys that can be overridden.
LEMMA SubdirKept ==
  ASSUME NEW d \in Descs, NEW o,
         \A i \in DOMAIN o : define_arg_type(o[i]),
         DescOK(apply_overrides(d, o))
  PROVE  Desc(apply_overrides(d, o)).upstream.only_subdir \in Subdirs
<1> DEFINE e == apply_overrides(d, o)
           keys == {o[i][1] : i \in DOMAIN o}
           section == Field(d, "upstream", <<>>)
           Key(k) == LastValue(o, <<"upstream", k>>, Field(section, k, None))
<1>1. "upstream" \in DOMAIN e
  BY DEF DescOK, FieldOK
<1>2. /\ Desc(e).upstream.only_subdir = Field(e.upstream, "only_subdir", None)
      /\ "only_subdir" \in DOMAIN e.upstream => e.upstream.only_subdir # Mistyped
  BY DEF Desc, Upstream, DescOK, UpstreamOK, FieldOK
<1>3. \A key \in keys : key \in OVERRIDABLE_DESC_KEYS
  BY DEF define_arg_type
<1>4. <<"upstream", "only_subdir">> \notin OVERRIDABLE_DESC_KEYS
  BY DEF OVERRIDABLE_DESC_KEYS
<1>5. \A key \in keys : key[2] # "only_subdir"
  BY <1>3 DEF OVERRIDABLE_DESC_KEYS
<1>6. Key("only_subdir") = Field(section, "only_subdir", None)
  BY <1>3, <1>4 DEF LastValue
<1>7. Field(section, "only_subdir", None) \in Subdirs \cup {Mistyped}
  <2>1. CASE "upstream" \in DOMAIN d
    BY <2>1 DEF Subdirs, Field
  <2>2. CASE "upstream" \notin DOMAIN d
    <3>1. DOMAIN section = {}
      BY <2>2 DEF Field
    <3> HIDE DEF section
    <3> QED
      BY <3>1 DEF Subdirs, Field
  <2> QED
    BY <2>1, <2>2
<1>8. CASE \E key \in keys : key[1] = "upstream"
  <2>1. e.upstream =
          [k \in DOMAIN section \cup {key[2] : key \in {x \in keys : x[1] = "upstream"}}
             |-> Key(k)]
    BY <1>1, <1>8 DEF apply_overrides
  <2> HIDE DEF Key, section, keys
  <2>2. "only_subdir" \in DOMAIN e.upstream <=> "only_subdir" \in DOMAIN section
    BY <1>5, <2>1
  <2>3. CASE "only_subdir" \in DOMAIN section
    BY <1>2, <1>6, <1>7, <2>1, <2>2, <2>3 DEF Field
  <2>4. CASE "only_subdir" \notin DOMAIN section
    BY <1>2, <2>2, <2>4 DEF Field, Subdirs
  <2> QED
    BY <2>3, <2>4
<1>9. CASE ~ \E key \in keys : key[1] = "upstream"
  <2>1. "upstream" \in DOMAIN d /\ e.upstream = d.upstream
    BY <1>1, <1>9 DEF apply_overrides
  <2> QED
    BY <1>2, <2>1 DEF Subdirs, Field
<1> QED
  BY <1>8, <1>9

\* The lock file, its versions in git, and what the process works from.
Typed ==
  /\ \A l \in {lock, index.lock, head.lock} : l \in Locks \cup {NoLock, TornLock}
  /\ step # "idle" => run.desc.upstream.only_subdir \in Subdirs
  /\ step \in {"remove", "copy", "patch", "lock", "write", "commit", "staged"} =>
       src.only_subdir \in Subdirs
  /\ todo \subseteq UNION Series
  /\ result \in {"none", "ok", "failed"}
  /\ step \in {"idle", "refresh", "export", "clone", "remove", "copy",
               "patch", "lock", "write", "commit", "staged"}

LEMMA TypedNext == CommitInv /\ Typed /\ [Next]_vars => Typed'
<1> SUFFICES ASSUME CommitInv, Typed, [Next]_vars PROVE Typed'
  OBVIOUS
<1> USE DEF Typed, world, files, git, vars, process
<1>a. IsSnapshot(index) /\ IsSnapshot(head) /\ PatchesTyped
  BY DEF CommitInv, Inv, Disk
<1>1. CASE UNCHANGED vars
  BY <1>1
<1>2. CASE Begin
  <2>1. PICK o \in Options : Accepted(o) /\ run' = Loaded(o) /\
          step' = IF o.refresh THEN "refresh" ELSE "clone"
    BY <1>2 DEF Begin
  <2>2. Desc(apply_overrides(desc, o.overrides)).upstream.only_subdir \in Subdirs
    BY <2>1, SubdirKept DEF Accepted, CommitInv, Inv, Disk, Sound, Snapshot
  <2>3. LockDesc = lock /\ lock # TornLock
    BY <2>1 DEF Accepted, LockDesc
  <2> DEFINE d == Desc(apply_overrides(desc, o.overrides))
  <2>4. run'.desc.upstream.only_subdir \in Subdirs
    <3>1. CASE o.update \/ lock = NoLock
      BY <2>1, <2>2, <2>3, <3>1 DEF Loaded
    <3>2. CASE ~(o.update \/ lock = NoLock)
      <4>1. run'.desc = [d EXCEPT !.upstream = lock]
        BY <2>1, <2>3, <3>2 DEF Loaded
      <4>2. run'.desc.upstream = lock
        BY <4>1 DEF Desc
      <4>3. lock \in Locks
        BY <2>3, <3>2
      <4> QED
        BY <4>2, <4>3 DEF Locks
    <3> QED
      BY <3>1, <3>2
  <2> QED
    BY <1>2, <2>1, <2>4 DEF Begin
<1>3. CASE clone_git_repo
  <2>1. IsUpstream(run.desc.upstream)
    BY <1>3 DEF clone_git_repo, CommitInv, Inv, Loading
  <2>2. step = "clone" /\ run.desc.upstream.only_subdir \in Subdirs
    BY <1>3 DEF clone_git_repo
  <2>3. \A c : [run.desc.upstream EXCEPT !.rev = c].only_subdir \in Subdirs
    BY <2>1, <2>2 DEF IsUpstream
  <2> QED
    BY <1>3, <2>3 DEF clone_git_repo, End
<1>4. CASE CopyItem
  <2>1. todo' \subseteq UNION Series
    BY <1>4, <1>a DEF CopyItem, SeriesOf, PatchesTyped, AllPatches
  <2> QED
    BY <1>4, <2>1 DEF CopyItem
<1>5. CASE WriteLock
  <2>1. src \in Locks
    BY <1>5 DEF WriteLock, CommitInv, Inv, CheckedOut, IsUpstream, Locks
  <2> QED
    BY <1>5, <2>1 DEF WriteLock
<1>6. CASE Stage
  <2>1. index'.lock = lock
    BY <1>6, <1>a DEF Stage, IsSnapshot
  <2> QED
    BY <1>6, <2>1 DEF Stage
<1>7. CASE AddPatch
  <2>1. index'.lock = index.lock
    BY <1>7, <1>a DEF AddPatch, IsSnapshot
  <2> QED
    BY <1>7, <2>1 DEF AddPatch, Edit, Idle
<1>8. CASE EditLock
  <2>1. \A b \in Branch : lock \in Locks => [lock EXCEPT !.rev = b] \in Locks
    BY DEF Locks
  <2> QED
    BY <1>8, <2>1 DEF EditLock, Edit, Idle
<1>9. CASE Reject \/ Trouble
  BY <1>9 DEF Reject, Trouble, ExportFails, CloneFails, CopyFails, Crash,
    CrashInRemoval, End
<1>10. CASE EditDesc \/ EditTree \/ CommitAll \/ Discard \/ UpstreamMoves
  BY <1>10 DEF EditDesc, EditTree, CommitAll, Discard, UpstreamMoves, Edit,
    Idle, Snapshot
<1>11. CASE RemovePatches \/ _export_patches \/ RemoveTree \/ apply_patch
              \/ ItemDone \/ OpenLock \/ Finish \/ git_add_commit
  BY <1>11 DEF RemovePatches, _export_patches, RemoveTree, apply_patch,
    ItemDone, OpenLock, Finish, git_add_commit, Onward, End
<1> QED
  BY <1>1, <1>2, <1>3, <1>4, <1>5, <1>6, <1>7, <1>8, <1>9, <1>10, <1>11
  DEF Next, Work, Outside

LEMMA TypedAlways == Spec => []Typed
<1>1. Init => Typed
  BY DEF Init, Typed, Snapshot
<1> QED
  BY <1>1, CommitInvAlways, TypedNext, PTL DEF Spec

\* The files and the process keep their types, whatever descriptions,
\* command lines and upstream repositories there are.
THEOREM TypeCorrect == Spec => []TypeOK
<1>1. CommitInv /\ Typed => TypeOK
  BY DEF CommitInv, Inv, Importing, PatchesTyped, Typed, TypeOK
<1> QED
  BY <1>1, CommitInvAlways, TypedAlways, PTL

----------------------------------------------------------------------------
\* What normpath makes of a path: the components that lead out of it come
\* first, if there are any.
Leaves == {"..", "/"}
Normal(path, S) ==
  /\ path \in Seq(S)
  /\ \A k \in DOMAIN path : path[k] \in Leaves => path[1] \in Leaves

LEMMA NormStepNormal ==
  ASSUME NEW S, NEW done, Normal(done, S), NEW part \in S,
         part = "/" => done = <<>>
  PROVE  Normal(NormStep(done, part), S)
<1>1. CASE NormStep(done, part) = done
  BY <1>1
<1>2. CASE /\ part = ".." /\ done # <<>> /\ Last(done) # ".."
           /\ NormStep(done, part) = Front(done)
  <2>1. /\ done \in Seq(S) /\ Len(done) \in Nat \ {0}
    BY <1>2 DEF Normal
  <2>2. /\ Front(done) \in Seq(S) /\ Len(Front(done)) = Len(done) - 1
        /\ \A k \in 1 .. Len(done) - 1 : Front(done)[k] = done[k]
    BY <2>1 DEF Front
  <2> QED
    BY <1>2, <2>1, <2>2 DEF Normal
<1>3. CASE /\ part = ".." => done = <<>> \/ Last(done) = ".."
           /\ NormStep(done, part) = Append(done, part)
  <2>1. /\ done \in Seq(S) /\ Len(done) \in Nat
    BY DEF Normal
  <2>2. /\ Append(done, part) \in Seq(S)
        /\ Len(Append(done, part)) = Len(done) + 1
        /\ Append(done, part)[Len(done) + 1] = part
        /\ \A k \in 1 .. Len(done) : Append(done, part)[k] = done[k]
    BY <2>1, AppendProperties
  <2>3. CASE done = <<>>
    BY <1>3, <2>1, <2>2, <2>3 DEF Normal
  <2>4. CASE done # <<>>
    <3>1. part \in Leaves => done[1] \in Leaves
      BY <1>3, <2>1, <2>4 DEF Normal, Leaves, Last
    <3> QED
      BY <1>3, <2>1, <2>2, <2>4, <3>1 DEF Normal
  <2> QED
    BY <2>3, <2>4
<1> QED
  BY <1>1, <1>2, <1>3 DEF NormStep

\* normpath takes the components one by one.
LEMMA NormPathUnfolds ==
  ASSUME NEW path, Len(path) \in Nat
  PROVE  \E done :
           /\ done = [i \in 0 .. Len(path) |->
                        IF i = 0 THEN <<>> ELSE NormStep(done[i - 1], path[i])]
           /\ normpath(path) = done[Len(path)]
<1> DEFINE Unfolds(g, n) ==
             g = [i \in 0 .. n |-> IF i = 0 THEN <<>> ELSE NormStep(g[i - 1], path[i])]
           S == {n \in Nat : \E g : Unfolds(g, n)}
<1>1. 0 \in S
  <2>1. Unfolds([i \in 0 .. 0 |-> <<>>], 0)
    OBVIOUS
  <2> QED
    BY <2>1
<1>2. \A n \in Nat : n \in S => n + 1 \in S
  <2> SUFFICES ASSUME NEW n \in Nat, NEW g, Unfolds(g, n)
               PROVE  \E h : Unfolds(h, n + 1)
    OBVIOUS
  <2> DEFINE h == [i \in 0 .. n + 1 |->
                     IF i = n + 1 THEN NormStep(g[n], path[n + 1]) ELSE g[i]]
  <2>1. \A i \in 0 .. n : h[i] = g[i]
    OBVIOUS
  <2>2. \A i \in 0 .. n + 1 :
          h[i] = IF i = 0 THEN <<>> ELSE NormStep(h[i - 1], path[i])
    BY <2>1
  <2>3. Unfolds(h, n + 1)
    BY <2>2
  <2> QED
    BY <2>3
<1> HIDE DEF S
<1>3. Len(path) \in S
  BY <1>1, <1>2, SetInduction
<1> DEFINE done == CHOOSE g : Unfolds(g, Len(path))
<1>4. Unfolds(done, Len(path))
  BY <1>3 DEF S
<1>5. normpath(path) = done[Len(path)]
  BY DEF normpath
<1> QED
  BY <1>4, <1>5

\* So it is, when only its first component may be the root.
LEMMA NormPathNormal ==
  ASSUME NEW path, IsPath(path)
  PROVE  Normal(normpath(path), Range(path))
<1> DEFINE N == Len(path)
<1>1. path \in Seq(Range(path)) /\ N \in Nat /\ \A k \in 2 .. N : path[k] # "/"
  BY DEF IsPath
<1>2. PICK done :
        /\ done = [i \in 0 .. N |->
                     IF i = 0 THEN <<>> ELSE NormStep(done[i - 1], path[i])]
        /\ normpath(path) = done[N]
  BY <1>1, NormPathUnfolds
<1> DEFINE T == {n \in Nat : n <= N => Normal(done[n], Range(path))}
<1>3. done[0] = <<>> /\ \A i \in 1 .. N : done[i] = NormStep(done[i - 1], path[i])
  BY <1>1, <1>2
<1>4. 0 \in T
  <2>1. Normal(<<>>, Range(path))
    BY DEF Normal
  <2> QED
    BY <1>3, <2>1
<1>5. \A n \in Nat : n \in T => n + 1 \in T
  <2> SUFFICES ASSUME NEW n \in Nat, n + 1 <= N, Normal(done[n], Range(path))
               PROVE  Normal(done[n + 1], Range(path))
    OBVIOUS
  <2>1. done[n + 1] = NormStep(done[n], path[n + 1]) /\ path[n + 1] \in Range(path)
    BY <1>1, <1>3
  <2>2. path[n + 1] = "/" => done[n] = <<>>
    BY <1>1, <1>3
  <2> QED
    BY <2>1, <2>2, NormStepNormal
<1> HIDE DEF T
<1>6. N \in T
  BY <1>1, <1>4, <1>5, SetInduction
<1>7. Normal(done[N], Range(path))
  BY <1>1, <1>6 DEF T
<1> QED
  BY <1>2, <1>7

----------------------------------------------------------------------------
\* A path that stays where it starts.
Inside(f) == f \in Seq(Range(f)) /\ \A k \in DOMAIN f : f[k] \notin Leaves

LEMMA JoinedInside ==
  ASSUME NEW f, NEW g, Inside(f), Inside(g)
  PROVE  Inside(f \o g)
<1> DEFINE S == Range(f) \cup Range(g)
           h == f \o g
<1>1. f \in Seq(S) /\ g \in Seq(S)
  BY DEF Inside
<1>2. /\ h \in Seq(S) /\ Len(h) = Len(f) + Len(g)
      /\ \A k \in 1 .. Len(f) + Len(g) :
           h[k] = IF k <= Len(f) THEN f[k] ELSE g[k - Len(f)]
  BY <1>1, ConcatProperties
<1>3. Len(f) \in Nat /\ Len(g) \in Nat /\ DOMAIN f = 1 .. Len(f)
      /\ DOMAIN g = 1 .. Len(g)
  BY <1>1
<1> HIDE DEF h, S
<1>4. ASSUME NEW k \in DOMAIN h PROVE h[k] \notin Leaves
  <2>1. k \in 1 .. Len(f) + Len(g)
    BY <1>2
  <2>2. CASE k <= Len(f)
    BY <1>2, <1>3, <2>1, <2>2 DEF Inside
  <2>3. CASE ~(k <= Len(f))
    <3>1. k - Len(f) \in DOMAIN g /\ h[k] = g[k - Len(f)]
      BY <1>2, <1>3, <2>1, <2>3
    <3> QED
      BY <3>1 DEF Inside
  <2> QED
    BY <2>2, <2>3
<1>5. h \in Seq(Range(h))
  BY <1>2 DEF Range
<1> QED
  BY <1>4, <1>5 DEF Inside, h

LEMMA PartInside ==
  ASSUME NEW f, Inside(f), NEW m \in Nat
  PROVE  /\ Inside(SubSeq(f, m + 1, Len(f)))
         /\ m < Len(f) => SubSeq(f, m + 1, Len(f)) # <<>>
<1> DEFINE g == SubSeq(f, m + 1, Len(f))
<1>1. Len(f) \in Nat /\ \A i \in m + 1 .. Len(f) : f[i] \in Range(f)
  BY DEF Inside
<1>2. /\ g \in Seq(Range(f))
      /\ Len(g) = IF m + 1 <= Len(f) THEN Len(f) - (m + 1) + 1 ELSE 0
      /\ \A i \in 1 .. Len(f) - (m + 1) + 1 : g[i] = f[m + 1 + i - 1]
  BY <1>1, SubSeqProperties
<1> HIDE DEF g
<1>3. \A k \in DOMAIN g : g[k] = f[m + k] /\ m + k \in DOMAIN f
  BY <1>1, <1>2 DEF Inside
<1>4. g \in Seq(Range(g))
  BY <1>2 DEF Range
<1>5. m < Len(f) => g # <<>>
  BY <1>1, <1>2
<1> QED
  BY <1>3, <1>4, <1>5 DEF Inside, g

\* What is checked out lies inside the repository.
LEMMA CheckoutInside ==
  ASSUME NEW from, from.rev \in Commit, from.only_subdir \in Subdirs,
         NEW f \in Checkout(from)
  PROVE  Inside(f) /\ f # <<>>
<1>1. \A g \in Files(from.rev) : Inside(g) /\ g # <<>>
  BY FilesAssumption DEF Inside, IsPath, Leaves
<1>2. CASE from.only_subdir = None
  BY <1>1, <1>2 DEF Checkout
<1>3. CASE from.only_subdir # None
  <2> DEFINE n == Len(from.only_subdir)
  <2>1. PICK g \in Files(from.rev) :
          IsStrictPrefix(from.only_subdir, g) /\ f = SubSeq(g, n + 1, Len(g))
    BY <1>3 DEF Checkout
  <2>2. from.only_subdir \in Seq(Range(from.only_subdir)) /\ n \in Nat
    BY <1>3, SubdirsAssumption DEF IsPath
  <2>3. Inside(g) /\ g \in Seq(Range(g)) /\ Len(g) \in Nat
    BY <1>1, <2>1 DEF Inside
  <2>4. n < Len(g)
    <3>1. SubSeq(from.only_subdir, 1, n) = from.only_subdir
      BY <2>2, SubSeqFull
    <3>2. SubSeq(g, 1, Len(g)) = g
      BY <2>3, SubSeqFull
    <3>3. n <= Len(g) /\ n # Len(g)
      BY <2>1, <3>1, <3>2 DEF IsStrictPrefix, IsPrefix
    <3> QED
      BY <2>2, <2>3, <3>3
  <2> QED
    BY <1>1, <2>1, <2>2, <2>4, PartInside
<1> QED
  BY <1>2, <1>3

\* The entries of an accepted description stay inside on both sides.
ItemInside(item) == Inside(item.to) /\ item.from \in Seq(Range(item.from))

LEMMA AcceptedInside ==
  ASSUME NEW d \in Descs, NEW o,
         \A i \in DOMAIN o : define_arg_type(o[i]),
         DescOK(apply_overrides(d, o))
  PROVE  /\ DOMAIN Desc(d).items = 1 .. Len(Desc(d).items)
         /\ \A i \in DOMAIN Desc(d).items : ItemInside(Desc(d).items[i])
<1> DEFINE e == apply_overrides(d, o)
<1>1. "mapping" \in DOMAIN e <=> "mapping" \in DOMAIN d
  BY OverridesKeep
<1>2. "mapping" \in DOMAIN d => e.mapping = d.mapping
  BY OverridesKeep
<1> HIDE DEF e
<1>3. CASE "mapping" \in DOMAIN d
  <2>1. d.mapping # Mistyped /\ \A i \in DOMAIN d.mapping : ItemOK(d.mapping[i])
    BY <1>1, <1>2, <1>3 DEF e, DescOK, FieldOK
  <2>2. d.mapping \in Seq(Range(d.mapping))
    BY <1>3, <2>1, MappingAssumption
  <2>3. Desc(d).items = [i \in DOMAIN d.mapping |-> Item(d.mapping[i])]
    BY <1>3 DEF Desc
  <2>4. ASSUME NEW i \in DOMAIN d.mapping, NEW name \in {"from", "to"}
        PROVE  Inside(normpath(d.mapping[i][name]))
    <3> DEFINE p == d.mapping[i][name]
    <3>1. PathOK(d.mapping[i], name, FALSE) /\ d.mapping[i] # Mistyped
      BY <2>1, <2>4 DEF ItemOK
    <3>2. /\ name \in DOMAIN d.mapping[i] /\ p # Mistyped
          /\ normpath(p) = <<>> \/ Head(normpath(p)) \notin {"/", ".."}
      BY <3>1 DEF PathOK, FieldOK
    <3>3. IsPath(p)
      BY <1>3, <2>1, <3>1, <3>2, PathsAssumption
    <3> HIDE DEF p
    <3>4. Normal(normpath(p), Range(p))
      BY <3>3, NormPathNormal
    <3>5. normpath(p) \in Seq(Range(p)) /\ normpath(p) \in Seq(Range(normpath(p)))
      BY <3>4, OwnElements DEF Normal
    <3>6. \A k \in DOMAIN normpath(p) : normpath(p)[k] \notin Leaves
      BY <3>2, <3>4, <3>5 DEF Normal, Leaves
    <3> QED
      BY <3>5, <3>6 DEF Inside, p
  <2>5. \A i \in DOMAIN d.mapping : ItemInside(Item(d.mapping[i]))
    BY <2>4 DEF Item, ItemInside, Inside
  <2> QED
    BY <2>2, <2>3, <2>5
<1>4. CASE "mapping" \notin DOMAIN d
  <2>1. Desc(d).items = <<make_default("patch_dir" \in DOMAIN d)>>
    BY <1>4 DEF Desc
  <2>2. \A b : ItemInside(make_default(b))
    BY DEF make_default, ItemInside, Inside
  <2> QED
    BY <2>1, <2>2
<1> QED
  BY <1>3, <1>4

\* An entry that was placed inside, and a tree of such entries and scrap.
EntryInside(e) ==
  /\ e.src.rev \in Commit /\ e.src.only_subdir \in Subdirs
  /\ e.item.from \in Seq(Range(e.item.from))
  /\ Inside(e.at)
TreeInside(t) ==
  /\ t \in Seq(Range(t))
  /\ \A i \in DOMAIN t : t[i] = Scrap \/ EntryInside(t[i])

Placing ==
  /\ \A t \in {tree, index.tree, head.tree} : TreeInside(t)
  /\ step = "patch" => EntryInside(tree[Len(tree)])
  /\ step # "idle" =>
       /\ DOMAIN run.desc.items = 1 .. Len(run.desc.items)
       /\ \A i \in DOMAIN run.desc.items : ItemInside(run.desc.items[i])

LEMMA TreeGrows ==
  ASSUME NEW t, TreeInside(t), NEW x, x = Scrap \/ EntryInside(x)
  PROVE  TreeInside(Append(t, x))
<1>1. /\ Append(t, x) \in Seq(Range(Append(t, x)))
      /\ Len(Append(t, x)) = Len(t) + 1 /\ Append(t, x)[Len(t) + 1] = x
      /\ \A i \in 1 .. Len(t) : Append(t, x)[i] = t[i]
  BY Appended DEF TreeInside
<1>2. Len(t) \in Nat /\ DOMAIN t = 1 .. Len(t)
      /\ DOMAIN Append(t, x) = 1 .. Len(t) + 1
  BY <1>1 DEF TreeInside
<1>3. \A i \in 1 .. Len(t) + 1 : Append(t, x)[i] = Scrap \/ EntryInside(Append(t, x)[i])
  BY <1>1, <1>2 DEF TreeInside
<1> QED
  BY <1>1, <1>2, <1>3 DEF TreeInside

LEMMA PlacedInside ==
  ASSUME NEW d, NEW n, ItemInside(d.items[n]), NEW t,
         NEW from, from.rev \in Commit, from.only_subdir \in Subdirs
  PROVE  \A at \in Landings(t, d.items[n], from) : EntryInside(Placed(d, n, from, at))
<1> DEFINE item == d.items[n]
<1>1. \A at \in Landings(t, item, from) : Inside(at)
  <2>1. CASE IsFile(from, item.from)
    <3>1. Inside(item.from) /\ item.from # <<>>
      BY <2>1, CheckoutInside DEF IsFile
    <3>2. Last(item.from) \notin Leaves
      BY <3>1 DEF Last, Inside
    <3>3. Inside(<<Last(item.from)>>)
      BY <3>2, Single DEF Inside
    <3>4. Inside(item.to \o <<Last(item.from)>>)
      BY <3>3, JoinedInside DEF ItemInside
    <3> QED
      BY <3>4 DEF Landings, ItemInside
  <2>2. CASE ~IsFile(from, item.from)
    BY <2>2 DEF Landings, ItemInside
  <2> QED
    BY <2>1, <2>2
<1> QED
  BY <1>1 DEF Placed, EntryInside, ItemInside

LEMMA PlacingNext == CommitInv /\ Typed /\ Placing /\ [Next]_vars => Placing'
<1> SUFFICES ASSUME CommitInv, Typed, Placing, [Next]_vars PROVE Placing'
  OBVIOUS
<1> USE DEF Placing, world, files, git, vars, process
<1>a. IsSnapshot(index) /\ IsSnapshot(head)
  BY DEF CommitInv, Inv, Disk
<1>b. TreeInside(<<>>) /\ TreeInside(<<Scrap>>)
  BY Single DEF TreeInside
<1>1. CASE UNCHANGED vars
  BY <1>1
<1>2. CASE Begin
  <2>1. PICK o \in Options : Accepted(o) /\ run' = Loaded(o) /\
          step' = IF o.refresh THEN "refresh" ELSE "clone"
    BY <1>2 DEF Begin
  <2> DEFINE d == Desc(apply_overrides(desc, o.overrides))
  <2>2. desc \in Descs
    BY DEF CommitInv, Inv, Disk, Sound, Snapshot
  <2>3. d.items = Desc(desc).items
    BY <2>1, <2>2, ImportsAsDescribed DEF Accepted
  <2>4. run'.desc.items = d.items
    BY <2>1 DEF Loaded, Desc
  <2>5. /\ DOMAIN run'.desc.items = 1 .. Len(run'.desc.items)
        /\ \A i \in DOMAIN run'.desc.items : ItemInside(run'.desc.items[i])
    BY <2>1, <2>2, <2>3, <2>4, AcceptedInside DEF Accepted
  <2> QED
    BY <1>2, <2>1, <2>5 DEF Begin
<1>3. CASE CopyItem
  <2> DEFINE n == Len(tree) + 1
  <2>0. PICK at \in Landings(tree, run.desc.items[n], src) :
          tree' = Append(tree, Placed(run.desc, n, src, at))
    BY <1>3 DEF CopyItem, Next1
  <2> DEFINE x == Placed(run.desc, n, src, at)
  <2>1. step = "copy" /\ tree' = Append(tree, x) /\ Len(tree) \in Nat
    BY <1>3, <2>0 DEF CopyItem, TreeInside
  <2>2. src.rev \in Commit /\ src.only_subdir \in Subdirs
    BY <2>1 DEF CommitInv, Inv, CheckedOut, Typed
  <2>3. Len(tree) < Len(run.desc.items) /\ Len(run.desc.items) \in Nat
    BY <2>1 DEF CommitInv, Inv, Importing, Loading
  <2>4. ItemInside(run.desc.items[n])
    BY <2>1, <2>3
  <2>5. EntryInside(x)
    BY <2>2, <2>4, PlacedInside
  <2> HIDE DEF x
  <2>6. TreeInside(tree')
    BY <2>1, <2>5, TreeGrows
  <2>7. tree'[Len(tree')] = x
    BY <2>1, Appended DEF TreeInside
  <2> QED
    BY <1>3, <2>5, <2>6, <2>7 DEF CopyItem
<1>4. CASE apply_patch
  <2> DEFINE n == Len(tree)
  <2>1. step = "patch"
    BY <1>4 DEF apply_patch
  <2>2. CASE tree' = tree
    BY <1>4, <2>2 DEF apply_patch, End
  <2>3. ASSUME NEW no, tree' = [tree EXCEPT ![n].applied = @ \cup {no}], step' = step
        PROVE  Placing'
    <3> DEFINE x == [tree[n] EXCEPT !.applied = @ \cup {no}]
    <3>1. CopiedEntry(tree, n) /\ n \in DOMAIN tree
      BY <2>1 DEF CommitInv, Inv, Importing
    <3>2. x.item = tree[n].item /\ x.src = tree[n].src /\ x.at = tree[n].at
      BY <3>1 DEF CopiedEntry, Placed
    <3>3. EntryInside(x)
      BY <2>1, <3>2 DEF EntryInside
    <3>4. tree' = [tree EXCEPT ![n] = x] /\ tree \in Seq(Range(tree))
      BY <2>3 DEF TreeInside
    <3> HIDE DEF x, n
    <3>5. /\ tree' \in Seq(Range(tree')) /\ Len(tree') = n /\ tree'[n] = x
          /\ \A i \in DOMAIN tree \ {n} : tree'[i] = tree[i]
      <4> DEFINE u == [tree EXCEPT ![n] = x]
      <4>1. /\ u \in Seq(Range(u)) /\ Len(u) = Len(tree) /\ u[n] = x
            /\ \A i \in DOMAIN tree \ {n} : u[i] = tree[i]
        BY <3>1, <3>4, Replaced
      <4> QED
        BY <3>4, <4>1 DEF n
    <3>6. DOMAIN tree' = DOMAIN tree
      BY <3>4
    <3>7. TreeInside(tree')
      BY <3>3, <3>5, <3>6 DEF TreeInside
    <3> QED
      BY <1>4, <3>3, <3>5, <3>7 DEF apply_patch, End
  <2> QED
    BY <1>4, <2>2, <2>3 DEF apply_patch
<1>5. CASE Stage
  <2>1. index'.tree = tree
    BY <1>5, <1>a DEF Stage, IsSnapshot
  <2> QED
    BY <1>5, <2>1 DEF Stage
<1>6. CASE AddPatch
  <2>1. index'.tree = index.tree
    BY <1>6, <1>a DEF AddPatch, IsSnapshot
  <2> QED
    BY <1>6, <2>1 DEF AddPatch, Edit, Idle
<1>7. CASE EditTree \/ CopyFails
  BY <1>7, TreeGrows DEF EditTree, CopyFails, Edit, Idle, End
<1>8. CASE RemoveTree \/ CrashInRemoval
  BY <1>8, <1>b DEF RemoveTree, Onward, CrashInRemoval, End
<1>9. CASE Reject \/ ExportFails \/ CloneFails \/ Crash
  BY <1>9 DEF Reject, ExportFails, CloneFails, Crash, End
<1>10. CASE EditDesc \/ EditLock \/ CommitAll \/ Discard \/ UpstreamMoves
  BY <1>10 DEF EditDesc, EditLock, CommitAll, Discard, UpstreamMoves, Edit,
    Idle, Snapshot
<1>11. CASE RemovePatches \/ _export_patches \/ clone_git_repo
              \/ ItemDone \/ OpenLock \/ WriteLock \/ Finish \/ git_add_commit
  BY <1>11 DEF RemovePatches, _export_patches, clone_git_repo, ItemDone,
    OpenLock, WriteLock, Finish, git_add_commit, Onward, End
<1> QED
  BY <1>1, <1>2, <1>3, <1>4, <1>5, <1>6, <1>7, <1>8, <1>9, <1>10, <1>11
  DEF Next, Work, Trouble, Outside

\* The files of an entry that is placed inside are inside.
LEMMA CopiedInside ==
  ASSUME NEW e, EntryInside(e), NEW f \in Copied(e)
  PROVE  Inside(f)
<1>1. CASE IsFile(e.src, e.item.from)
  BY <1>1 DEF Copied, EntryInside
<1>2. CASE ~IsFile(e.src, e.item.from)
  <2>1. PICK g \in Checkout(e.src) :
          f = e.at \o SubSeq(g, Len(e.item.from) + 1, Len(g))
    BY <1>2 DEF Copied
  <2>2. Inside(g) /\ Len(e.item.from) \in Nat
    BY CheckoutInside DEF EntryInside
  <2>3. Inside(SubSeq(g, Len(e.item.from) + 1, Len(g)))
    BY <2>2, PartInside
  <2> QED
    BY <2>1, <2>3, JoinedInside DEF EntryInside
<1> QED
  BY <1>1, <1>2

\* No file lands outside the target directory, however the paths of the
\* mapping are written.
THEOREM WritesStayInside == Spec => []WritesInside
<1>1. Init => Placing
  BY DEF Init, Placing, Snapshot, TreeInside
<1>2. Placing => WritesInside
  <2> SUFFICES ASSUME Placing, NEW i \in DOMAIN tree, tree[i] # Scrap,
                      NEW f \in Copied(tree[i])
               PROVE  \A k \in DOMAIN f : f[k] \notin {"..", "/"}
    BY DEF WritesInside
  <2>1. EntryInside(tree[i])
    BY DEF Placing, TreeInside
  <2> QED
    BY <2>1, CopiedInside DEF Inside, Leaves
<1> QED
  BY <1>1, <1>2, PlacingNext, CommitInvAlways, TypedAlways, PTL DEF Spec

============================================================================
