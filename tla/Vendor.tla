------------------------------ MODULE Vendor ------------------------------
(* util/vendor.py: copying an upstream repository into this one.           *)
(* A run loads the description and the lock file, may refresh the patches  *)
(* from the patch repository, clones upstream, replaces the target tree,   *)
(* patches it item by item, writes the lock file and may commit.  Each     *)
(* action is one call that changes the disk or the process's course; the   *)
(* process may be cut short between any two of them.  Around the runs, the *)
(* user edits and commits, and the upstream repositories move.             *)
EXTENDS VendorDesc, Integers, FiniteSets, FiniteSetsExt

CONSTANTS
  Url, Commit, Branch,  \* upstream repositories, their commits and branches
  Files(_),             \* the files of a commit, as a set of paths
  Has,                  \* the pairs <<url, commit>> a clone can check out
  Fits,                 \* the pairs <<patch number, commit>> that apply
  PatchDirs,            \* where patches may lie, below the patch directory
  Series,               \* the patch series a patch repository may hold
  Descs,                \* the descriptions the user may write
  Options,              \* the command lines the user may give
  NoLock, TornLock,     \* no lock file; one that is cut off
  Scrap,                \* what is in the tree and was not imported whole
  NoMessage,            \* the last commit is the user's
  MaxEdits              \* bound: how often the world around the runs changes

ASSUME SeriesAssumption == \A s \in Series : s \subseteq Nat /\ IsFiniteSet(s)
ASSUME HasAssumption == Has \subseteq Url \X Commit
ASSUME PatchDirsAssumption == <<>> \in PatchDirs
ASSUME MappingAssumption ==   \* what is no list has the wrong type
  \A d \in Descs : "mapping" \in DOMAIN d =>
    d.mapping = Mistyped \/ d.mapping \in Seq(Range(d.mapping))
(* The sub-directories that a description may name as the one to import.   *)
Subdirs ==
  {None} \cup ({Field(d.upstream, "only_subdir", None) :
                  d \in {x \in Descs : "upstream" \in DOMAIN x}} \ {Mistyped})

ASSUME SubdirsAssumption == \A s \in Subdirs : s = None \/ IsPath(s)
ASSUME PathsAssumption ==     \* only the first component may be the root
  \A d \in Descs : "mapping" \in DOMAIN d /\ d.mapping # Mistyped =>
    \A i \in DOMAIN d.mapping : d.mapping[i] # Mistyped =>
      \A name \in {"from", "to"} \cap DOMAIN d.mapping[i] :
        \/ d.mapping[i][name] = Mistyped
        \/ IsPath(d.mapping[i][name])
ASSUME FilesAssumption ==     \* git records no file outside its repository
  \A c \in Commit : \A f \in Files(c) :
    f # <<>> /\ IsPath(f) /\ \A k \in DOMAIN f : f[k] \notin {"..", "/"}
ASSUME OptionsAssumption ==
  \A o \in Options : {o.update, o.refresh, o.commit} \subseteq BOOLEAN
ASSUME LockAssumption == NoLock # TornLock

VARIABLES
  refs, series,         \* upstream branches; the patch repository's series
  desc, lock, tree, patches,  \* the working directory
  kept,                 \* files a removal left may lie beside the tree's
  index, head,          \* what is staged, what is committed
  message,              \* the revision the last commit's message names
  step, run, src, todo, \* the process: where it is, what it has loaded
  result,               \* how the last run ended
  edits                 \* how often the world has changed

world == <<refs, series>>
files == <<desc, lock, tree, patches, kept>>
git == <<index, head, message>>
process == <<step, run, src, todo, result>>
vars == <<world, files, git, process, edits>>

AllPatches == [dir : PatchDirs, no : UNION Series]

(* An imported item: the mapping entry, the checkout it was copied from,   *)
(* what was left out, which patches were applied to it, and where it lies. *)
Placed(d, i, from, at) ==
  [item |-> d.items[i], src |-> from, exclude |-> d.exclude,
   applied |-> {}, at |-> at]

(* The patches of an item: the directory is relative to the global one.    *)
SeriesOf(d, i, ps) ==
  IF d.items[i].patch_dir = None THEN {}
  ELSE {p.no : p \in {q \in ps : q.dir = d.items[i].patch_dir}}

(* The tree is what importing from a checkout makes: entry by entry, each  *)
(* with all its patches (where an entry lies follows from those before).   *)
Imported(t, d, from, ps) ==
  /\ Len(t) = Len(d.items)
  /\ \A i \in DOMAIN t :
       /\ t[i] = [Placed(d, i, from, t[i].at) EXCEPT !.applied = t[i].applied]
       /\ t[i].applied = SeriesOf(d, i, ps)

---------------------------------------------------------------------------
(* The checkout of a commit, seen from the sub-directory that is imported. *)
Checkout(from) ==
  IF from.only_subdir = None THEN Files(from.rev)
  ELSE {SubSeq(f, Len(from.only_subdir) + 1, Len(f)) :
          f \in {g \in Files(from.rev) : IsStrictPrefix(from.only_subdir, g)}}

IsFile(from, path) == path \in Checkout(from)
IsDir(from, path) ==
  path = <<>> \/ \E f \in Checkout(from) : IsStrictPrefix(path, f)

ignore_patterns(path, from, patterns) ==
  \E p \in patterns : IsStrictPrefix(from, p) /\ IsPrefix(p, path)

(* Where the files of a placed item lie, relative to the target directory. *)
Copied(p) ==
  IF IsFile(p.src, p.item.from) THEN {p.at}
  ELSE {p.at \o SubSeq(f, Len(p.item.from) + 1, Len(f)) :
          f \in {g \in Checkout(p.src) :
                   /\ IsPrefix(p.item.from, g)
                   /\ ~ignore_patterns(g, p.item.from, p.exclude)}}

FilesIn(t) == UNION {Copied(t[i]) : i \in DOMAIN t}
DirIn(t, path) ==
  \/ \E f \in FilesIn(t) : IsStrictPrefix(path, f)
  \/ \E i \in DOMAIN t : IsPrefix(path, t[i].at) /\ path \notin Copied(t[i])

(* Mapping1.import_from_upstream: a file lands inside a directory that has *)
(* its name, be it one of the files kept, and may overwrite a file; a      *)
(* directory must be new.                                                  *)
Landings(t, item, from) ==
  IF ~IsFile(from, item.from) THEN {item.to}
  ELSE (IF DirIn(t, item.to) THEN {} ELSE {item.to})
         \cup (IF kept \/ DirIn(t, item.to) THEN {item.to \o <<Last(item.from)>>} ELSE {})

CanPlace(t, item, from, at) ==
  /\ \A f \in FilesIn(t) : ~IsStrictPrefix(f, at)
  /\ ~DirIn(t, at)
  /\ \/ IsFile(from, item.from)
     \/ /\ IsDir(from, item.from) /\ at \notin FilesIn(t)
        /\ at # <<>> \/ ~kept

---------------------------------------------------------------------------
Snapshot == [desc |-> desc, lock |-> lock, tree |-> tree, patches |-> patches]

Init ==
  /\ refs \in [Url -> [Branch -> Commit]]
  /\ \A u \in Url, b \in Branch : <<u, refs[u][b]>> \in Has
  /\ series \in Series
  /\ desc \in Descs
  /\ lock = NoLock /\ tree = <<>> /\ patches = {} /\ kept = FALSE
  /\ index = Snapshot /\ head = Snapshot /\ message = NoMessage
  /\ step = "idle" /\ run = None /\ src = None /\ todo = {}
  /\ result = "none" /\ edits = 0

(* Fault: only the tree and the lock file are looked at.                   *)
CleanImport ==
  /\ index = head
  /\ head.lock # NoLock => lock = head.lock
  /\ head.tree # <<>> => tree = head.tree

(* git_is_clean_workdir: tracked files only.  A tree that merely gained    *)
(* files counts as changed here; a run would remove them first anyway.     *)
Clean ==
  /\ index = head /\ desc = head.desc
  /\ head.lock # NoLock => lock = head.lock
  /\ head.patches \subseteq patches
  /\ head.tree # <<>> => tree = head.tree

(* Fault: a lock file that is cut off counts as none.                      *)
LockDescLenient == IF lock = TornLock THEN NoLock ELSE lock

(* What the run reads from the lock file.                                  *)
LockDesc == lock

Accepted(o) ==
  /\ \A i \in DOMAIN o.overrides : define_arg_type(o.overrides[i])
  /\ DescOK(apply_overrides(desc, o.overrides))
  /\ LockDesc # TornLock
  /\ o.commit => Clean

(* Without a lock file the run updates; with one and no --update it uses   *)
(* the upstream the lock file names.                                       *)
Loaded(o) ==
  LET d == Desc(apply_overrides(desc, o.overrides))
      update == o.update \/ LockDesc = NoLock
  IN  [update |-> update, refresh |-> o.refresh, commit |-> o.commit,
       lock |-> LockDesc,
       desc |-> IF update THEN d ELSE [d EXCEPT !.upstream = LockDesc],
       mayMove |-> o.update \/ lock = NoLock]  \* for PinKept only

Begin ==
  /\ step = "idle"
  /\ \E o \in Options :
       /\ Accepted(o)
       /\ run' = Loaded(o)
       /\ step' = IF o.refresh THEN "refresh" ELSE "clone"
  /\ result' = "none" /\ todo' = {}
  /\ UNCHANGED <<world, files, git, src, edits>>

Reject ==
  /\ step = "idle"
  /\ \E o \in Options : ~Accepted(o)
  /\ result' = "failed"
  /\ UNCHANGED <<world, files, git, step, run, src, todo, edits>>

(* The process ends, and its memory and checkout go.                       *)
End(outcome) ==
  /\ step' = "idle" /\ result' = outcome
  /\ run' = None /\ src' = None /\ todo' = {}

(* refresh_patches: the old patches go before the new ones are there.      *)
Numbered(nos) == {[dir |-> <<>>, no |-> n] : n \in nos}

RemovePatches ==
  /\ step = "refresh"
  /\ IF run.desc.patch_repo = None
     THEN End("failed") /\ UNCHANGED patches
     ELSE /\ patches' = {p \in patches : p.dir # <<>>}
          /\ step' = "export" /\ UNCHANGED <<run, src, todo, result>>
  /\ UNCHANGED <<world, kept, desc, lock, tree, git, edits>>

_export_patches ==
  /\ step = "export"
  /\ patches' = patches \cup Numbered(series)
  /\ step' = "clone"
  /\ UNCHANGED <<world, kept, desc, lock, tree, git, run, src, todo, result, edits>>

(* Fault: the export's exit status is ignored.                             *)
ExportUnchecked ==
  /\ step = "export"
  /\ \E got \in SUBSET series : patches' = patches \cup Numbered(got)
  /\ step' = "clone"
  /\ UNCHANGED <<world, kept, desc, lock, tree, git, run, src, todo, result, edits>>

ExportFails ==
  /\ step = "export"
  /\ \E got \in SUBSET series : patches' = patches \cup Numbered(got)
  /\ End("failed")
  /\ UNCHANGED <<world, kept, desc, lock, tree, git, edits>>

(* clone_git_repo, and the checks on what it checked out.                  *)
Resolve(u) ==
  {c \in Commit : <<u.url, c>> \in Has
     /\ c = IF u.rev \in Branch THEN refs[u.url][u.rev] ELSE u.rev}

(* Fault: the locked revision is not compared with the checkout.           *)
UsableUnlocked(u, c) ==
  u.only_subdir # None =>
    IsDir([u EXCEPT !.rev = c, !.only_subdir = None], u.only_subdir)

Usable(u, c) ==
  /\ run.update \/ c = run.lock.rev
  /\ u.only_subdir # None =>
       IsDir([u EXCEPT !.rev = c, !.only_subdir = None], u.only_subdir)

clone_git_repo ==
  /\ step = "clone"
  /\ \E c \in Resolve(run.desc.upstream) :
       IF Usable(run.desc.upstream, c)
       THEN /\ src' = [run.desc.upstream EXCEPT !.rev = c]
            /\ step' = "remove" /\ UNCHANGED <<run, todo, result>>
       ELSE End("failed")
  /\ UNCHANGED <<world, files, git, edits>>

CloneFails ==
  /\ step = "clone" /\ End("failed")
  /\ UNCHANGED <<world, files, git, edits>>

---------------------------------------------------------------------------
(* Desc.import_from_upstream.                                              *)
(* Fault: one entry too many.                                              *)
OnwardOneMore ==
  IF Len(tree') <= Len(run.desc.items) THEN "copy"
  ELSE IF run.update THEN "lock" ELSE "commit"

Onward == IF Len(tree') < Len(run.desc.items) THEN "copy"
          ELSE IF run.update THEN "lock" ELSE "commit"

(* rmtree ignores its errors: what it cannot delete stays, and the run     *)
(* goes on.                                                                *)
RemoveTree ==
  /\ step = "remove"
  /\ tree' = <<>> /\ step' = Onward
  /\ kept' \in IF kept \/ tree # <<>> THEN BOOLEAN ELSE {FALSE}
  /\ UNCHANGED <<world, desc, lock, patches, git, run, src, todo, result, edits>>

Next1 == Len(tree) + 1  \* the item to copy

CopyItem ==
  /\ step = "copy"
  /\ \E at \in Landings(tree, run.desc.items[Next1], src) :
       /\ CanPlace(tree, run.desc.items[Next1], src, at)
       /\ tree' = Append(tree, Placed(run.desc, Next1, src, at))
  /\ todo' = SeriesOf(run.desc, Next1, patches)
  /\ step' = "patch"
  /\ UNCHANGED <<world, kept, desc, lock, patches, git, run, src, result, edits>>

CopyFails ==
  /\ step = "copy"
  /\ tree' \in {tree, Append(tree, Scrap)}
  /\ End("failed")
  /\ UNCHANGED <<world, kept, desc, lock, patches, git, edits>>

(* git apply is all or nothing; patches go in the order of their names.    *)
apply_patch ==
  /\ step = "patch"
  /\ \E no \in todo :
       /\ \A m \in todo : no <= m
       /\ IF <<no, src.rev>> \in Fits
          THEN /\ tree' = [tree EXCEPT ![Len(tree)].applied = @ \cup {no}]
               /\ todo' = todo \ {no}
               /\ UNCHANGED <<step, run, src, result>>
          ELSE End("failed") /\ UNCHANGED tree
  /\ UNCHANGED <<world, kept, desc, lock, patches, git, edits>>

ItemDone ==
  /\ step = "patch" /\ todo = {}
  /\ UNCHANGED <<world, files, git, run, src, todo, result, edits>>
  /\ step' = Onward

(* Opening the lock file for writing empties it.                           *)
OpenLock ==
  /\ step = "lock"
  /\ lock' = TornLock /\ step' = "write"
  /\ UNCHANGED <<world, kept, desc, tree, patches, git, run, src, todo, result, edits>>

(* Fault: the branch is written, not the commit it led to.                 *)
WriteLockBranch ==
  /\ step = "write"
  /\ lock' = run.desc.upstream /\ step' = "commit"
  /\ UNCHANGED <<world, kept, desc, tree, patches, git, run, src, todo, result, edits>>

WriteLock ==
  /\ step = "write"
  /\ lock' = src /\ step' = "commit"
  /\ UNCHANGED <<world, kept, desc, tree, patches, git, run, src, todo, result, edits>>

(* git_add_commit: what is staged stays staged when the commit is refused, *)
(* which is only a warning.                                                *)
Finish ==
  /\ step = "commit" /\ ~run.commit
  /\ End("ok")
  /\ UNCHANGED <<world, files, git, edits>>

Stage ==
  /\ step = "commit" /\ run.commit
  /\ index' = [index EXCEPT !.tree = tree, !.lock = lock,
                            !.patches = IF run.refresh THEN patches ELSE @]
  /\ step' = "staged"
  /\ UNCHANGED <<world, files, head, message, run, src, todo, result, edits>>

git_add_commit ==
  /\ step = "staged"
  /\ \/ index # head /\ head' = index /\ message' = src.rev
     \/ UNCHANGED <<head, message>>
  /\ End("ok")
  /\ UNCHANGED <<world, files, index, edits>>

(* The process is killed, or the machine stops; within a call, what the    *)
(* call had done so far remains.                                           *)
Crash ==
  /\ step # "idle" /\ End("failed")
  /\ UNCHANGED <<world, files, git, edits>>

CrashInRemoval ==
  /\ \/ /\ step = "refresh" /\ run.desc.patch_repo # None
        /\ \E rest \in SUBSET {p \in patches : p.dir = <<>>} :
             patches' = {p \in patches : p.dir # <<>>} \cup rest
        /\ UNCHANGED tree
     \/ step = "remove" /\ tree' = <<Scrap>> /\ UNCHANGED patches
  /\ End("failed")
  /\ UNCHANGED <<world, kept, desc, lock, git, edits>>

Work == \/ RemovePatches \/ _export_patches \/ clone_git_repo \/ RemoveTree
        \/ CopyItem \/ apply_patch \/ ItemDone \/ OpenLock \/ WriteLock
        \/ Finish \/ Stage \/ git_add_commit

Trouble == ExportFails \/ CloneFails \/ CopyFails \/ Crash \/ CrashInRemoval

---------------------------------------------------------------------------
(* Between runs.                                                           *)
Idle == /\ step = "idle" /\ result' = "none"
        /\ UNCHANGED <<step, run, src, todo>>
Edit == Idle /\ edits < MaxEdits /\ edits' = edits + 1

EditDesc ==
  /\ Edit /\ desc' \in Descs \ {desc}
  /\ UNCHANGED <<world, kept, lock, tree, patches, git>>

EditTree ==
  /\ Edit /\ tree' = Append(tree, Scrap)
  /\ UNCHANGED <<world, kept, desc, lock, patches, git>>

(* A patch is added to the directory of a mapping entry, and to git.       *)
AddPatch ==
  /\ Edit
  /\ \E d \in {desc.mapping[i].patch_dir :
                 i \in {j \in DOMAIN Field(desc, "mapping", <<>>) :
                          "patch_dir" \in DOMAIN desc.mapping[j]}} :
       \E p \in AllPatches \ patches :
         /\ p.dir = normpath(d)
         /\ patches' = patches \cup {p}
         /\ index' = [index EXCEPT !.patches = @ \cup {p}]
  /\ UNCHANGED <<world, kept, desc, lock, tree, head, message>>

(* The lock file is edited by hand to name a branch, or removed.           *)
EditLock ==
  /\ Edit /\ lock # NoLock
  /\ \/ lock # TornLock /\ \E b \in Branch : lock' = [lock EXCEPT !.rev = b]
     \/ lock' = NoLock
  /\ UNCHANGED <<world, kept, desc, tree, patches, git>>

CommitAll ==
  /\ Idle /\ Snapshot # head
  /\ index' = Snapshot /\ head' = Snapshot /\ message' = NoMessage
  /\ UNCHANGED <<world, files, edits>>

(* git stash, with or without the untracked files.                         *)
Discard ==
  /\ Idle /\ (Snapshot # head \/ index # head)
  /\ desc' = head.desc /\ index' = head
  /\ \/ lock' = head.lock /\ tree' = head.tree /\ patches' = head.patches
     \/ /\ lock' = IF head.lock = NoLock THEN lock ELSE head.lock
        /\ tree' = IF head.tree = <<>> THEN tree ELSE head.tree
        /\ patches' = patches \cup head.patches
  /\ UNCHANGED <<world, kept, head, message, edits>>

UpstreamMoves ==
  /\ Edit
  /\ \/ \E u \in Url, b \in Branch, c \in Commit :
          /\ <<u, c>> \in Has /\ refs[u][b] # c
          /\ refs' = [refs EXCEPT ![u][b] = c]
          /\ UNCHANGED series
     \/ series' \in Series \ {series} /\ UNCHANGED refs
  /\ UNCHANGED <<files, git>>

Outside == \/ EditDesc \/ EditTree \/ AddPatch \/ EditLock \/ CommitAll
           \/ Discard \/ UpstreamMoves

Next == Begin \/ Reject \/ Work \/ Trouble \/ Outside
Spec == Init /\ [][Next]_vars

---------------------------------------------------------------------------
Locks == [url : Url, rev : Commit \cup Branch, only_subdir : Subdirs]

(* Types of the files and of the process.                                  *)
TypeOK ==
  /\ lock \in Locks \cup {NoLock, TornLock}
  /\ head.lock \in Locks \cup {NoLock, TornLock}
  /\ patches \subseteq AllPatches /\ head.patches \subseteq AllPatches
  /\ todo \subseteq UNION Series
  /\ step = "copy" => Len(tree) < Len(run.desc.items)
  /\ result \in {"none", "ok", "failed"}
  /\ step \in {"idle", "refresh", "export", "clone", "remove", "copy",
               "patch", "lock", "write", "commit", "staged"}

(* A run that ends well leaves the tree that the description, the lock     *)
(* file and the patches determine, whatever was there before, and the lock *)
(* file names a commit (vendor.py:677).                                    *)
Pinned ==
  result = "ok" =>
    /\ lock \in [url : Url, rev : Commit, only_subdir : {lock.only_subdir}]
    /\ Imported(tree, Desc(desc), lock, patches)

(* An entry that is the whole target directory lies in it alone.           *)
Alone(t) ==
  \A i \in DOMAIN t :
    t[i].at = <<>> => IsFile(t[i].src, t[i].item.from) \/ ~kept

(* The tree a run that ends well leaves is the one that was determined,    *)
(* and old files lie beside it only where the mapping copies into the      *)
(* target directory, and never where an entry is that directory: there, a  *)
(* removal that failed fails the run (vendor.py:305, vendor.py:455).       *)
SuccessPinned == Pinned /\ (result = "ok" => Alone(tree))

(* A run that was not asked to update never moves an existing pin, not     *)
(* even one that a crash cut off (vendor.py:660).                          *)
PinKept ==
  [][(step # "idle" /\ lock' # lock) =>
       run.mayMove]_vars

(* The pin moves only once the whole new tree is in place.                 *)
PinFollowsTree ==
  [][(step # "idle" /\ lock' # lock /\ lock' # TornLock) =>
       Imported(tree, run.desc, lock', patches)]_vars

(* A commit the tool made holds the tree of the revision its message and   *)
(* its lock file name, imported as its description says, with every patch  *)
(* it holds (vendor.py:738).  The tree may have more patches: files that   *)
(* git does not track are applied, and do not make the directory unclean.  *)
CommitRecords ==
  message # NoMessage =>
    /\ head.lock \in [url : Url, rev : {message}, only_subdir : {head.lock.only_subdir}]
    /\ \E ps \in SUBSET AllPatches :
         /\ head.patches \subseteq ps
         /\ Imported(head.tree, Desc(head.desc), head.lock, ps)

(* The tool never commits a series that a failed refresh left incomplete   *)
(* (vendor.py:474).                                                        *)
CommitKeepsSeries ==
  [][(step = "staged" /\ head' # head) =>
       \/ head'.patches = head.patches
       \/ {p.no : p \in {q \in head'.patches : q.dir = <<>>}} \in Series]_vars

(* No file lands outside the target directory, however the paths of the    *)
(* mapping are written (vendor.py:259).                                    *)
WritesInside ==
  \A i \in DOMAIN tree :
    tree[i] # Scrap =>
      \A f \in Copied(tree[i]) : f = <<>> \/ (\A k \in DOMAIN f : f[k] \notin {"..", "/"})

=============================================================================
