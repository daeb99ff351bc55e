---------------------------- MODULE VendorDesc ----------------------------
(* The description file of util/vendor.py: which descriptions it accepts,  *)
(* and what an accepted one asks for.  A parsed file is a function from    *)
(* the keys that are present to their values; Mistyped stands for any      *)
(* value of the wrong type.  A path is the sequence of its components,     *)
(* with a leading "/" when it is absolute.  The check of the file name's   *)
(* suffix is left out: it fails like every other check.                    *)
EXTENDS Naturals, Sequences, SequencesExt

CONSTANTS Mistyped,     \* a value of the wrong type
          None          \* an optional field that is absent

IsPath(path) ==
  path \in Seq(Range(path)) /\ \A k \in DOMAIN path \ {1} : path[k] # "/"

FieldOK(data, name, optional) ==
  IF name \in DOMAIN data THEN data[name] # Mistyped ELSE optional

Field(data, name, absent) ==
  IF name \in DOMAIN data THEN data[name] ELSE absent

UpstreamOK(data) ==
  /\ FieldOK(data, "url", FALSE)
  /\ FieldOK(data, "rev", FALSE)
  /\ FieldOK(data, "only_subdir", TRUE)

Upstream(data) == [url |-> data.url, rev |-> data.rev,
                   only_subdir |-> Field(data, "only_subdir", None)]

PatchRepoOK(data) ==
  \A name \in {"url", "rev_base", "rev_patched"} : FieldOK(data, name, FALSE)

(* os.path.normpath, component by component.                               *)
NormStep(done, part) ==
  IF part = "." \/ (part = ".." /\ done = <<"/">>) THEN done
  ELSE IF part = ".." /\ done # <<>> /\ Last(done) # ".." THEN Front(done)
  ELSE Append(done, part)

normpath(path) ==
  LET done[i \in 0 .. Len(path)] ==
        IF i = 0 THEN <<>> ELSE NormStep(done[i - 1], path[i])
  IN  done[Len(path)]

(* Fault: the path is checked as it is written.                            *)
PathOKUnnormalised(data, name, optional) ==
  /\ FieldOK(data, name, optional)
  /\ name \in DOMAIN data =>
       data[name] = <<>> \/ Head(data[name]) \notin {"/", ".."}

PathOK(data, name, optional) ==
  /\ FieldOK(data, name, optional)
  /\ name \in DOMAIN data =>
       LET path == normpath(data[name])
       IN  path = <<>> \/ Head(path) \notin {"/", ".."}

ItemOK(data) ==
  /\ data # Mistyped
  /\ PathOK(data, "from", FALSE)
  /\ PathOK(data, "to", FALSE)
  /\ PathOK(data, "patch_dir", TRUE)

Item(data) ==
  [from |-> normpath(data.from), to |-> normpath(data.to),
   patch_dir |-> IF "patch_dir" \in DOMAIN data
                 THEN normpath(data.patch_dir) ELSE None]

make_default(have_patch_dir) ==
  [from |-> <<>>, to |-> <<>>,
   patch_dir |-> IF have_patch_dir THEN <<>> ELSE None]

has_patch_dir(mapping) ==
  \E i \in DOMAIN mapping : "patch_dir" \in DOMAIN mapping[i]

(* A patch repository needs a place for its patches and excludes a         *)
(* mapping; with a mapping, patch_dir is there exactly if an item uses it. *)
FieldsAgree(data) ==
  /\ "patch_repo" \in DOMAIN data =>
       "patch_dir" \in DOMAIN data /\ "mapping" \notin DOMAIN data
  /\ "mapping" \in DOMAIN data =>
       ("patch_dir" \in DOMAIN data <=> has_patch_dir(data.mapping))

DescOK(data) ==
  /\ FieldOK(data, "name", FALSE)
  /\ FieldOK(data, "target_dir", FALSE)
  /\ FieldOK(data, "upstream", FALSE) /\ UpstreamOK(data.upstream)
  /\ FieldOK(data, "patch_dir", TRUE)
  /\ FieldOK(data, "patch_repo", TRUE)
  /\ "patch_repo" \in DOMAIN data => PatchRepoOK(data.patch_repo)
  /\ FieldOK(data, "exclude_from_upstream", TRUE)
  /\ FieldOK(data, "mapping", TRUE)
  /\ "mapping" \in DOMAIN data =>
       \A i \in DOMAIN data.mapping : ItemOK(data.mapping[i])
  /\ FieldsAgree(data)
  /\ "exclude_from_upstream" \in DOMAIN data =>
       Mistyped \notin data.exclude_from_upstream

EXCLUDE_ALWAYS == {<<".git">>}

Desc(data) ==
  [upstream   |-> Upstream(data.upstream),
   patch_dir  |-> Field(data, "patch_dir", None),
   patch_repo |-> Field(data, "patch_repo", None),
   exclude    |-> Field(data, "exclude_from_upstream", {})
                    \cup EXCLUDE_ALWAYS,
   items      |-> IF "mapping" \in DOMAIN data
                  THEN [i \in DOMAIN data.mapping |-> Item(data.mapping[i])]
                  ELSE <<make_default("patch_dir" \in DOMAIN data)>>]

---------------------------------------------------------------------------
(* Overrides from the command line: "section.key=value", split at "=".     *)
OVERRIDABLE_DESC_KEYS ==
  {<<"patch_repo", k>> : k \in {"url", "rev_base", "rev_patched"}}
    \cup {<<"upstream", k>> : k \in {"url", "ref"}}

define_arg_type(arg) ==
  Len(arg) = 2 /\ arg[1] \in OVERRIDABLE_DESC_KEYS

(* The last of several overrides of a key counts.                          *)
LastValue(overrides, key, otherwise) ==
  LET at == {i \in DOMAIN overrides : overrides[i][1] = key}
  IN  IF at = {} THEN otherwise
      ELSE overrides[CHOOSE i \in at : \A j \in at : j <= i][2]

apply_overrides(data, overrides) ==
  LET keys == {overrides[i][1] : i \in DOMAIN overrides}
      Section(s) == Field(data, s, <<>>)
      Key(s, k)  == LastValue(overrides, <<s, k>>,
                              Field(Section(s), k, None))
  IN  [s \in DOMAIN data \cup {key[1] : key \in keys} |->
         IF \E key \in keys : key[1] = s
         THEN [k \in DOMAIN Section(s)
                       \cup {key[2] : key \in {x \in keys : x[1] = s}} |->
                 Key(s, k)]
         ELSE data[s]]

=============================================================================
