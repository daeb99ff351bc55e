----------------------------- MODULE MCVendor -----------------------------
(* Two upstream repositories with two commits, and descriptions of every   *)
(* kind: with a patch repository, with a mapping (one entry with patches   *)
(* and a file put into the directory another entry made), of a             *)
(* sub-directory, with overlapping or escaping entries, and inconsistent.  *)
EXTENDS Vendor

CONSTANTS up, fork, c1, c2, main

MCUrl == {up, fork}
MCCommit == {c1, c2}
MCHas == {<<up, c1>>, <<up, c2>>, <<fork, c2>>}
MCFiles(c) ==
  {<<"LICENSE">>, <<"rtl", "a.sv">>}
    \cup IF c = c1 THEN {<<"rtl", "dv", "t.sv">>} ELSE {}
MCFits == {<<1, c1>>}
MCPatchDirs == {<<>>, <<"rtl">>}
MCSeries == {{1}}

Base == [name |-> "ip", target_dir |-> "ip",
         upstream |-> [url |-> up, rev |-> main]]
With(more) == more @@ Base
Rtl(to) == [from |-> <<"rtl">>, to |-> to]

MCDescs == {
  With([patch_dir |-> "p",
        patch_repo |-> [url |-> up, rev_base |-> main, rev_patched |-> main]]),
  With([patch_dir |-> "p", exclude_from_upstream |-> {<<"rtl", "dv">>},
        mapping |-> <<[patch_dir |-> <<".", "rtl">>] @@ Rtl(<<"rtl">>),
                      [from |-> <<"LICENSE">>,
                       to |-> <<"doc", "..", "rtl">>]>>]),
  [Base EXCEPT !.upstream = [only_subdir |-> <<"rtl", "dv">>] @@ @],
  With([mapping |-> <<Rtl(<<"x">>), Rtl(<<"x">>)>>]),
  With([mapping |-> <<Rtl(<<"x", "..", "..", "y">>)>>]),
  With([patch_repo |-> [url |-> up, rev_base |-> main, rev_patched |-> main]])}

Give(flags, overrides) ==
  [update |-> "U" \in flags, refresh |-> "R" \in flags,
   commit |-> "C" \in flags, overrides |-> overrides]
FromFork == <<<<"upstream", "url">>, fork>>
MCOptions ==
  {Give(flags, <<>>) : flags \in {{}, {"U"}, {"R"}, {"C"}, {"R", "C"}}}
    \cup {Give({"U", "C"}, <<FromFork, <<<<"upstream", "ref">>, c1>>>>),
          Give({}, <<<<<<"upstream", "rev">>, c1>>>>),
          Give({}, <<<<<<"upstream", "url">>, up, fork>>>>)}

=============================================================================
