-------------------------- MODULE GenerateRunProof --------------------------
(***************************************************************************)
(* The generators, for every set of configurations, every number of runs   *)
(* and layout changes and wherever they are cut off.  Every job of every   *)
(* generator reads a preserved source or what an earlier job of the same   *)
(* run wrote, so what a run leaves is made of the sources alone.  Texts    *)
(* that differ only in the layout of marks stay so through every edit that *)
(* does not fail, so a run that ends well leaves the same design whatever  *)
(* the layout, and what the first runs show holds of all of them.          *)
(***************************************************************************)
EXTENDS GenerateRun, Induction, FiniteSetTheorems, SequenceTheorems

IsSeq(s) == \E S : s \in Seq(S)

\* What the jobs read is there, or an earlier one wrote it; none writes over a source.
Chained(jobs, there) ==
  /\ IsSeq(jobs)
  /\ \A i \in 1 .. Len(jobs) :
       /\ jobs[i].src \in there \/ \E j \in 1 .. i - 1 : jobs[j].dst = jobs[i].src
       /\ jobs[i].dst \notin DOMAIN Preserved

LEMMA Widened ==
  ASSUME NEW S, NEW T, NEW s \in Seq(S) PROVE s \in Seq(S \cup T)
<1>1. Len(s) \in Nat /\ s \in [1 .. Len(s) -> S]
  OBVIOUS
<1>2. s \in [1 .. Len(s) -> S \cup T]
  BY <1>1
<1> QED BY <1>1, <1>2

\* One chain behind another.
LEMMA ChainJoins ==
  ASSUME NEW a, NEW b, NEW there,
         Chained(a, there), Chained(b, there \cup Written(a))
  PROVE  /\ Chained(a \o b, there)
         /\ Written(a \o b) = Written(a) \cup Written(b)
<1>1. PICK S : a \in Seq(S)
  BY DEF Chained, IsSeq
<1>2. PICK T : b \in Seq(T)
  BY DEF Chained, IsSeq
<1> DEFINE U == S \cup T
<1>3. a \in Seq(U) /\ b \in Seq(U)
  <2>1. b \in Seq(T \cup S) /\ T \cup S = U
    BY <1>2, Widened
  <2> QED BY <1>1, <2>1, Widened
<1> HIDE DEF U
<1>4. /\ a \o b \in Seq(U) /\ Len(a) \in Nat /\ Len(b) \in Nat
      /\ Len(a \o b) = Len(a) + Len(b)
      /\ DOMAIN a = 1 .. Len(a) /\ DOMAIN b = 1 .. Len(b)
      /\ DOMAIN (a \o b) = 1 .. Len(a) + Len(b)
      /\ \A i \in 1 .. Len(a) : (a \o b)[i] = a[i]
      /\ \A i \in 1 .. Len(b) : (a \o b)[Len(a) + i] = b[i]
  BY <1>3
<1> DEFINE c == a \o b
           n == Len(a)
           m == Len(b)
<1>5. /\ IsSeq(c) /\ n \in Nat /\ m \in Nat /\ Len(c) = n + m /\ DOMAIN c = 1 .. n + m
      /\ \A i \in 1 .. n : c[i] = a[i]
      /\ \A i \in 1 .. m : c[n + i] = b[i]
  BY <1>4 DEF IsSeq
<1> HIDE DEF c
<1>6. ASSUME NEW i \in 1 .. n
      PROVE  /\ c[i].src \in there \/ \E j \in 1 .. i - 1 : c[j].dst = c[i].src
             /\ c[i].dst \notin DOMAIN Preserved
  <2>1. a[i].src \in there \/ \E j \in 1 .. i - 1 : a[j].dst = a[i].src
    BY DEF Chained
  <2>2. \A j \in 1 .. i - 1 : c[j] = a[j]
    BY <1>5
  <2> QED BY <1>5, <2>1, <2>2 DEF Chained
<1>7. ASSUME NEW k \in 1 .. m
      PROVE  /\ c[n + k].src \in there \/ \E j \in 1 .. (n + k) - 1 : c[j].dst = c[n + k].src
             /\ c[n + k].dst \notin DOMAIN Preserved
  <2>1. c[n + k] = b[k] /\ b[k].dst \notin DOMAIN Preserved
    BY <1>5 DEF Chained
  <2>2. b[k].src \in there \cup Written(a) \/ \E j \in 1 .. k - 1 : b[j].dst = b[k].src
    BY DEF Chained
  <2>3. CASE b[k].src \in Written(a)
    <3>1. PICK j \in 1 .. n : a[j].dst = b[k].src
      BY <1>4, <2>3 DEF Written
    <3>2. j \in 1 .. (n + k) - 1 /\ c[j].dst = b[k].src
      BY <1>5, <3>1
    <3> QED BY <2>1, <3>2
  <2>4. CASE \E j \in 1 .. k - 1 : b[j].dst = b[k].src
    <3>1. PICK j \in 1 .. k - 1 : b[j].dst = b[k].src
      BY <2>4
    <3>2. n + j \in 1 .. (n + k) - 1 /\ j \in 1 .. m
      BY <1>5, <3>1
    <3>3. c[n + j] = b[j]
      BY <1>5, <3>2
    <3> QED BY <2>1, <3>1, <3>2, <3>3
  <2> QED BY <2>1, <2>2, <2>3, <2>4
<1>8. \A i \in 1 .. n + m : i \in 1 .. n \/ (i - n \in 1 .. m /\ n + (i - n) = i)
  BY <1>5
<1>9. Chained(c, there)
  <2>1. ASSUME NEW i \in 1 .. n + m
        PROVE  /\ c[i].src \in there \/ \E j \in 1 .. i - 1 : c[j].dst = c[i].src
               /\ c[i].dst \notin DOMAIN Preserved
    <3>1. CASE i \in 1 .. n
      BY <3>1, <1>6
    <3>2. CASE i - n \in 1 .. m /\ n + (i - n) = i
      <4> DEFINE k == i - n
      <4>1. k \in 1 .. m /\ n + k = i
        BY <3>2
      <4> HIDE DEF k
      <4> QED BY <4>1, <1>7
    <3> QED BY <3>1, <3>2, <1>8
  <2> QED BY <1>5, <2>1 DEF Chained
<1>10. Written(c) = Written(a) \cup Written(b)
  <2>1. \A i \in 1 .. n + m : c[i].dst \in Written(a) \cup Written(b)
    <3> SUFFICES ASSUME NEW i \in 1 .. n + m PROVE c[i].dst \in Written(a) \cup Written(b)
      OBVIOUS
    <3>1. CASE i \in 1 .. n
      BY <3>1, <1>4, <1>5 DEF Written
    <3>2. CASE i - n \in 1 .. m /\ n + (i - n) = i
      <4> DEFINE k == i - n
      <4>1. k \in 1 .. m /\ n + k = i
        BY <3>2
      <4> HIDE DEF k
      <4>2. c[i] = b[k]
        BY <4>1, <1>5
      <4> QED BY <4>1, <4>2, <1>4 DEF Written
    <3> QED BY <3>1, <3>2, <1>8
  <2>2. \A i \in 1 .. n : a[i].dst \in Written(c)
    <3> SUFFICES ASSUME NEW i \in 1 .. n PROVE a[i].dst \in Written(c)
      OBVIOUS
    <3>1. i \in DOMAIN c /\ c[i] = a[i]
      BY <1>5
    <3> QED BY <3>1 DEF Written
  <2>3. \A k \in 1 .. m : b[k].dst \in Written(c)
    <3> SUFFICES ASSUME NEW k \in 1 .. m PROVE b[k].dst \in Written(c)
      OBVIOUS
    <3>1. n + k \in DOMAIN c /\ c[n + k] = b[k]
      BY <1>5
    <3> QED BY <3>1 DEF Written
  <2>4. Written(c) \subseteq Written(a) \cup Written(b)
    BY <2>1, <1>5 DEF Written
  <2>5. Written(a) \subseteq Written(c) /\ Written(b) \subseteq Written(c)
    BY <2>2, <2>3, <1>4 DEF Written
  <2> QED BY <2>4, <2>5
<1> QED BY <1>9, <1>10 DEF c

LEMMA ChainMore ==
  ASSUME NEW jobs, NEW there, NEW more, Chained(jobs, there), there \subseteq more
  PROVE  Chained(jobs, more)
BY DEF Chained

----------------------------------------------------------------------------
\* The job lists of the generators.
Names == DOMAIN Preserved

LEMMA PreservedNames ==
  Names = {"core", "id_stage", "ex_stage", "wrapper", "tb_subsystem", "tb_top", "manifest"}
BY DEF Names, Preserved

LEMMA CopyNames ==
  /\ Of("wrapper", "hamsa") = "wrapper_hamsa" /\ Of("manifest", "hamsa") = "manifest_hamsa"
  /\ Of("tb_subsystem", "hamsa") = "tb_subsystem_hamsa" /\ Of("tb_top", "hamsa") = "tb_top_hamsa"
  /\ Of("wrapper", "h2_32") = "wrapper_h2_32" /\ Of("manifest", "h2_32") = "manifest_h2_32"
  /\ Of("tb_subsystem", "h2_32") = "tb_subsystem_h2_32" /\ Of("tb_top", "h2_32") = "tb_top_h2_32"
  /\ Of("wrapper", "h2_128") = "wrapper_h2_128" /\ Of("manifest", "h2_128") = "manifest_h2_128"
  /\ Of("tb_subsystem", "h2_128") = "tb_subsystem_h2_128"
  /\ Of("tb_top", "h2_128") = "tb_top_h2_128"
  /\ Of("wrapper", "sparv_32") = "wrapper_sparv_32"
  /\ Of("manifest", "sparv_32") = "manifest_sparv_32"
  /\ Of("tb_subsystem", "sparv_32") = "tb_subsystem_sparv_32"
  /\ Of("tb_top", "sparv_32") = "tb_top_sparv_32"
  /\ Of("wrapper", "sparv_128") = "wrapper_sparv_128"
  /\ Of("manifest", "sparv_128") = "manifest_sparv_128"
  /\ Of("tb_subsystem", "sparv_128") = "tb_subsystem_sparv_128"
  /\ Of("tb_top", "sparv_128") = "tb_top_sparv_128"
BY DEF Of, Copies

LEMMA JobFields ==
  ASSUME NEW s, NEW e, NEW d PROVE Job(s, e, d).src = s /\ Job(s, e, d).dst = d
BY DEF Job

LEMMA OneJob ==
  ASSUME NEW a, NEW there,
         a.src \in there, a.dst \notin Names
  PROVE  Chained(<<a>>, there) /\ {a.dst} \subseteq Written(<<a>>)
<1> DEFINE s == <<a>>
<1>1. /\ s \in Seq({a}) /\ Len(s) = 1 /\ DOMAIN s = 1 .. 1
      /\ s[1] = a
  OBVIOUS
<1> HIDE DEF s
<1>2. IsSeq(s)
  BY <1>1 DEF IsSeq
<1>3. \A i \in 1 .. 1 : i = 1
  OBVIOUS
<1>4. Chained(s, there)
  BY <1>1, <1>2, <1>3 DEF Chained, Names
<1>5. {a.dst} \subseteq Written(s)
  BY <1>1 DEF Written
<1> QED BY <1>4, <1>5 DEF s

LEMMA TwoJobs ==
  ASSUME NEW a, NEW b, NEW there,
         a.src \in there, a.dst \notin Names,
         b.src \in there \/ b.src = a.dst, b.dst \notin Names
  PROVE  Chained(<<a, b>>, there) /\ {a.dst, b.dst} \subseteq Written(<<a, b>>)
<1> DEFINE s == <<a, b>>
<1>1. /\ s \in Seq({a, b}) /\ Len(s) = 2 /\ DOMAIN s = 1 .. 2
      /\ s[1] = a /\ s[2] = b
  OBVIOUS
<1> HIDE DEF s
<1>2. IsSeq(s)
  BY <1>1 DEF IsSeq
<1>3. \A i \in 1 .. 2 : i = 1 \/ i = 2
  OBVIOUS
<1>4. \A i \in 1 .. 2 : s[i].src \in there \/ \E j \in 1 .. i - 1 : s[j].dst = s[i].src
  <2>1. s[1].src \in there
    BY <1>1
  <2>2. s[2].src \in there \/ \E j \in 1 .. 2 - 1 : s[j].dst = s[2].src
    BY <1>1
  <2> QED BY <1>3, <2>1, <2>2
<1>5. \A i \in 1 .. 2 : s[i].dst \notin DOMAIN Preserved
  BY <1>1, <1>3 DEF Names
<1>6. Chained(s, there)
  BY <1>1, <1>2, <1>4, <1>5 DEF Chained
<1>7. {a.dst, b.dst} \subseteq Written(s)
  BY <1>1 DEF Written
<1> QED BY <1>6, <1>7 DEF s

LEMMA ThreeJobs ==
  ASSUME NEW a, NEW b, NEW c, NEW there,
         a.src \in there, a.dst \notin Names,
         b.src \in there \/ b.src = a.dst, b.dst \notin Names,
         c.src \in there \/ c.src \in {a.dst, b.dst}, c.dst \notin Names
  PROVE  Chained(<<a, b, c>>, there) /\ {a.dst, b.dst, c.dst} \subseteq Written(<<a, b, c>>)
<1> DEFINE s == <<a, b, c>>
<1>1. /\ s \in Seq({a, b, c}) /\ Len(s) = 3 /\ DOMAIN s = 1 .. 3
      /\ s[1] = a /\ s[2] = b /\ s[3] = c
  OBVIOUS
<1> HIDE DEF s
<1>2. IsSeq(s)
  BY <1>1 DEF IsSeq
<1>3. \A i \in 1 .. 3 : i = 1 \/ i = 2 \/ i = 3
  OBVIOUS
<1>4. \A i \in 1 .. 3 : s[i].src \in there \/ \E j \in 1 .. i - 1 : s[j].dst = s[i].src
  <2>1. s[1].src \in there
    BY <1>1
  <2>2. s[2].src \in there \/ \E j \in 1 .. 2 - 1 : s[j].dst = s[2].src
    BY <1>1
  <2>3. s[3].src \in there \/ \E j \in 1 .. 3 - 1 : s[j].dst = s[3].src
    BY <1>1
  <2> QED BY <1>3, <2>1, <2>2, <2>3
<1>5. \A i \in 1 .. 3 : s[i].dst \notin DOMAIN Preserved
  BY <1>1, <1>3 DEF Names
<1>6. Chained(s, there)
  BY <1>1, <1>2, <1>4, <1>5 DEF Chained
<1>7. {a.dst, b.dst, c.dst} \subseteq Written(s)
  BY <1>1 DEF Written
<1> QED BY <1>6, <1>7 DEF s

LEMMA FourJobs ==
  ASSUME NEW a, NEW b, NEW c, NEW d, NEW there,
         {a.src, b.src, c.src, d.src} \subseteq there,
         {a.dst, b.dst, c.dst, d.dst} \cap Names = {}
  PROVE  Chained(<<a, b, c, d>>, there) /\ {a.dst, b.dst, c.dst, d.dst} \subseteq Written(<<a, b, c, d>>)
<1> DEFINE s == <<a, b, c, d>>
<1>1. /\ s \in Seq({a, b, c, d}) /\ Len(s) = 4 /\ DOMAIN s = 1 .. 4
      /\ s[1] = a /\ s[2] = b /\ s[3] = c /\ s[4] = d
  OBVIOUS
<1> HIDE DEF s
<1>2. IsSeq(s)
  BY <1>1 DEF IsSeq
<1>3. \A i \in 1 .. 4 : i = 1 \/ i = 2 \/ i = 3 \/ i = 4
  OBVIOUS
<1>4. \A i \in 1 .. 4 : s[i].src \in there \/ \E j \in 1 .. i - 1 : s[j].dst = s[i].src
  BY <1>1, <1>3
<1>5. \A i \in 1 .. 4 : s[i].dst \notin DOMAIN Preserved
  BY <1>1, <1>3 DEF Names
<1>6. Chained(s, there)
  BY <1>1, <1>2, <1>4, <1>5 DEF Chained
<1>7. {a.dst, b.dst, c.dst, d.dst} \subseteq Written(s)
  BY <1>1 DEF Written
<1> QED BY <1>6, <1>7 DEF s

\* The cores are made of the preserved core.
LEMMA CoreJobs ==
  /\ Chained(gen_hamsa_core, Names) /\ "core_hamsa" \in Written(gen_hamsa_core)
  /\ Chained(gen_hamsa_core_h2, Names) /\ "core_hamsa_h2" \in Written(gen_hamsa_core_h2)
  /\ Chained(gen_baseline_eval_tb, Names)
<1>1. "core" \in Names /\ "tb_top" \in Names
  BY PreservedNames
<1>2. "core_hamsa" \notin Names /\ "core_hamsa_h2" \notin Names /\ "tb_top_eval" \notin Names
  BY PreservedNames
<1>3. Chained(gen_hamsa_core, Names) /\ "core_hamsa" \in Written(gen_hamsa_core)
  BY <1>1, <1>2, OneJob, JobFields DEF gen_hamsa_core
<1>4. Chained(gen_hamsa_core_h2, Names) /\ "core_hamsa_h2" \in Written(gen_hamsa_core_h2)
  BY <1>1, <1>2, OneJob, JobFields DEF gen_hamsa_core_h2
<1>5. Chained(gen_baseline_eval_tb, Names)
  BY <1>1, <1>2, OneJob, JobFields DEF gen_baseline_eval_tb
<1> QED BY <1>3, <1>4, <1>5

\* gen_hamsa_sim.py: the core, then four copies.
LEMMA HamsaJobs ==
  ASSUME NEW issue2 PROVE Chained(gen_hamsa_sim(issue2), Names)
<1> DEFINE a == Job("wrapper", WrapperHamsa(issue2), "wrapper_hamsa")
           b == Job("tb_subsystem", Subsystem("hamsa"), "tb_subsystem_hamsa")
           c == Job("tb_top", TopHamsa, "tb_top_hamsa")
           d == Job("manifest", Manifest("core_hamsa", "wrapper_hamsa"), "manifest_hamsa")
<1>1. /\ a.src = "wrapper" /\ b.src = "tb_subsystem" /\ c.src = "tb_top" /\ d.src = "manifest"
      /\ a.dst = "wrapper_hamsa" /\ b.dst = "tb_subsystem_hamsa"
      /\ c.dst = "tb_top_hamsa" /\ d.dst = "manifest_hamsa"
  BY JobFields
<1>2. gen_hamsa_sim(issue2) = gen_hamsa_core \o <<a, b, c, d>>
  BY DEF gen_hamsa_sim
<1> HIDE DEF a, b, c, d
<1> DEFINE copies == <<a, b, c, d>>
<1>3. Chained(copies, Names)
  BY <1>1, PreservedNames, FourJobs
<1>4. Chained(copies, Names \cup Written(gen_hamsa_core))
  BY <1>3, ChainMore
<1> HIDE DEF copies
<1>5. Chained(gen_hamsa_core \o copies, Names)
  BY <1>4, CoreJobs, ChainJoins
<1> QED BY <1>2, <1>5 DEF copies

\* gen_hamsa_sim_h2.py: likewise, for either width.
LEMMA HamsaH2Jobs ==
  ASSUME NEW native
  PROVE  LET suffix == IF native = "1" THEN "h2_128" ELSE "h2_32"
         IN  /\ Chained(gen_hamsa_sim_h2(native), Names)
             /\ {"core_hamsa_h2", Of("wrapper", suffix), Of("tb_subsystem", suffix),
                 Of("tb_top", suffix), Of("manifest", suffix)}
                \subseteq Written(gen_hamsa_sim_h2(native))
<1> DEFINE suffix == IF native = "1" THEN "h2_128" ELSE "h2_32"
           a == Job("wrapper", WrapperH2(suffix, native), Of("wrapper", suffix))
           b == Job("tb_subsystem", SubsystemH2(suffix, native), Of("tb_subsystem", suffix))
           c == Job("tb_top", TopH2(suffix), Of("tb_top", suffix))
           d == Job("manifest", Manifest("core_hamsa_h2", Of("wrapper", suffix)),
                    Of("manifest", suffix))
<1>1. /\ a.src = "wrapper" /\ b.src = "tb_subsystem" /\ c.src = "tb_top" /\ d.src = "manifest"
      /\ a.dst = Of("wrapper", suffix) /\ b.dst = Of("tb_subsystem", suffix)
      /\ c.dst = Of("tb_top", suffix) /\ d.dst = Of("manifest", suffix)
  BY JobFields
<1>2. gen_hamsa_sim_h2(native) = gen_hamsa_core_h2 \o <<a, b, c, d>>
  BY DEF gen_hamsa_sim_h2
<1>3. suffix \in {"h2_32", "h2_128"}
  OBVIOUS
<1> HIDE DEF a, b, c, d, suffix
<1>4. {a.dst, b.dst, c.dst, d.dst} \cap Names = {}
  BY <1>1, <1>3, CopyNames, PreservedNames
<1> DEFINE copies == <<a, b, c, d>>
<1>5. Chained(copies, Names) /\ {a.dst, b.dst, c.dst, d.dst} \subseteq Written(copies)
  BY <1>1, <1>4, PreservedNames, FourJobs
<1> HIDE DEF copies
<1>6. Chained(copies, Names \cup Written(gen_hamsa_core_h2))
  BY <1>5, ChainMore
<1>7. /\ Chained(gen_hamsa_core_h2 \o copies, Names)
      /\ Written(gen_hamsa_core_h2 \o copies) = Written(gen_hamsa_core_h2) \cup Written(copies)
  BY <1>6, CoreJobs, ChainJoins
<1>8. {"core_hamsa_h2", Of("wrapper", suffix), Of("tb_subsystem", suffix),
       Of("tb_top", suffix), Of("manifest", suffix)}
        \subseteq Written(gen_hamsa_core_h2 \o copies)
  BY <1>1, <1>5, <1>7, CoreJobs
<1>9. gen_hamsa_sim_h2(native) = gen_hamsa_core_h2 \o copies
  BY <1>2 DEF copies
<1> QED BY <1>7, <1>8, <1>9 DEF suffix

\* gen_hamsa_core_h2_5r3w.py: the decode stage, the H2 core, and what is made of them.
LEMMA Jobs5R3W == Chained(gen_hamsa_core_h2_5r3w, Names)
<1> DEFINE a == Job("id_stage", IdStage5R3W, "id_stage_hamsa_5r3w")
           b == Job("core_hamsa_h2", CoreH2_5R3W, "core_hamsa_h2_5r3w")
           c == Job("manifest", Manifest5R3W, "manifest_h2_5r3w")
           tail == <<b, c>>
           first == <<a>> \o gen_hamsa_core_h2
<1>1. /\ a.src = "id_stage" /\ a.dst = "id_stage_hamsa_5r3w"
      /\ b.src = "core_hamsa_h2" /\ b.dst = "core_hamsa_h2_5r3w"
      /\ c.src = "manifest" /\ c.dst = "manifest_h2_5r3w"
  BY JobFields
<1>2. gen_hamsa_core_h2_5r3w = first \o tail
  BY DEF gen_hamsa_core_h2_5r3w
<1> HIDE DEF a, b, c
<1>3. Chained(<<a>>, Names)
  BY <1>1, PreservedNames, OneJob
<1>4. Chained(gen_hamsa_core_h2, Names \cup Written(<<a>>))
  BY CoreJobs, ChainMore
<1>5. Chained(first, Names) /\ "core_hamsa_h2" \in Written(first)
  BY <1>3, <1>4, CoreJobs, ChainJoins
<1> HIDE DEF first
<1>6. b.src \in Names \cup Written(first) /\ c.src \in Names \cup Written(first)
      /\ b.dst \notin Names /\ c.dst \notin Names
  BY <1>1, <1>5, PreservedNames
<1>7. Chained(tail, Names \cup Written(first))
  BY <1>6, TwoJobs
<1> HIDE DEF tail
<1> QED BY <1>2, <1>5, <1>7, ChainJoins

\* gen_sparv_core.py: the H2 core first, then the SPARV core made of it.
LEMMA SparvJobs == Chained(gen_sparv_core, Names)
<1> DEFINE a == Job("ex_stage", SparvExStage, "sparv_ex_stage")
           b == Job("core_hamsa_h2", SparvCore, "core_sparv")
           c == Job("manifest", ManifestSparv, "manifest_sparv")
           tail == <<a, b, c>>
<1>1. /\ a.src = "ex_stage" /\ a.dst = "sparv_ex_stage"
      /\ b.src = "core_hamsa_h2" /\ b.dst = "core_sparv"
      /\ c.src = "manifest" /\ c.dst = "manifest_sparv"
  BY JobFields
<1>2. gen_sparv_core = gen_hamsa_core_h2 \o tail
  BY DEF gen_sparv_core
<1> HIDE DEF a, b, c
<1> DEFINE there == Names \cup Written(gen_hamsa_core_h2)
<1>3. a.src \in there /\ b.src \in there /\ c.src \in there
      /\ a.dst \notin Names /\ b.dst \notin Names /\ c.dst \notin Names
  BY <1>1, CoreJobs, PreservedNames
<1> HIDE DEF there
<1>4. Chained(tail, there)
  BY <1>3, ThreeJobs
<1> HIDE DEF tail
<1> QED BY <1>2, <1>4, CoreJobs, ChainJoins DEF there

\* gen_sparv_sim.py: the H2 simulation, the SPARV core, then the copies of the copies.
LEMMA SparvSimJobs ==
  ASSUME NEW native PROVE Chained(gen_sparv_sim(native), Names)
<1> DEFINE from == IF native = "1" THEN "h2_128" ELSE "h2_32"
           to   == IF native = "1" THEN "sparv_128" ELSE "sparv_32"
           a == Job(Of("wrapper", from), WrapperSparv(from, to), Of("wrapper", to))
           b == Job(Of("tb_subsystem", from), SubsystemSparv(from, to), Of("tb_subsystem", to))
           c == Job(Of("tb_top", from), TopSparv(from, to), Of("tb_top", to))
           d == Job(Of("manifest", from), ManifestSparvSim(from, to), Of("manifest", to))
           tail == <<a, b, c, d>>
           sim == gen_hamsa_sim_h2(native)
           first == sim \o gen_sparv_core
<1>1. /\ a.src = Of("wrapper", from) /\ a.dst = Of("wrapper", to)
      /\ b.src = Of("tb_subsystem", from) /\ b.dst = Of("tb_subsystem", to)
      /\ c.src = Of("tb_top", from) /\ c.dst = Of("tb_top", to)
      /\ d.src = Of("manifest", from) /\ d.dst = Of("manifest", to)
  BY JobFields
<1>2. gen_sparv_sim(native) = first \o tail
  BY DEF gen_sparv_sim
<1>3. to \in {"sparv_32", "sparv_128"}
  OBVIOUS
<1>4. /\ Chained(sim, Names)
      /\ {Of("wrapper", from), Of("tb_subsystem", from), Of("tb_top", from), Of("manifest", from)}
           \subseteq Written(sim)
  BY HamsaH2Jobs
<1> HIDE DEF a, b, c, d, from, to, sim
<1>5. Chained(gen_sparv_core, Names \cup Written(sim))
  BY SparvJobs, ChainMore
<1>6. Chained(first, Names) /\ Written(sim) \subseteq Written(first)
  BY <1>4, <1>5, ChainJoins
<1> HIDE DEF first
<1>7. {a.src, b.src, c.src, d.src} \subseteq Names \cup Written(first)
  BY <1>1, <1>4, <1>6
<1>8. {a.dst, b.dst, c.dst, d.dst} \cap Names = {}
  BY <1>1, <1>3, CopyNames, PreservedNames
<1>9. Chained(tail, Names \cup Written(first))
  BY <1>7, <1>8, FourJobs
<1> HIDE DEF tail
<1> QED BY <1>2, <1>6, <1>9, ChainJoins

LEMMA NoJobs == Chained(<<>>, Names)
<1>1. <<>> \in Seq({}) /\ Len(<<>>) = 0
  OBVIOUS
<1> QED BY <1>1 DEF Chained, IsSeq

\* Whatever is asked for.
LEMMA Chains == \A t \in Tasks : Chained(Requests[t].jobs, Names)
<1> SUFFICES ASSUME NEW t \in Tasks PROVE Chained(Request(t).jobs, Names)
  BY DEF Requests
<1>1. \/ t[1] = "sim" /\ t[2] \in Evaluated
      \/ t[1] = "ppa" /\ t[2] \in Synthesized
  BY TasksAssumption
<1>2. ASSUME NEW c \in Evaluated PROVE Chained(Simulation(c).jobs, Names)
  <2>1. CASE c = "B0"
    BY <2>1, CoreJobs DEF Simulation
  <2>2. CASE c \in {"H0", "H1"}
    <3>1. Simulation(c).jobs = gen_hamsa_sim(IF c = "H1" THEN "1" ELSE "0")
      BY <2>2 DEF Simulation
    <3> QED BY <3>1, HamsaJobs
  <2>3. CASE c \in {"H2-32", "H2-128"}
    <3>1. Simulation(c).jobs = gen_hamsa_sim_h2(Native(c))
      BY <2>3 DEF Simulation
    <3> QED BY <3>1, HamsaH2Jobs
  <2>4. CASE c \in {"SPARV-32", "SPARV-128"}
    <3>1. Simulation(c).jobs = gen_sparv_sim(Native(c))
      BY <2>4 DEF Simulation
    <3> QED BY <3>1, SparvSimJobs
  <2> QED BY <2>1, <2>2, <2>3, <2>4 DEF Evaluated
<1>3. ASSUME NEW c \in Synthesized PROVE Chained(prepare(c).jobs, Names)
  <2>1. CASE c = "B0"
    BY <2>1, NoJobs DEF prepare
  <2>2. CASE c \in {"H0", "H1"}
    <3>1. prepare(c).jobs = gen_hamsa_sim(IF c = "H0" THEN "0" ELSE "1")
      BY <2>2 DEF prepare
    <3> QED BY <3>1, HamsaJobs
  <2>3. CASE c \in {"H2-32", "H2-128"}
    <3>1. prepare(c).jobs = gen_hamsa_sim_h2(Native(c))
      BY <2>3 DEF prepare
    <3> QED BY <3>1, HamsaH2Jobs
  <2>4. CASE c = "H2-5R3W"
    BY <2>4, Jobs5R3W DEF prepare
  <2>5. CASE c \in {"SPARV-32", "SPARV-128"}
    BY <2>5, SparvJobs DEF prepare
  <2> QED BY <2>1, <2>2, <2>3, <2>4, <2>5 DEF Synthesized, Evaluated
<1> QED BY <1>1, <1>2, <1>3 DEF Request

----------------------------------------------------------------------------
\* While a run works, the sources and what its first n jobs wrote are as if it had
\* begun on nothing but the sources.
Files == Generated \cup DOMAIN Preserved

Agree(jobs, d, n) ==
  LET made == Stages(jobs, From([f \in DOMAIN Preserved |-> d[f]]))[n]
  IN  /\ DOMAIN made = Files
      /\ \A f \in DOMAIN Preserved \cup {jobs[i].dst : i \in 1 .. n} : made[f] = d[f]

\* The stages of a run, one job after the other.
Step(d, j) == [d EXCEPT ![j.dst] = Apply(j.edits, Read(d, j.src))]

Unfolds(jobs, files, g, n) ==
  g = [i \in 0 .. n |-> IF i = 0 THEN files ELSE Step(g[i - 1], jobs[i])]

LEMMA StagesUnfold ==
  ASSUME NEW jobs, NEW files, Len(jobs) \in Nat
  PROVE  Unfolds(jobs, files, Stages(jobs, files), Len(jobs))
<1> DEFINE S == {n \in Nat : \E g : Unfolds(jobs, files, g, n)}
<1>1. 0 \in S
  <2>1. Unfolds(jobs, files, [i \in 0 .. 0 |-> files], 0)
    BY DEF Unfolds
  <2> QED BY <2>1
<1>2. \A n \in Nat : n \in S => n + 1 \in S
  <2> SUFFICES ASSUME NEW n \in Nat, NEW g, Unfolds(jobs, files, g, n)
               PROVE  \E h : Unfolds(jobs, files, h, n + 1)
    OBVIOUS
  <2> DEFINE h == [i \in 0 .. n + 1 |->
                     IF i = n + 1 THEN Step(g[n], jobs[n + 1]) ELSE g[i]]
  <2>1. \A i \in 0 .. n : h[i] = g[i]
    OBVIOUS
  <2>2. \A i \in 0 .. n + 1 : h[i] = IF i = 0 THEN files ELSE Step(h[i - 1], jobs[i])
    BY <2>1 DEF Unfolds
  <2>3. Unfolds(jobs, files, h, n + 1)
    BY <2>2 DEF Unfolds
  <2> QED BY <2>3
<1> HIDE DEF S
<1>3. Len(jobs) \in S
  BY <1>1, <1>2, SetInduction
<1> DEFINE done == CHOOSE g : Unfolds(jobs, files, g, Len(jobs))
<1>4. Unfolds(jobs, files, done, Len(jobs))
  BY <1>3 DEF S
<1>5. Stages(jobs, files) = done
  BY DEF Stages, Unfolds, Step
<1> QED BY <1>4, <1>5

LEMMA StagesStep ==
  ASSUME NEW jobs, NEW files, Len(jobs) \in Nat
  PROVE  /\ Stages(jobs, files)[0] = files
         /\ \A n \in 0 .. Len(jobs) - 1 :
              Stages(jobs, files)[n + 1] = Step(Stages(jobs, files)[n], jobs[n + 1])
<1> DEFINE g == Stages(jobs, files)
<1>1. Unfolds(jobs, files, g, Len(jobs))
  BY StagesUnfold
<1> HIDE DEF g
<1>2. g[0] = files
  BY <1>1 DEF Unfolds
<1>3. ASSUME NEW n \in 0 .. Len(jobs) - 1 PROVE g[n + 1] = Step(g[n], jobs[n + 1])
  <2>1. n + 1 \in 0 .. Len(jobs) /\ n + 1 # 0 /\ (n + 1) - 1 = n
    OBVIOUS
  <2> QED BY <1>1, <2>1 DEF Unfolds
<1> QED BY <1>2, <1>3 DEF g

\* A job done on the disk is the job done on the stage it agrees with.
LEMMA JobAgrees ==
  ASSUME NEW jobs, Chained(jobs, Names), Written(jobs) \subseteq Files,
         NEW d, DOMAIN d = Files, NEW n \in Nat, n + 1 \in 1 .. Len(jobs), Agree(jobs, d, n),
         NEW e, e = Step(d, jobs[n + 1])
  PROVE  Agree(jobs, e, n + 1) /\ DOMAIN e = Files
         /\ \A f \in DOMAIN Preserved : e[f] = d[f]
<1> DEFINE sources == [f \in DOMAIN Preserved |-> d[f]]
           st == Stages(jobs, From(sources))
           m  == st[n]
           j  == jobs[n + 1]
<1>1. Len(jobs) \in Nat /\ n \in 0 .. Len(jobs) - 1 /\ DOMAIN jobs = 1 .. Len(jobs)
  BY DEF Chained, IsSeq
<1>2. st[n + 1] = Step(m, j)
  BY <1>1, StagesStep
<1>3. DOMAIN m = Files /\ \A f \in DOMAIN Preserved \cup {jobs[i].dst : i \in 1 .. n} : m[f] = d[f]
  BY DEF Agree
<1>4. j.dst \in Files /\ j.dst \notin DOMAIN Preserved
  BY <1>1 DEF Chained, Written
<1>5. j.src \in DOMAIN Preserved \cup {jobs[i].dst : i \in 1 .. n}
  <2>1. j.src \in Names \/ \E i \in 1 .. (n + 1) - 1 : jobs[i].dst = j.src
    BY DEF Chained
  <2>2. (n + 1) - 1 = n
    OBVIOUS
  <2> QED BY <2>1, <2>2 DEF Names
<1>6. Read(m, j.src) = Read(d, j.src)
  BY <1>3, <1>5 DEF Read
<1>7. DOMAIN e = Files /\ \A f \in Files : e[f] = IF f = j.dst THEN Apply(j.edits, Read(d, j.src))
                                                  ELSE d[f]
  BY DEF Step
<1>8. /\ DOMAIN st[n + 1] = Files
      /\ \A f \in Files : st[n + 1][f] = IF f = j.dst THEN Apply(j.edits, Read(d, j.src)) ELSE m[f]
  BY <1>2, <1>3, <1>6 DEF Step
<1>9. \A f \in DOMAIN Preserved : f \in Files /\ e[f] = d[f]
  BY <1>4, <1>7 DEF Files
<1>10. [f \in DOMAIN Preserved |-> e[f]] = sources
  BY <1>9
<1>11. \A i \in 1 .. n : jobs[i].dst \in Files
  BY <1>1 DEF Written
<1>12. ASSUME NEW f \in DOMAIN Preserved \cup {jobs[i].dst : i \in 1 .. n + 1}
       PROVE  st[n + 1][f] = e[f]
  <2>1. f = j.dst \/ f \in DOMAIN Preserved \cup {jobs[i].dst : i \in 1 .. n}
    OBVIOUS
  <2>2. f \in Files
    BY <2>1, <1>4, <1>9, <1>11
  <2> QED BY <2>1, <2>2, <1>3, <1>7, <1>8
<1>13. Agree(jobs, e, n + 1)
  <2>1. Stages(jobs, From([f \in DOMAIN Preserved |-> e[f]])) = st
    BY <1>10
  <2> HIDE DEF st
  <2> QED BY <2>1, <1>8, <1>12 DEF Agree
<1> QED BY <1>7, <1>9, <1>13

\* A run begins on the sources.
LEMMA StartAgrees ==
  ASSUME NEW jobs, Len(jobs) \in Nat, NEW d, DOMAIN d = Files
  PROVE  Agree(jobs, d, 0)
<1> DEFINE sources == [f \in DOMAIN Preserved |-> d[f]]
<1>1. Stages(jobs, From(sources))[0] = From(sources)
  BY StagesStep
<1>2. DOMAIN From(sources) = Files /\ \A f \in DOMAIN Preserved : From(sources)[f] = d[f]
  BY DEF From, Files
<1>3. {jobs[i].dst : i \in 1 .. 0} = {}
  OBVIOUS
<1> QED BY <1>1, <1>2, <1>3 DEF Agree

RunInv ==
  /\ DOMAIN disk = Files
  /\ at # 0 => /\ task \in Tasks /\ at \in 1 .. Len(Jobs)
               /\ Agree(Jobs, disk, at - 1)
  /\ result = "ok" => at = 0 /\ Chained(Jobs, Names) /\ Agree(Jobs, disk, Len(Jobs))

LEMMA RunInit == Init => RunInv
BY DEF Init, RunInv, From, Files

LEMMA TaskJobs ==
  ASSUME NEW t \in Tasks
  PROVE  /\ Chained(Requests[t].jobs, Names) /\ Written(Requests[t].jobs) \subseteq Files
         /\ Len(Requests[t].jobs) \in Nat
         /\ Requests[t].jobs # <<>> => Len(Requests[t].jobs) # 0
<1>1. Chained(Requests[t].jobs, Names)
  BY Chains
<1>2. Written(Requests[t].jobs) \subseteq Files
  BY DEF Files, Generated
<1> DEFINE jobs == Requests[t].jobs
<1>3. PICK S : jobs \in Seq(S)
  BY <1>1 DEF Chained, IsSeq
<1> HIDE DEF jobs
<1>4. Len(jobs) \in Nat /\ (jobs # <<>> => Len(jobs) # 0)
  BY <1>3
<1> QED BY <1>1, <1>2, <1>4 DEF jobs

NoneIsNoTask == NoTask \notin Tasks

LEMMA NoTaskIsNone == NoneIsNoTask
<1>1. NoTask[1] = "none"
  BY DEF NoTask
<1>2. \A t \in Tasks : t[1] \in {"sim", "ppa"}
  BY TasksAssumption
<1> QED BY <1>1, <1>2 DEF NoneIsNoTask

LEMMA RunNext == RunInv /\ [Next]_vars => RunInv'
<1> SUFFICES ASSUME RunInv, [Next]_vars PROVE RunInv'
  OBVIOUS
<1>1. CASE UNCHANGED vars
  <2>1. Jobs' = Jobs
    BY <1>1 DEF vars, Jobs, Requests
  <2> QED BY <1>1, <2>1 DEF vars, RunInv
<1>2. CASE Start
  <2>1. task' \in Tasks /\ disk' = disk /\ at = 0
    BY <1>2 DEF Start
  <2>2. task' # NoTask
    BY <2>1, NoTaskIsNone DEF NoneIsNoTask
  <2>3. Jobs' = Requests[task'].jobs
    BY <2>2 DEF Jobs, Requests
  <2> DEFINE jobs == Requests[task'].jobs
  <2>4. Chained(jobs, Names) /\ Len(jobs) \in Nat /\ (jobs # <<>> => Len(jobs) # 0)
    BY <2>1, TaskJobs
  <2>5. Agree(jobs, disk, 0)
    BY <2>4, StartAgrees DEF RunInv
  <2>6. jobs = <<>> => Len(jobs) = 0
    OBVIOUS
  <2>7. IF jobs = <<>> THEN at' = 0 /\ result' = "ok" ELSE at' = 1 /\ result' = "none"
    BY <1>2 DEF Start
  <2> HIDE DEF jobs
  <2>8. at' # 0 => at' \in 1 .. Len(jobs) /\ Agree(jobs, disk, at' - 1)
    <3>1. 1 - 1 = 0
      OBVIOUS
    <3> QED BY <2>4, <2>5, <2>7, <3>1
  <2>9. result' = "ok" => at' = 0 /\ Agree(jobs, disk, Len(jobs))
    BY <2>5, <2>6, <2>7
  <2>10. jobs = Jobs'
    BY <2>3 DEF jobs
  <2> QED BY <2>1, <2>4, <2>8, <2>9, <2>10 DEF RunInv
<1>3. CASE DoJob
  <2> DEFINE jobs == Requests[task].jobs
             n == at - 1
  <2>1. at # 0 /\ task \in Tasks /\ task' = task
    BY <1>3 DEF DoJob, RunInv
  <2>2. Jobs = jobs /\ Jobs' = jobs
    BY <2>1, NoTaskIsNone DEF NoneIsNoTask, Jobs, Requests
  <2>3. /\ Chained(jobs, Names) /\ Written(jobs) \subseteq Files /\ Len(jobs) \in Nat
    BY <2>1, TaskJobs
  <2>4. at \in 1 .. Len(jobs) /\ Agree(jobs, disk, n) /\ DOMAIN disk = Files
    BY <2>1, <2>2 DEF RunInv
  <2>5. disk' = Step(disk, jobs[at])
    BY <1>3, <2>2 DEF DoJob, Output, Step
  <2>6. IF at = Len(jobs) THEN at' = 0 /\ result' = "ok" ELSE at' = at + 1 /\ result' = result
    BY <1>3, <2>2 DEF DoJob
  <2>7. result # "ok"
    BY <2>1 DEF RunInv
  <2> HIDE DEF jobs
  <2>8. n \in Nat /\ n + 1 = at /\ n + 1 \in 1 .. Len(jobs)
    BY <2>3, <2>4
  <2> HIDE DEF n
  <2>9. Agree(jobs, disk', n + 1) /\ DOMAIN disk' = Files
    BY <2>3, <2>4, <2>5, <2>8, JobAgrees
  <2>10. at' # 0 => at' \in 1 .. Len(jobs) /\ Agree(jobs, disk', at' - 1)
    BY <2>3, <2>4, <2>6, <2>8, <2>9
  <2>11. result' = "ok" => at' = 0 /\ Agree(jobs, disk', Len(jobs))
    BY <2>6, <2>7, <2>8, <2>9
  <2> QED BY <2>1, <2>2, <2>3, <2>9, <2>10, <2>11 DEF RunInv
<1>4. CASE Fail \/ Crash
  <2>1. at' = 0 /\ result' = "failed"
    BY <1>4 DEF Fail, Crash
  <2>2. DOMAIN disk' = DOMAIN disk
    BY <1>4 DEF Fail, Crash
  <2> QED BY <2>1, <2>2 DEF RunInv
<1>5. CASE Relayout
  <2>1. at' = 0 /\ result' = "none" /\ DOMAIN disk' = DOMAIN disk
    BY <1>5 DEF Relayout
  <2> QED BY <2>1 DEF RunInv
<1> QED BY <1>1, <1>2, <1>3, <1>4, <1>5 DEF Next

\* A run that ends well leaves what the generators make of the sources as they are now,
\* however many runs went before, for which configurations, and wherever they were cut
\* off (gen_sparv_core.py:48).
THEOREM OutputsAreFresh == Spec => []FreshOutputs
<1>1. ASSUME RunInv PROVE FreshOutputs
  <2> SUFFICES ASSUME result = "ok", NEW f \in Written(Jobs)
               PROVE  disk[f] = Image(Jobs, From(Sources))[f]
    BY DEF FreshOutputs
  <2>1. Chained(Jobs, Names) /\ Agree(Jobs, disk, Len(Jobs))
    BY <1>1 DEF RunInv
  <2>2. DOMAIN Jobs = 1 .. Len(Jobs)
    BY <2>1 DEF Chained, IsSeq
  <2>3. f \in {Jobs[i].dst : i \in 1 .. Len(Jobs)}
    BY <2>2 DEF Written
  <2> QED BY <2>1, <2>3 DEF Agree, Image, Sources
<1> QED BY <1>1, RunInit, RunNext, PTL DEF Spec

----------------------------------------------------------------------------
\* The same text, but for the layout of marks that no silent edit looks for.
CanMove(mark) == IsMark(mark) /\ mark[1] \notin Silent
Like(a, b) == a = b \/ (CanMove(b) /\ a = Moved(b))

Alike(t, u) ==
  /\ IsText(t) /\ IsText(u) /\ Len(t) = Len(u)
  /\ \A i \in 1 .. Len(t) : Like(t[i], u[i])

LEMMA MovedFields ==
  ASSUME NEW m PROVE Moved(m)[1] = "moved" /\ Moved(m)[2] = m
BY DEF Moved

\* To the HDL compiler they are the same mark.
LEMMA LikePlain ==
  ASSUME NEW a, NEW b, Like(a, b) PROVE Plain(a) = Plain(b)
BY MovedFields DEF Like, CanMove, IsMark, Plain

\* An anchor that is found in the one is in the other.
LEMMA LikeAnchor ==
  ASSUME NEW a, NEW b, Like(a, b), NEW mark, mark[1] # "moved", a = mark PROVE b = mark
BY MovedFields DEF Like

\* What a silent edit looks for is in both or in none.
LEMMA LikeSilent ==
  ASSUME NEW a, NEW b, Like(a, b), NEW mark, mark[1] \in Silent PROVE a = mark <=> b = mark
<1>1. mark[1] # "moved"
  BY DEF Silent
<1>2. b = mark => ~CanMove(b)
  BY DEF CanMove
<1> QED BY <1>1, <1>2, LikeAnchor DEF Like

LEMMA TextFacts ==
  ASSUME NEW s, IsText(s)
  PROVE  /\ IsSeq(s) /\ Len(s) \in Nat /\ DOMAIN s = 1 .. Len(s)
         /\ \A i \in 1 .. Len(s) : IsLaidMark(s[i])
<1> DEFINE R == Range(s)
<1>1. s \in Seq(R)
  BY DEF IsText
<1> HIDE DEF R
<1>2. IsSeq(s) /\ Len(s) \in Nat /\ DOMAIN s = 1 .. Len(s)
  BY <1>1 DEF IsSeq
<1> QED BY <1>2 DEF IsText

LEMMA TextMade ==
  ASSUME NEW s, IsSeq(s), \A i \in 1 .. Len(s) : IsLaidMark(s[i]) PROVE IsText(s)
<1>1. PICK S : s \in Seq(S)
  BY DEF IsSeq
<1>2. Len(s) \in Nat /\ s \in [1 .. Len(s) -> S] /\ DOMAIN s = 1 .. Len(s)
  BY <1>1
<1>3. s \in [1 .. Len(s) -> Range(s)]
  BY <1>2 DEF Range
<1> DEFINE R == Range(s)
           n == Len(s)
<1>4. n \in Nat /\ s \in [1 .. n -> R]
  BY <1>2, <1>3
<1> HIDE DEF R, n
<1>5. s \in Seq(R)
  BY <1>4
<1> QED BY <1>2, <1>5 DEF IsText, R

LEMMA AlikeItself ==
  ASSUME NEW s, IsText(s) PROVE Alike(s, s)
BY DEF Alike, Like

LEMMA TextJoins ==
  ASSUME NEW a, NEW b, IsText(a), IsText(b)
  PROVE  /\ IsText(a \o b) /\ Len(a \o b) = Len(a) + Len(b)
         /\ \A i \in 1 .. Len(a) : (a \o b)[i] = a[i]
         /\ \A i \in 1 .. Len(b) : (a \o b)[Len(a) + i] = b[i]
<1>1. PICK S : a \in Seq(S)
  BY TextFacts DEF IsSeq
<1>2. PICK T : b \in Seq(T)
  BY TextFacts DEF IsSeq
<1> DEFINE U == S \cup T
           c == a \o b
           n == Len(a)
           m == Len(b)
<1>3. a \in Seq(U) /\ b \in Seq(U)
  <2>1. b \in Seq(T \cup S) /\ T \cup S = U
    BY <1>2, Widened
  <2> QED BY <1>1, <2>1, Widened
<1> HIDE DEF U
<1>4. /\ c \in Seq(U) /\ Len(c) = n + m /\ n \in Nat /\ m \in Nat
      /\ \A i \in 1 .. n : c[i] = a[i]
      /\ \A i \in 1 .. m : c[n + i] = b[i]
  BY <1>3
<1>5. /\ \A i \in 1 .. n : IsLaidMark(a[i])
      /\ \A i \in 1 .. m : IsLaidMark(b[i])
  BY TextFacts
<1> HIDE DEF c, n, m
<1>6. ASSUME NEW i \in 1 .. n + m PROVE IsLaidMark(c[i])
  <2>1. CASE i \in 1 .. n
    BY <2>1, <1>4, <1>5
  <2>2. CASE i \notin 1 .. n
    <3> DEFINE k == i - n
    <3>1. k \in 1 .. m /\ i = n + k
      BY <2>2, <1>4
    <3> HIDE DEF k
    <3> QED BY <3>1, <1>4, <1>5
  <2> QED BY <2>1, <2>2
<1>7. IsText(c)
  BY <1>4, <1>6, TextMade DEF IsSeq
<1> QED BY <1>4, <1>7 DEF c, n, m

LEMMA AlikeJoins ==
  ASSUME NEW a, NEW b, NEW c, NEW d, Alike(a, b), Alike(c, d)
  PROVE  Alike(a \o c, b \o d)
<1> DEFINE t == a \o c
           u == b \o d
           n == Len(a)
           m == Len(c)
<1>1. IsText(a) /\ IsText(b) /\ IsText(c) /\ IsText(d) /\ n \in Nat /\ m \in Nat
      /\ Len(b) = n /\ Len(d) = m
  BY TextFacts DEF Alike
<1>2. /\ IsText(t) /\ Len(t) = n + m
      /\ \A i \in 1 .. n : t[i] = a[i]
      /\ \A i \in 1 .. m : t[n + i] = c[i]
  BY <1>1, TextJoins
<1>3. /\ IsText(u) /\ Len(u) = n + m
      /\ \A i \in 1 .. n : u[i] = b[i]
      /\ \A i \in 1 .. m : u[n + i] = d[i]
  BY <1>1, TextJoins
<1> HIDE DEF t, u
<1>4. ASSUME NEW i \in 1 .. n + m PROVE Like(t[i], u[i])
  <2>1. CASE i \in 1 .. n
    BY <2>1, <1>2, <1>3 DEF Alike
  <2>2. CASE i \notin 1 .. n
    <3> DEFINE k == i - n
    <3>1. k \in 1 .. m /\ i = n + k
      BY <2>2, <1>1
    <3> HIDE DEF k
    <3>2. t[i] = c[k] /\ u[i] = d[k]
      BY <3>1, <1>2, <1>3
    <3> QED BY <3>1, <3>2 DEF Alike
  <2> QED BY <2>1, <2>2
<1>5. Alike(t, u)
  BY <1>2, <1>3, <1>4 DEF Alike
<1> QED BY <1>5 DEF t, u

LEMMA TextParts ==
  ASSUME NEW t, IsText(t), NEW m \in 1 .. Len(t) + 1, NEW n \in m - 1 .. Len(t)
  PROVE  /\ IsText(SubSeq(t, m, n)) /\ Len(SubSeq(t, m, n)) = n - m + 1
         /\ \A i \in 1 .. n - m + 1 : SubSeq(t, m, n)[i] = t[m + i - 1]
<1> DEFINE a == SubSeq(t, m, n)
<1>1. Len(t) \in Nat /\ \A i \in 1 .. Len(t) : IsLaidMark(t[i])
  BY TextFacts
<1>2. PICK S : t \in Seq(S)
  BY TextFacts DEF IsSeq
<1>3. a \in Seq(S) /\ Len(a) = n - m + 1 /\ \A i \in 1 .. n - m + 1 : a[i] = t[m + i - 1]
  BY <1>2, SubSeqProperties
<1> HIDE DEF a
<1>4. \A i \in 1 .. n - m + 1 : m + i - 1 \in 1 .. Len(t)
  BY <1>1
<1>5. IsText(a)
  BY <1>1, <1>3, <1>4, TextMade DEF IsSeq
<1> QED BY <1>3, <1>5 DEF a

LEMMA AlikeParts ==
  ASSUME NEW t, NEW u, Alike(t, u), NEW m \in 1 .. Len(t) + 1, NEW n \in m - 1 .. Len(t)
  PROVE  Alike(SubSeq(t, m, n), SubSeq(u, m, n))
<1> DEFINE a == SubSeq(t, m, n)
           b == SubSeq(u, m, n)
<1>1. IsText(t) /\ IsText(u) /\ Len(t) \in Nat /\ Len(u) = Len(t)
  BY TextFacts DEF Alike
<1>2. m \in 1 .. Len(u) + 1 /\ n \in m - 1 .. Len(u)
  BY <1>1
<1>3. /\ IsText(a) /\ Len(a) = n - m + 1
      /\ \A i \in 1 .. n - m + 1 : a[i] = t[m + i - 1]
  BY <1>1, TextParts
<1>4. /\ IsText(b) /\ Len(b) = n - m + 1
      /\ \A i \in 1 .. n - m + 1 : b[i] = u[m + i - 1]
  BY <1>1, <1>2, TextParts
<1> HIDE DEF a, b
<1>5. ASSUME NEW i \in 1 .. n - m + 1 PROVE Like(a[i], b[i])
  <2>1. m + i - 1 \in 1 .. Len(t)
    BY <1>1
  <2> QED BY <2>1, <1>3, <1>4 DEF Alike
<1>6. Alike(a, b)
  BY <1>3, <1>4, <1>5 DEF Alike
<1> QED BY <1>6 DEF a, b

LEMMA AlikeSplice ==
  ASSUME NEW t, NEW u, Alike(t, u), NEW new, IsText(new),
         NEW from \in 1 .. Len(t) + 1, NEW to \in 1 .. Len(t) + 1
  PROVE  Alike(Splice(t, from, to, new), Splice(u, from, to, new))
<1>1. Len(t) \in Nat /\ Len(u) = Len(t)
  BY TextFacts DEF Alike
<1>2. from - 1 \in 1 - 1 .. Len(t) /\ 1 \in 1 .. Len(t) + 1
      /\ Len(t) \in to - 1 .. Len(t)
  BY <1>1
<1>3. Alike(SubSeq(t, 1, from - 1), SubSeq(u, 1, from - 1))
  BY <1>2, AlikeParts
<1>4. Alike(SubSeq(t, to, Len(t)), SubSeq(u, to, Len(u)))
  BY <1>1, <1>2, AlikeParts
<1>5. Alike(SubSeq(t, 1, from - 1) \o new, SubSeq(u, 1, from - 1) \o new)
  BY <1>3, AlikeItself, AlikeJoins
<1>6. Alike((SubSeq(t, 1, from - 1) \o new) \o SubSeq(t, to, Len(t)),
            (SubSeq(u, 1, from - 1) \o new) \o SubSeq(u, to, Len(u)))
  BY <1>4, <1>5, AlikeJoins
<1> QED BY <1>6 DEF Splice

LEMMA EmptyText == IsText(<<>>)
<1>1. <<>> \in Seq({}) /\ Len(<<>>) = 0 /\ 1 .. 0 = {}
  OBVIOUS
<1> QED BY <1>1, TextMade DEF IsSeq

LEMMA OneMark ==
  ASSUME NEW a, IsLaidMark(a)
  PROVE  IsText(<<a>>) /\ Len(<<a>>) = 1 /\ <<a>>[1] = a
<1> DEFINE s == <<a>>
<1>1. s \in Seq({a}) /\ Len(s) = 1 /\ s[1] = a
  OBVIOUS
<1>2. \A i \in 1 .. 1 : i = 1
  OBVIOUS
<1> HIDE DEF s
<1>3. IsText(s)
  BY <1>1, <1>2, TextMade DEF IsSeq
<1> QED BY <1>1, <1>3 DEF s

\* Where an anchor is: in the one place of the text as committed, or nowhere.
LEMMA AnchorPlace ==
  ASSUME NEW t, NEW u, Alike(t, u), NEW mark, AtOnePlace(u, mark)
  PROVE  \E i \in 1 .. Len(t) : /\ Places(u, mark) = {i}
                                /\ Places(t, mark) = {} \/ Places(t, mark) = {i}
<1>1. PICK i \in DOMAIN u : Places(u, mark) = {i}
  BY DEF AtOnePlace
<1>2. DOMAIN t = 1 .. Len(t) /\ DOMAIN u = 1 .. Len(t)
  BY TextFacts DEF Alike
<1>3. \A k \in 1 .. Len(t) : t[k] = mark => u[k] = mark
  BY LikeAnchor DEF Alike, AtOnePlace
<1>4. Places(t, mark) \subseteq Places(u, mark)
  BY <1>2, <1>3 DEF Places
<1> QED BY <1>1, <1>2, <1>4

LEMMA EarliestOne ==
  ASSUME NEW i \in Nat PROVE Earliest({i}) = i
BY DEF Earliest

LEMMA OnceAlike ==
  ASSUME NEW t, NEW u, Alike(t, u), NEW old, AtOnePlace(u, old), NEW new, IsText(new),
         replace_once(t, old, new) # Failed
  PROVE  Alike(replace_once(t, old, new), replace_once(u, old, new))
<1>1. PICK i \in 1 .. Len(t) : /\ Places(u, old) = {i}
                               /\ Places(t, old) = {} \/ Places(t, old) = {i}
  BY AnchorPlace
<1>2. Cardinality({}) = 0 /\ Cardinality({i}) = 1
  BY FS_EmptySet, FS_Singleton
<1>3. Places(t, old) = {i}
  <2>1. Cardinality(Places(t, old)) = 1
    BY DEF replace_once
  <2>2. ASSUME Places(t, old) = {} PROVE FALSE
    <3>1. Cardinality(Places(t, old)) = 0
      BY <2>2, <1>2, Zenon
    <3> QED BY <2>1, <3>1
  <2> QED BY <2>2, <1>1
<1>4. Len(t) \in Nat /\ i \in Nat
  BY TextFacts DEF Alike
<1>5. Earliest({i}) = i
  BY <1>4, EarliestOne
<1>6. /\ replace_once(t, old, new) = Splice(t, i, i + 1, new)
      /\ replace_once(u, old, new) = Splice(u, i, i + 1, new)
  BY <1>1, <1>2, <1>3, <1>5 DEF replace_once
<1>7. i \in 1 .. Len(t) + 1 /\ i + 1 \in 1 .. Len(t) + 1
  BY <1>4
<1> QED BY <1>6, <1>7, AlikeSplice

LEMMA RegionAlike ==
  ASSUME NEW t, NEW u, Alike(t, u), NEW start, NEW end,
         AtOnePlace(u, start), AtOnePlace(u, end), NEW new, IsText(new),
         replace_region(t, start, end, new) # Failed
  PROVE  Alike(replace_region(t, start, end, new), replace_region(u, start, end, new))
<1>1. PICK i \in 1 .. Len(t) : /\ Places(u, start) = {i}
                               /\ Places(t, start) = {} \/ Places(t, start) = {i}
  BY AnchorPlace
<1>2. PICK j \in 1 .. Len(t) : /\ Places(u, end) = {j}
                               /\ Places(t, end) = {} \/ Places(t, end) = {j}
  BY AnchorPlace
<1>3. Len(t) \in Nat /\ i \in Nat /\ j \in Nat
  BY TextFacts DEF Alike
<1>4. Earliest({i}) = i /\ Earliest({j}) = j
  BY <1>3, EarliestOne
<1> DEFINE To(s) == {k \in Places(s, end) :
                       \E h \in Places(s, start) : h < k /\ h = Earliest(Places(s, start))}
<1>5. Places(t, start) # {} /\ To(t) # {}
  BY DEF replace_region
<1>6. Places(t, start) = {i} /\ Places(t, end) = {j} /\ i < j
  <2>1. Places(t, start) = {i}
    BY <1>1, <1>5
  <2>2. Places(t, end) = {j}
    BY <1>2, <1>5
  <2> QED BY <2>1, <2>2, <1>5
<1>7. To(t) = {j} /\ To(u) = {j}
  BY <1>1, <1>2, <1>4, <1>6
<1>8. /\ replace_region(t, start, end, new) = Splice(t, i, j, new)
      /\ replace_region(u, start, end, new) = Splice(u, i, j, new)
  BY <1>1, <1>4, <1>6, <1>7 DEF replace_region
<1>9. i \in 1 .. Len(t) + 1 /\ j \in 1 .. Len(t) + 1
  BY <1>3
<1> QED BY <1>8, <1>9, AlikeSplice

LEMMA FirstAlike ==
  ASSUME NEW t, NEW u, Alike(t, u), NEW marker, AtOnePlace(u, marker), NEW new, IsText(new),
         NEW after \in {0, 1}, insert_first(t, marker, new, after) # Failed
  PROVE  Alike(insert_first(t, marker, new, after), insert_first(u, marker, new, after))
<1>1. PICK i \in 1 .. Len(t) : /\ Places(u, marker) = {i}
                               /\ Places(t, marker) = {} \/ Places(t, marker) = {i}
  BY AnchorPlace
<1>2. Places(t, marker) = {i}
  BY <1>1 DEF insert_first
<1>3. Len(t) \in Nat /\ i \in Nat
  BY TextFacts DEF Alike
<1>4. Earliest({i}) = i
  BY <1>3, EarliestOne
<1>5. /\ insert_first(t, marker, new, after) = Splice(t, i + after, i + after, new)
      /\ insert_first(u, marker, new, after) = Splice(u, i + after, i + after, new)
  BY <1>1, <1>2, <1>4 DEF insert_first
<1>6. i + after \in 1 .. Len(t) + 1
  BY <1>3
<1> QED BY <1>5, <1>6, AlikeSplice

\* str.replace, one mark after the other.
Piece(text, old, new, n) == IF text[n] = old THEN new ELSE <<text[n]>>
Added(before, text, old, new, n) == before \o Piece(text, old, new, n)
Replaces(text, old, new, g, n) ==
  g = [i \in 0 .. n |-> IF i = 0 THEN <<>> ELSE Added(g[i - 1], text, old, new, i)]

LEMMA ReplacingUnfolds ==
  ASSUME NEW text, NEW old, NEW new, Len(text) \in Nat
  PROVE  \E g : Replaces(text, old, new, g, Len(text))
               /\ replace_all(text, old, new) = g[Len(text)]
<1> DEFINE S == {n \in Nat : \E g : Replaces(text, old, new, g, n)}
<1>1. 0 \in S
  <2>1. Replaces(text, old, new, [i \in 0 .. 0 |-> <<>>], 0)
    BY DEF Replaces
  <2> QED BY <2>1
<1>2. \A n \in Nat : n \in S => n + 1 \in S
  <2> SUFFICES ASSUME NEW n \in Nat, NEW g, Replaces(text, old, new, g, n)
               PROVE  \E h : Replaces(text, old, new, h, n + 1)
    OBVIOUS
  <2> DEFINE h == [i \in 0 .. n + 1 |->
                     IF i = n + 1 THEN Added(g[n], text, old, new, n + 1) ELSE g[i]]
  <2>1. \A i \in 0 .. n : h[i] = g[i]
    OBVIOUS
  <2>2. \A i \in 0 .. n + 1 :
          h[i] = IF i = 0 THEN <<>> ELSE Added(h[i - 1], text, old, new, i)
    BY <2>1 DEF Replaces
  <2>3. Replaces(text, old, new, h, n + 1)
    BY <2>2 DEF Replaces
  <2> QED BY <2>3
<1> HIDE DEF S
<1>3. Len(text) \in S
  BY <1>1, <1>2, SetInduction
<1> DEFINE done == CHOOSE g : Replaces(text, old, new, g, Len(text))
<1>4. Replaces(text, old, new, done, Len(text))
  BY <1>3 DEF S
<1>5. replace_all(text, old, new) = done[Len(text)]
  BY DEF replace_all, Replaces, Added, Piece
<1> QED BY <1>4, <1>5

LEMMA AllAlike ==
  ASSUME NEW t, NEW u, Alike(t, u), NEW old, old[1] \in Silent, NEW new, IsText(new)
  PROVE  Alike(replace_all(t, old, new), replace_all(u, old, new))
<1>1. Len(t) \in Nat /\ Len(u) = Len(t)
  BY TextFacts DEF Alike
<1>2. PICK g : /\ Replaces(t, old, new, g, Len(t))
               /\ replace_all(t, old, new) = g[Len(t)]
  BY <1>1, ReplacingUnfolds
<1>3. PICK h : /\ Replaces(u, old, new, h, Len(t))
               /\ replace_all(u, old, new) = h[Len(t)]
  BY <1>1, ReplacingUnfolds
<1> DEFINE S == {n \in Nat : n <= Len(t) => Alike(g[n], h[n])}
<1>4. 0 \in S
  <2>1. g[0] = <<>> /\ h[0] = <<>>
    BY <1>1, <1>2, <1>3 DEF Replaces
  <2>2. IsText(<<>>)
    BY EmptyText
  <2> QED BY <2>1, <2>2, AlikeItself
<1>5. ASSUME NEW n \in Nat, n \in S PROVE n + 1 \in S
  <2> SUFFICES ASSUME n + 1 <= Len(t) PROVE Alike(g[n + 1], h[n + 1])
    OBVIOUS
  <2>1. n + 1 \in 0 .. Len(t) /\ n + 1 # 0 /\ (n + 1) - 1 = n /\ n + 1 \in 1 .. Len(t)
    BY <1>1
  <2>2. /\ g[n + 1] = g[n] \o Piece(t, old, new, n + 1)
        /\ h[n + 1] = h[n] \o Piece(u, old, new, n + 1)
    BY <2>1, <1>2, <1>3 DEF Replaces, Added
  <2>3. Like(t[n + 1], u[n + 1])
    BY <2>1 DEF Alike
  <2>4. Alike(Piece(t, old, new, n + 1), Piece(u, old, new, n + 1))
    <3>1. CASE t[n + 1] = old
      <4>1. u[n + 1] = old
        BY <3>1, <2>3, LikeSilent
      <4> QED BY <3>1, <4>1, AlikeItself DEF Piece
    <3>2. CASE t[n + 1] # old
      <4>1. u[n + 1] # old
        BY <3>2, <2>3, LikeSilent
      <4>2. /\ Piece(t, old, new, n + 1) = <<t[n + 1]>>
            /\ Piece(u, old, new, n + 1) = <<u[n + 1]>>
        BY <3>2, <4>1 DEF Piece
      <4> DEFINE a == t[n + 1]
                 b == u[n + 1]
      <4>3. Like(a, b)
        BY <2>3
      <4> HIDE DEF a, b
      <4>4. IsLaidMark(a) /\ IsLaidMark(b)
        BY <2>1, <1>1, TextFacts DEF Alike, a, b
      <4>5. IsText(<<a>>) /\ IsText(<<b>>) /\ Len(<<a>>) = 1 /\ Len(<<b>>) = 1
            /\ <<a>>[1] = a /\ <<b>>[1] = b
        BY <4>4, OneMark
      <4>6. \A i \in 1 .. 1 : i = 1
        OBVIOUS
      <4>7. Alike(<<a>>, <<b>>)
        BY <4>3, <4>5, <4>6 DEF Alike
      <4> QED BY <4>2, <4>7 DEF a, b
    <3> QED BY <3>1, <3>2
  <2>5. Alike(g[n], h[n])
    BY <2>1, <1>5
  <2> QED BY <2>2, <2>4, <2>5, AlikeJoins
<1> HIDE DEF S
<1>6. Len(t) \in S
  BY <1>1, <1>4, <1>5, SetInduction
<1> QED BY <1>1, <1>2, <1>3, <1>6 DEF S

\* A name is replaced in whatever layout its mark stands.
Bears(mark, old) == Len(Plain(mark)) > 1 /\ Plain(mark)[2] = old
Newly(mark, new) == IF mark[1] = "moved" THEN Moved([mark[2] EXCEPT ![2] = new])
                    ELSE [mark EXCEPT ![2] = new]
Substituted(mark, old, new) == IF Bears(mark, old) THEN Newly(mark, new) ELSE mark

LEMMA Exchanged ==
  ASSUME NEW S, NEW b \in Seq(S), NEW new \in S, 1 \in DOMAIN b
  PROVE  /\ [b EXCEPT ![2] = new] \in Seq(S)
         /\ DOMAIN [b EXCEPT ![2] = new] = DOMAIN b
         /\ [b EXCEPT ![2] = new][1] = b[1]
<1>1. Len(b) \in Nat /\ b \in [1 .. Len(b) -> S] /\ DOMAIN b = 1 .. Len(b)
  OBVIOUS
<1> DEFINE c == [b EXCEPT ![2] = new]
           n == Len(b)
<1>2. DOMAIN c = DOMAIN b
  OBVIOUS
<1>3. c[1] = b[1]
  OBVIOUS
<1>4. n \in Nat /\ b \in [1 .. n -> S]
  BY <1>1
<1> HIDE DEF n
<1>5. c \in [1 .. n -> S]
  BY <1>4
<1> HIDE DEF c
<1>6. c \in Seq(S)
  BY <1>4, <1>5
<1> QED BY <1>2, <1>3, <1>6 DEF c

LEMMA NewMark ==
  ASSUME NEW b, IsMark(b), NEW new \in STRING
  PROVE  IsMark([b EXCEPT ![2] = new]) /\ [b EXCEPT ![2] = new][1] = b[1]
<1>1. b \in Seq(STRING) /\ 1 \in DOMAIN b /\ b[1] # "moved"
  BY DEF IsMark
<1> DEFINE c == [b EXCEPT ![2] = new]
<1>2. c \in Seq(STRING) /\ DOMAIN c = DOMAIN b /\ c[1] = b[1]
  BY <1>1, Exchanged, Zenon
<1> HIDE DEF c
<1>3. IsMark(c) /\ c[1] = b[1]
  BY <1>1, <1>2 DEF IsMark
<1> QED BY <1>3 DEF c

LEMMA RenamedMark ==
  ASSUME NEW a, IsLaidMark(a), NEW old, NEW new \in STRING
  PROVE  IsLaidMark(Substituted(a, old, new))
<1>1. CASE a[1] = "moved"
  <2> DEFINE c == [a[2] EXCEPT ![2] = new]
  <2>1. IsMark(c)
    BY <1>1, NewMark DEF IsLaidMark
  <2>2. Newly(a, new) = Moved(c)
    BY <1>1 DEF Newly
  <2> HIDE DEF c
  <2>3. IsLaidMark(Moved(c))
    BY <2>1, MovedFields DEF IsLaidMark
  <2> QED BY <2>2, <2>3 DEF Substituted
<1>2. CASE a[1] # "moved"
  <2> DEFINE c == [a EXCEPT ![2] = new]
  <2>1. IsMark(c)
    BY <1>2, NewMark DEF IsLaidMark
  <2>2. Newly(a, new) = c
    BY <1>2 DEF Newly
  <2> HIDE DEF c
  <2>3. IsLaidMark(c)
    BY <2>1 DEF IsLaidMark, IsMark
  <2> QED BY <2>2, <2>3 DEF Substituted
<1> QED BY <1>1, <1>2

LEMMA RenamedLike ==
  ASSUME NEW a, NEW b, Like(a, b), NEW old, NEW new \in STRING
  PROVE  /\ Bears(a, old) <=> Bears(b, old)
         /\ Like(Substituted(a, old, new), Substituted(b, old, new))
<1>1. Plain(a) = Plain(b)
  BY LikePlain
<1>2. Bears(a, old) <=> Bears(b, old)
  BY <1>1 DEF Bears
<1>3. CASE a = b
  BY <1>2, <1>3 DEF Like
<1>4. CASE CanMove(b) /\ a = Moved(b)
  <2>1. a[1] = "moved" /\ a[2] = b /\ b[1] # "moved" /\ IsMark(b)
    BY <1>4, MovedFields DEF CanMove, IsMark
  <2> DEFINE c == [b EXCEPT ![2] = new]
  <2>2. Newly(a, new) = Moved(c) /\ Newly(b, new) = c
    BY <2>1 DEF Newly
  <2>3. IsMark(c) /\ c[1] = b[1]
    BY <2>1, NewMark
  <2> HIDE DEF c
  <2>4. CanMove(c)
    BY <2>3, <1>4 DEF CanMove
  <2> QED BY <2>2, <2>4, <1>2, <1>4 DEF Substituted, Like
<1> QED BY <1>2, <1>3, <1>4 DEF Like

LEMMA RenameAlike ==
  ASSUME NEW t, NEW u, Alike(t, u), NEW old, NEW new \in STRING,
         replace_required(t, old, new) # Failed
  PROVE  Alike(replace_required(t, old, new), replace_required(u, old, new))
<1> DEFINE R(s) == [i \in DOMAIN s |-> Substituted(s[i], old, new)]
<1>1. /\ Len(t) \in Nat /\ Len(u) = Len(t) /\ DOMAIN t = 1 .. Len(t) /\ DOMAIN u = 1 .. Len(t)
      /\ IsText(t) /\ IsText(u)
  BY TextFacts DEF Alike
<1>2. ASSUME NEW i \in 1 .. Len(t)
      PROVE  /\ Bears(t[i], old) <=> Bears(u[i], old)
             /\ Like(Substituted(t[i], old, new), Substituted(u[i], old, new))
  <2>1. Like(t[i], u[i])
    BY DEF Alike
  <2> QED BY <2>1, RenamedLike
<1>3. \A s : replace_required(s, old, new) =
            IF \A i \in DOMAIN s : ~Bears(s[i], old) THEN Failed ELSE R(s)
  BY DEF replace_required, Bears, Substituted, Newly
<1>4. /\ replace_required(t, old, new) = R(t) /\ \E i \in 1 .. Len(t) : Bears(t[i], old)
  BY <1>1, <1>3
<1>5. replace_required(u, old, new) = R(u)
  BY <1>1, <1>2, <1>3, <1>4
<1>6. ASSUME NEW s, IsText(s), DOMAIN s = 1 .. Len(t)
      PROVE  IsText(R(s)) /\ Len(R(s)) = Len(t)
  <2> DEFINE r == R(s)
             S == {Substituted(s[i], old, new) : i \in 1 .. Len(t)}
  <2>1. r \in [1 .. Len(t) -> S] /\ \A i \in 1 .. Len(t) : r[i] = Substituted(s[i], old, new)
    BY <1>6
  <2>2. Len(s) = Len(t)
    BY <1>1, <1>6, TextFacts
  <2>3. \A i \in 1 .. Len(t) : IsLaidMark(Substituted(s[i], old, new))
    BY <1>6, <2>2, TextFacts, RenamedMark
  <2> HIDE DEF r, S
  <2>4. r \in Seq(S) /\ Len(r) = Len(t)
    BY <2>1, <1>1
  <2>5. IsText(r)
    BY <2>1, <2>3, <2>4, TextMade DEF IsSeq
  <2> QED BY <2>4, <2>5 DEF r
<1>7. Alike(R(t), R(u))
  <2>1. \A i \in 1 .. Len(t) : Like(R(t)[i], R(u)[i])
    BY <1>1, <1>2
  <2>2. IsText(R(t)) /\ IsText(R(u)) /\ Len(R(t)) = Len(t) /\ Len(R(u)) = Len(t)
    BY <1>1, <1>6
  <2> HIDE DEF R
  <2> QED BY <2>1, <2>2 DEF Alike
<1> QED BY <1>4, <1>5, <1>7

\* No text stands for none.
LEMMA TextIsText ==
  ASSUME NEW s, IsText(s) PROVE s \notin {Absent, Failed}
<1> DEFINE A == STRING
           B == Seq(STRING)
           U == {"moved"} \cup (A \cup B)
<1>1. ASSUME NEW m, IsLaidMark(m) PROVE m \in Seq(U)
  <2>1. CASE m[1] = "moved"
    <3> DEFINE b == m[2]
    <3>1. m = <<"moved", b>> /\ b \in B
      BY <1>1, <2>1 DEF IsLaidMark, IsMark, Moved
    <3> HIDE DEF b, A, B
    <3> QED BY <3>1
  <2>2. CASE m[1] # "moved"
    <3>1. m \in Seq(A)
      BY <1>1, <2>2 DEF IsLaidMark, IsMark
    <3> HIDE DEF A, B
    <3>2. A \cup (B \cup {"moved"}) = U
      OBVIOUS
    <3>3. m \in Seq(A \cup (B \cup {"moved"}))
      BY <3>1, Widened
    <3> QED BY <3>2, <3>3
  <2> QED BY <2>1, <2>2
<1>2. PICK S : s \in Seq(S)
  BY TextFacts DEF IsSeq
<1>3. \A i \in 1 .. Len(s) : s[i] \in Seq(U)
  BY <1>1, TextFacts
<1>4. s \in Seq(Seq(U))
  <2> HIDE DEF A, B, U
  <2> DEFINE V == Seq(U)
  <2>1. \A i \in 1 .. Len(s) : s[i] \in V
    BY <1>3
  <2> HIDE DEF V
  <2>2. s \in Seq(V)
    BY <1>2, <2>1
  <2> QED BY <2>2 DEF V
<1> QED BY <1>4, NoTextAssumption, Zenon

\* One edit of a list.
LEMMA EditAlike ==
  ASSUME NEW t, NEW u, Alike(t, u), NEW e, Anchored(u, e, Silent),
         Edited(t, e) # Failed
  PROVE  Alike(Edited(t, e), Edited(u, e))
<1>1. t # Failed /\ u # Failed
  BY TextIsText DEF Alike
<1>2. e.op # "rename" => IsText(e.new)
  BY DEF Anchored
<1>3. CASE e.op = "once"
  <2>1. Edited(t, e) = replace_once(t, e.old, e.new) /\ Edited(u, e) = replace_once(u, e.old, e.new)
    BY <1>1, <1>3 DEF Edited
  <2>2. AtOnePlace(u, e.old)
    BY <1>3 DEF Anchored
  <2> QED BY <1>2, <1>3, <2>1, <2>2, OnceAlike
<1>4. CASE e.op = "region"
  <2>1. /\ Edited(t, e) = replace_region(t, e.old, e.end, e.new)
        /\ Edited(u, e) = replace_region(u, e.old, e.end, e.new)
    BY <1>1, <1>4 DEF Edited
  <2>2. AtOnePlace(u, e.old) /\ AtOnePlace(u, e.end)
    BY <1>4 DEF Anchored
  <2> QED BY <1>2, <1>4, <2>1, <2>2, RegionAlike
<1>5. ASSUME NEW after \in {0, 1}, AtOnePlace(u, e.old), e.op # "rename",
             insert_first(t, e.old, e.new, after) # Failed
      PROVE  Alike(insert_first(t, e.old, e.new, after), insert_first(u, e.old, e.new, after))
  BY <1>2, <1>5, FirstAlike
<1>6. CASE e.op = "first"
  <2>1. /\ Edited(t, e) = insert_first(t, e.old, e.new, 0)
        /\ Edited(u, e) = insert_first(u, e.old, e.new, 0)
    BY <1>1, <1>6 DEF Edited
  <2>2. AtOnePlace(u, e.old)
    BY <1>6 DEF Anchored
  <2> QED BY <1>5, <1>6, <2>1, <2>2
<1>7. CASE e.op = "after"
  <2>1. /\ Edited(t, e) = insert_first(t, e.old, e.new, 1)
        /\ Edited(u, e) = insert_first(u, e.old, e.new, 1)
    BY <1>1, <1>7 DEF Edited
  <2>2. AtOnePlace(u, e.old)
    BY <1>7 DEF Anchored
  <2> QED BY <1>5, <1>7, <2>1, <2>2
<1>8. CASE e.op = "unless"
  <2>1. AtOnePlace(u, e.old) /\ e.seen[1] # "moved" /\ Places(u, e.seen) = {}
    BY <1>8 DEF Anchored
  <2>2. Places(t, e.seen) = {}
    <3>1. DOMAIN t = 1 .. Len(t) /\ DOMAIN u = 1 .. Len(t)
      BY TextFacts DEF Alike
    <3>2. \A k \in 1 .. Len(t) : t[k] = e.seen => u[k] = e.seen
      BY <2>1, LikeAnchor DEF Alike
    <3> QED BY <2>1, <3>1, <3>2 DEF Places
  <2>3. /\ Edited(t, e) = insert_first(t, e.old, e.new, 1)
        /\ Edited(u, e) = insert_first(u, e.old, e.new, 1)
    BY <1>1, <1>8, <2>1, <2>2 DEF Edited
  <2> QED BY <1>5, <1>8, <2>1, <2>3
<1>9. CASE e.op = "all"
  <2>1. Edited(t, e) = replace_all(t, e.old, e.new) /\ Edited(u, e) = replace_all(u, e.old, e.new)
    BY <1>1, <1>9 DEF Edited
  <2>2. e.old[1] \in Silent
    BY <1>9 DEF Anchored
  <2> QED BY <1>2, <1>9, <2>1, <2>2, AllAlike
<1>10. CASE e.op = "rename"
  <2>1. /\ Edited(t, e) = replace_required(t, e.old, e.new)
        /\ Edited(u, e) = replace_required(u, e.old, e.new)
    BY <1>1, <1>10 DEF Edited
  <2>2. e.new \in STRING
    BY <1>10 DEF Anchored
  <2> QED BY <2>1, <2>2, RenameAlike
<1> QED BY <1>3, <1>4, <1>6, <1>7, <1>8, <1>9, <1>10 DEF Anchored

\* A list of edits.
Drafted(edits, text, g, n) ==
  g = [i \in 0 .. n |-> IF i = 0 THEN text ELSE Edited(g[i - 1], edits[i])]

LEMMA DraftsUnfold ==
  ASSUME NEW edits, NEW text, Len(edits) \in Nat
  PROVE  /\ Drafts(edits, text)[0] = text
         /\ \A n \in 0 .. Len(edits) - 1 :
              Drafts(edits, text)[n + 1] = Edited(Drafts(edits, text)[n], edits[n + 1])
<1> DEFINE S == {n \in Nat : \E g : Drafted(edits, text, g, n)}
<1>1. 0 \in S
  <2>1. Drafted(edits, text, [i \in 0 .. 0 |-> text], 0)
    BY DEF Drafted
  <2> QED BY <2>1
<1>2. \A n \in Nat : n \in S => n + 1 \in S
  <2> SUFFICES ASSUME NEW n \in Nat, NEW g, Drafted(edits, text, g, n)
               PROVE  \E h : Drafted(edits, text, h, n + 1)
    OBVIOUS
  <2> DEFINE h == [i \in 0 .. n + 1 |->
                     IF i = n + 1 THEN Edited(g[n], edits[n + 1]) ELSE g[i]]
  <2>1. \A i \in 0 .. n : h[i] = g[i]
    OBVIOUS
  <2>2. \A i \in 0 .. n + 1 : h[i] = IF i = 0 THEN text ELSE Edited(h[i - 1], edits[i])
    BY <2>1 DEF Drafted
  <2>3. Drafted(edits, text, h, n + 1)
    BY <2>2 DEF Drafted
  <2> QED BY <2>3
<1> HIDE DEF S
<1>3. Len(edits) \in S
  BY <1>1, <1>2, SetInduction
<1> DEFINE draft == CHOOSE g : Drafted(edits, text, g, Len(edits))
<1>4. Drafted(edits, text, draft, Len(edits))
  BY <1>3 DEF S
<1>5. Drafts(edits, text) = draft
  BY DEF Drafts, Drafted
<1> HIDE DEF draft
<1>6. draft[0] = text
  BY <1>4 DEF Drafted
<1>7. ASSUME NEW n \in 0 .. Len(edits) - 1 PROVE draft[n + 1] = Edited(draft[n], edits[n + 1])
  <2>1. n + 1 \in 0 .. Len(edits) /\ n + 1 # 0 /\ (n + 1) - 1 = n
    OBVIOUS
  <2> QED BY <1>4, <2>1 DEF Drafted
<1> QED BY <1>5, <1>6, <1>7

LEMMA EditsAlike ==
  ASSUME NEW t, NEW u, Alike(t, u), NEW edits, Len(edits) \in Nat,
         \A k \in 1 .. Len(edits) : Anchored(Drafts(edits, u)[k - 1], edits[k], Silent),
         Apply(edits, t) # Failed
  PROVE  Alike(Apply(edits, t), Apply(edits, u))
<1> DEFINE g == Drafts(edits, t)
           h == Drafts(edits, u)
           m == Len(edits)
<1>1. /\ g[0] = t /\ \A n \in 0 .. m - 1 : g[n + 1] = Edited(g[n], edits[n + 1])
      /\ h[0] = u /\ \A n \in 0 .. m - 1 : h[n + 1] = Edited(h[n], edits[n + 1])
  BY DraftsUnfold
<1>2. /\ \A k \in 1 .. m : Anchored(h[k - 1], edits[k], Silent)
      /\ Apply(edits, t) = g[m] /\ Apply(edits, u) = h[m]
  BY DEF Apply
<1> HIDE DEF g, h
<1> DEFINE S == {n \in Nat : n <= m => g[n] = Failed \/ Alike(g[n], h[n])}
<1>3. 0 \in S
  BY <1>1
<1>4. ASSUME NEW n \in Nat, n \in S PROVE n + 1 \in S
  <2> SUFFICES ASSUME n + 1 <= m, g[n + 1] # Failed PROVE Alike(g[n + 1], h[n + 1])
    OBVIOUS
  <2>1. n \in 0 .. m - 1 /\ n + 1 \in 1 .. m /\ (n + 1) - 1 = n /\ n <= m
    OBVIOUS
  <2>2. g[n + 1] = Edited(g[n], edits[n + 1]) /\ h[n + 1] = Edited(h[n], edits[n + 1])
    BY <1>1, <2>1
  <2>3. g[n] # Failed
    BY <2>2 DEF Edited
  <2>4. Alike(g[n], h[n])
    BY <1>4, <2>1, <2>3
  <2>5. Anchored(h[n], edits[n + 1], Silent)
    BY <1>2, <2>1
  <2> QED BY <2>2, <2>4, <2>5, EditAlike
<1> HIDE DEF S
<1>5. m \in S
  BY <1>3, <1>4, SetInduction
<1> QED BY <1>2, <1>5 DEF S

----------------------------------------------------------------------------
\* The layouts: where the sources are, and what they are compared with.
IsMove(m) == m = <<>> \/ \E f \in DOMAIN Preserved : \E i \in DOMAIN Preserved[f] : m = <<f, i>>
Layout(m) == IF m = <<>> THEN Preserved ELSE Laid(m[1], m[2])
Base(m) == IF m = <<>> \/ ~Unchecked(Preserved[m[1]][m[2]]) THEN Preserved ELSE Layout(m)

LEMMA LaidText ==
  ASSUME NEW f \in DOMAIN Preserved, NEW i \in DOMAIN Preserved[f]
  PROVE  /\ DOMAIN Laid(f, i) = DOMAIN Preserved
         /\ \A x \in DOMAIN Preserved : x # f => Laid(f, i)[x] = Preserved[x]
         /\ IsText(Laid(f, i)[f]) /\ Len(Laid(f, i)[f]) = Len(Preserved[f])
         /\ \A k \in 1 .. Len(Preserved[f]) :
              Laid(f, i)[f][k] = IF k = i THEN Moved(Preserved[f][i]) ELSE Preserved[f][k]
<1> DEFINE p == Preserved[f]
           q == [p EXCEPT ![i] = Moved(p[i])]
           n == Len(p)
<1>1. /\ DOMAIN Laid(f, i) = DOMAIN Preserved /\ Laid(f, i)[f] = q
      /\ \A x \in DOMAIN Preserved : x # f => Laid(f, i)[x] = Preserved[x]
  <2>1. Laid(f, i) = [Preserved EXCEPT ![f] = [Preserved[f] EXCEPT ![i] = Moved(Preserved[f][i])]]
    BY Zenon DEF Laid
  <2>2. Laid(f, i) = [Preserved EXCEPT ![f] = q]
    BY <2>1 DEF p, q
  <2> HIDE DEF q
  <2> QED BY <2>2
<1>2. IsText(p) /\ n \in Nat /\ DOMAIN p = 1 .. n /\ i \in 1 .. n
      /\ \A k \in 1 .. n : IsLaidMark(p[k])
  <2>1. IsText(p)
    BY SourcesAssumption
  <2> HIDE DEF p
  <2>2. /\ n \in Nat /\ DOMAIN p = 1 .. n /\ \A k \in 1 .. n : IsLaidMark(p[k])
    BY <2>1, TextFacts
  <2>3. i \in DOMAIN p
    BY DEF p
  <2> QED BY <2>1, <2>2, <2>3
<1>3. IsMark(p[i])
  BY <1>2, SourcesAssumption DEF IsLaidMark
<1>4. IsLaidMark(Moved(p[i]))
  BY <1>3, MovedFields DEF IsLaidMark
<1> DEFINE S == {q[k] : k \in 1 .. n}
<1>5. DOMAIN q = 1 .. n
  BY <1>2
<1>6. \A k \in 1 .. n : q[k] = IF k = i THEN Moved(p[i]) ELSE p[k]
  BY <1>2
<1>7. q \in [1 .. n -> S]
  BY <1>5
<1> HIDE DEF p, q, n, S
<1>8. q \in Seq(S) /\ Len(q) = n
  BY <1>2, <1>7
<1>9. \A k \in 1 .. n : IsLaidMark(q[k])
  BY <1>2, <1>4, <1>6
<1>10. IsText(q)
  BY <1>8, <1>9, TextMade DEF IsSeq
<1> QED BY <1>1, <1>6, <1>8, <1>10 DEF n, p

LEMMA LayoutAlike ==
  ASSUME NEW m, IsMove(m)
  PROVE  /\ Base(m) \in BaseLayouts
         /\ DOMAIN Base(m) = DOMAIN Preserved /\ DOMAIN Layout(m) = DOMAIN Preserved
         /\ \A f \in DOMAIN Preserved : Alike(Layout(m)[f], Base(m)[f])
<1>1. \A f \in DOMAIN Preserved : Alike(Preserved[f], Preserved[f])
  BY SourcesAssumption, AlikeItself
<1>2. CASE m = <<>>
  BY <1>1, <1>2 DEF Base, Layout, BaseLayouts
<1>3. ASSUME NEW f \in DOMAIN Preserved, NEW i \in DOMAIN Preserved[f], m = <<f, i>>
      PROVE  /\ Base(m) \in BaseLayouts
             /\ DOMAIN Base(m) = DOMAIN Preserved /\ DOMAIN Layout(m) = DOMAIN Preserved
             /\ \A x \in DOMAIN Preserved : Alike(Layout(m)[x], Base(m)[x])
  <2>1. m # <<>> /\ m[1] = f /\ m[2] = i
    BY <1>3
  <2>2. Layout(m) = Laid(f, i)
    BY <2>1 DEF Layout
  <2>3. CASE Unchecked(Preserved[f][i])
    <3>1. Base(m) = Laid(f, i)
      BY <2>1, <2>2, <2>3 DEF Base
    <3>2. Laid(f, i) \in BaseLayouts
      BY <2>3 DEF BaseLayouts
    <3>3. \A x \in DOMAIN Preserved : IsText(Laid(f, i)[x])
      BY LaidText, SourcesAssumption
    <3> QED BY <2>2, <3>1, <3>2, <3>3, LaidText, AlikeItself
  <2>4. CASE ~Unchecked(Preserved[f][i])
    <3>1. Base(m) = Preserved
      BY <2>1, <2>4 DEF Base
    <3> DEFINE p == Preserved[f]
               q == Laid(f, i)[f]
               n == Len(p)
    <3>2. /\ IsText(p) /\ IsText(q) /\ Len(q) = n /\ i \in 1 .. n
          /\ \A k \in 1 .. n : q[k] = IF k = i THEN Moved(p[i]) ELSE p[k]
      BY LaidText, SourcesAssumption, TextFacts
    <3>3. CanMove(p[i])
      <4>1. IsMark(p[i])
        BY <3>2, TextFacts, SourcesAssumption DEF IsLaidMark
      <4>2. p[i][1] # "print" /\ p[i][1] \notin {"generate", "finish", "label", "dumpvars"}
        BY <2>4, SourcesAssumption DEF Unchecked
      <4> QED BY <4>1, <4>2 DEF CanMove, Silent
    <3> HIDE DEF p, q, n
    <3>4. \A k \in 1 .. n : Like(q[k], p[k])
      BY <3>2, <3>3 DEF Like
    <3>5. Alike(q, p)
      BY <3>2, <3>4 DEF Alike, n
    <3>6. \A x \in DOMAIN Preserved : Alike(Laid(f, i)[x], Preserved[x])
      BY <3>5, <1>1, LaidText DEF p, q
    <3> QED BY <2>2, <3>1, <3>6, LaidText DEF BaseLayouts
  <2> QED BY <2>3, <2>4
<1> QED BY <1>2, <1>3 DEF IsMove

----------------------------------------------------------------------------
\* The files a run has read or written after n jobs.
Own(jobs, n) == DOMAIN Preserved \cup {jobs[i].dst : i \in 1 .. n}

AlikeStage(jobs, d, sources, n) ==
  LET made == Stages(jobs, From(sources))[n]
  IN  DOMAIN made = Files /\ \A f \in Own(jobs, n) : Alike(d[f], made[f])

LEMMA StartAlike ==
  ASSUME NEW jobs, Len(jobs) \in Nat, NEW d, NEW sources,
         \A f \in DOMAIN Preserved : Alike(d[f], sources[f])
  PROVE  AlikeStage(jobs, d, sources, 0)
<1>1. Stages(jobs, From(sources))[0] = From(sources)
  BY StagesStep
<1>2. DOMAIN From(sources) = Files /\ \A f \in DOMAIN Preserved : From(sources)[f] = sources[f]
  BY DEF From, Files
<1>3. Own(jobs, 0) = DOMAIN Preserved
  <2>1. 1 .. 0 = {}
    OBVIOUS
  <2> QED BY <2>1 DEF Own
<1> QED BY <1>1, <1>2, <1>3 DEF AlikeStage

LEMMA JobAlike ==
  ASSUME NEW t \in Tasks, NEW jobs, jobs = Requests[t].jobs, NEW sources \in BaseLayouts,
         NEW d, DOMAIN d = Files, NEW n \in Nat, n + 1 \in 1 .. Len(jobs),
         AlikeStage(jobs, d, sources, n),
         Apply(jobs[n + 1].edits, Read(d, jobs[n + 1].src)) # Failed
  PROVE  AlikeStage(jobs, Step(d, jobs[n + 1]), sources, n + 1)
<1> DEFINE st == Stages(jobs, From(sources))
           m  == st[n]
           j  == jobs[n + 1]
           e  == Step(d, j)
           t1 == Apply(j.edits, Read(d, j.src))
           u1 == Apply(j.edits, Read(m, j.src))
<1>1. /\ Chained(jobs, Names) /\ Written(jobs) \subseteq Files /\ Len(jobs) \in Nat
      /\ n \in 0 .. Len(jobs) - 1 /\ DOMAIN jobs = 1 .. Len(jobs)
  <2>1. Chained(jobs, Names) /\ Written(jobs) \subseteq Files /\ Len(jobs) \in Nat
    BY TaskJobs
  <2>2. PICK S : jobs \in Seq(S)
    BY <2>1 DEF Chained, IsSeq
  <2>3. DOMAIN jobs = 1 .. Len(jobs)
    BY <2>2
  <2>4. n \in 0 .. Len(jobs) - 1
    BY <2>1
  <2> QED BY <2>1, <2>3, <2>4
<1>2. st[n + 1] = Step(m, j)
  BY <1>1, StagesStep
<1>3. DOMAIN m = Files /\ \A f \in Own(jobs, n) : Alike(d[f], m[f])
  BY DEF AlikeStage
<1>4. j.dst \in Files
  BY <1>1 DEF Written
<1>5. j.src \in Own(jobs, n)
  <2>1. j.src \in Names \/ \E i \in 1 .. (n + 1) - 1 : jobs[i].dst = j.src
    BY <1>1 DEF Chained
  <2>2. (n + 1) - 1 = n
    OBVIOUS
  <2> QED BY <2>1, <2>2 DEF Names, Own
<1>6. Alike(d[j.src], m[j.src])
  BY <1>3, <1>5
<1>7. d[j.src] \notin {Absent, Failed} /\ m[j.src] \notin {Absent, Failed}
  BY <1>6, TextIsText DEF Alike
<1>8. Read(d, j.src) = d[j.src] /\ Read(m, j.src) = m[j.src] /\ m[j.src] # Failed
  BY <1>7 DEF Read
<1>9. /\ Len(j.edits) \in Nat
      /\ \A k \in 1 .. Len(j.edits) :
           Anchored(Drafts(j.edits, m[j.src])[k - 1], j.edits[k], Silent)
  <2>1. (n + 1) - 1 = n
    OBVIOUS
  <2>2. /\ Len(jobs[n + 1].edits) \in Nat
        /\ Read(st[(n + 1) - 1], jobs[n + 1].src) # Failed =>
             \A k \in 1 .. Len(jobs[n + 1].edits) :
               Anchored(Drafts(jobs[n + 1].edits, Read(st[(n + 1) - 1], jobs[n + 1].src))[k - 1],
                        jobs[n + 1].edits[k], Silent)
    BY AnchorsAssumption
  <2> QED BY <2>1, <2>2, <1>8
<1>10. Alike(t1, u1)
  BY <1>6, <1>8, <1>9, EditsAlike
<1> HIDE DEF t1, u1
<1>11. DOMAIN e = Files /\ \A f \in Files : e[f] = IF f = j.dst THEN t1 ELSE d[f]
  BY DEF Step, t1
<1>12. /\ DOMAIN st[n + 1] = Files
       /\ \A f \in Files : st[n + 1][f] = IF f = j.dst THEN u1 ELSE m[f]
  BY <1>2, <1>3 DEF Step, u1
<1>13. ASSUME NEW f \in Own(jobs, n + 1) PROVE Alike(e[f], st[n + 1][f])
  <2>1. f = j.dst \/ f \in Own(jobs, n)
    BY DEF Own
  <2>2. f \in Files
    BY <1>1, <1>4 DEF Own, Written, Files
  <2> QED BY <2>1, <2>2, <1>3, <1>10, <1>11, <1>12
<1> QED BY <1>12, <1>13 DEF AlikeStage

\* Alike texts say the same to the HDL compiler.
LEMMA AlikePlain ==
  ASSUME NEW t, NEW u, Alike(t, u) PROVE PlainText(t) = PlainText(u)
<1>1. DOMAIN t = 1 .. Len(t) /\ DOMAIN u = 1 .. Len(t)
  BY TextFacts DEF Alike
<1>2. ASSUME NEW i \in 1 .. Len(t) PROVE Plain(t[i]) = Plain(u[i])
  <2>1. Like(t[i], u[i])
    BY DEF Alike
  <2> QED BY <2>1, LikePlain
<1> QED BY <1>1, <1>2 DEF PlainText

LEMMA PlainEach ==
  ASSUME NEW t, NEW u, PlainText(t) = PlainText(u)
  PROVE  DOMAIN t = DOMAIN u /\ \A i \in DOMAIN u : Plain(t[i]) = Plain(u[i])
<1>1. DOMAIN PlainText(t) = DOMAIN t /\ DOMAIN PlainText(u) = DOMAIN u
  BY DEF PlainText
<1>2. /\ \A i \in DOMAIN t : PlainText(t)[i] = Plain(t[i])
      /\ \A i \in DOMAIN u : PlainText(u)[i] = Plain(u[i])
  BY DEF PlainText
<1> HIDE DEF PlainText
<1>3. DOMAIN t = DOMAIN u
  BY <1>1
<1>4. ASSUME NEW i \in DOMAIN u PROVE Plain(t[i]) = Plain(u[i])
  BY <1>2, <1>3
<1> QED BY <1>3, <1>4

LEMMA PlainMarks ==
  ASSUME NEW t, NEW u, PlainText(t) = PlainText(u)
  PROVE  Marks(t) = Marks(u) /\ \A kind : Named(t, kind) = Named(u, kind)
<1>1. Marks(t) = Marks(u)
  BY PlainEach DEF Marks
<1> QED BY <1>1 DEF Named

\* What a file defines, if it is there.
OwnName(text, f) == text = Absent \/ Named(text, "module") \subseteq {f}

\* While a run works and after it has ended well, the sources and what it has written so
\* far are those of the base layout, but for marks laid out differently; what else lies
\* around defines no module but its own.
LikeInv ==
  /\ DOMAIN disk = Files /\ IsMove(moved)
  /\ \A f \in DOMAIN Preserved : disk[f] = Layout(moved)[f]
  /\ \A f \in Files : f \in DOMAIN Preserved \/ OwnName(disk[f], f)
  /\ at # 0 => /\ task \in Tasks /\ at \in 1 .. Len(Jobs)
               /\ AlikeStage(Jobs, disk, Base(moved), at - 1)
  /\ result = "ok" => /\ at = 0 /\ task \in Tasks
                      /\ AlikeStage(Jobs, disk, Base(moved), Len(Jobs))

LEMMA LikeInit == Init => LikeInv
<1> SUFFICES ASSUME Init PROVE LikeInv
  OBVIOUS
<1>1. disk = From(Preserved) /\ moved = <<>> /\ at = 0 /\ result = "none"
  BY DEF Init
<1>2. /\ DOMAIN disk = Files
      /\ \A f \in Files :
           disk[f] = IF f \in DOMAIN Preserved THEN Preserved[f] ELSE Absent
  BY <1>1 DEF From, Files
<1>3. \A f \in DOMAIN Preserved : f \in Files
  BY DEF Files
<1> QED BY <1>1, <1>2, <1>3 DEF LikeInv, IsMove, Layout, OwnName

LEMMA TornName == ASSUME NEW f PROVE OwnName(<<>>, f)
<1>1. DOMAIN <<>> = {}
  OBVIOUS
<1>2. Marks(<<>>) = {}
  BY <1>1 DEF Marks
<1> QED BY <1>2 DEF OwnName, Named

\* What a job writes defines the module of the file's name.
LEMMA JobName ==
  ASSUME NEW t \in Tasks, NEW jobs, jobs = Requests[t].jobs, NEW sources \in BaseLayouts,
         NEW e, NEW n \in 1 .. Len(jobs), AlikeStage(jobs, e, sources, n)
  PROVE  OwnName(e[jobs[n].dst], jobs[n].dst)
<1> DEFINE f == jobs[n].dst
           text == Stages(jobs, From(sources))[n][f]
<1>1. f \in Own(jobs, n)
  <2>1. Len(jobs) \in Nat
    BY TaskJobs
  <2>2. n \in 1 .. n
    BY <2>1
  <2> QED BY <2>2 DEF Own
<1>2. Alike(e[f], text)
  BY <1>1 DEF AlikeStage
<1>3. text # Failed
  BY <1>2, TextIsText DEF Alike
<1>4. Named(text, "module") \subseteq {f}
  BY <1>3, NamesAssumption
<1>5. Named(e[f], "module") = Named(text, "module")
  BY <1>2, AlikePlain, PlainMarks
<1> QED BY <1>4, <1>5 DEF OwnName

LEMMA LikeNext == LikeInv /\ [Next]_vars => LikeInv'
<1> SUFFICES ASSUME LikeInv, [Next]_vars PROVE LikeInv'
  OBVIOUS
<1>1. CASE UNCHANGED vars
  <2>1. Jobs' = Jobs
    BY <1>1 DEF vars, Jobs, Requests
  <2> QED BY <1>1, <2>1 DEF vars, LikeInv
<1>2. CASE Start
  <2>1. task' \in Tasks /\ disk' = disk /\ moved' = moved /\ at = 0
    BY <1>2 DEF Start
  <2> DEFINE jobs == Requests[task'].jobs
  <2>2. Jobs' = jobs
    BY <2>1, NoTaskIsNone DEF NoneIsNoTask, Jobs, Requests
  <2>3. Len(jobs) \in Nat /\ (jobs # <<>> => Len(jobs) # 0)
    BY <2>1, TaskJobs
  <2>4. AlikeStage(jobs, disk, Base(moved), 0)
    <3>1. \A f \in DOMAIN Preserved : Alike(disk[f], Base(moved)[f])
      BY LayoutAlike DEF LikeInv
    <3> HIDE DEF jobs
    <3> QED BY <2>3, <3>1, StartAlike
  <2>5. jobs = <<>> => Len(jobs) = 0
    OBVIOUS
  <2>6. IF jobs = <<>> THEN at' = 0 /\ result' = "ok" ELSE at' = 1 /\ result' = "none"
    BY <1>2 DEF Start
  <2> HIDE DEF jobs
  <2>7. at' # 0 => at' \in 1 .. Len(jobs) /\ AlikeStage(jobs, disk, Base(moved), at' - 1)
    <3>1. 1 - 1 = 0
      OBVIOUS
    <3> QED BY <2>3, <2>4, <2>6, <3>1
  <2>8. result' = "ok" => at' = 0 /\ AlikeStage(jobs, disk, Base(moved), Len(jobs))
    BY <2>4, <2>5, <2>6
  <2> QED BY <2>1, <2>2, <2>7, <2>8 DEF LikeInv
<1>3. CASE DoJob
  <2> DEFINE jobs == Requests[task].jobs
             n == at - 1
             e == Step(disk, jobs[at])
  <2>1. at # 0 /\ task \in Tasks /\ task' = task /\ moved' = moved
    BY <1>3 DEF DoJob, LikeInv
  <2>2. Jobs = jobs /\ Jobs' = jobs
    BY <2>1, NoTaskIsNone DEF NoneIsNoTask, Jobs, Requests
  <2>3. /\ Chained(jobs, Names) /\ Written(jobs) \subseteq Files /\ Len(jobs) \in Nat
        /\ DOMAIN jobs = 1 .. Len(jobs)
    BY <2>1, TaskJobs DEF Chained, IsSeq
  <2>4. /\ at \in 1 .. Len(jobs) /\ AlikeStage(jobs, disk, Base(moved), n) /\ DOMAIN disk = Files
        /\ Base(moved) \in BaseLayouts
    BY <2>1, <2>2, LayoutAlike DEF LikeInv
  <2>5. /\ disk' = e
        /\ Apply(jobs[at].edits, Read(disk, jobs[at].src)) # Failed
    BY <1>3, <2>2 DEF DoJob, Output, Step
  <2>6. IF at = Len(jobs) THEN at' = 0 /\ result' = "ok" ELSE at' = at + 1 /\ result' = result
    BY <1>3, <2>2 DEF DoJob
  <2>7. result # "ok"
    BY <2>1 DEF LikeInv
  <2>8. n \in Nat /\ n + 1 = at /\ n + 1 \in 1 .. Len(jobs)
    BY <2>3, <2>4
  <2> HIDE DEF n
  <2>9. AlikeStage(jobs, e, Base(moved), n + 1)
    <3> HIDE DEF jobs
    <3>1. AlikeStage(jobs, Step(disk, jobs[n + 1]), Base(moved), n + 1)
      BY <2>1, <2>4, <2>5, <2>8, JobAlike DEF jobs
    <3> QED BY <2>8, <3>1
  <2>10. OwnName(e[jobs[at].dst], jobs[at].dst)
    BY <2>1, <2>4, <2>8, <2>9, JobName
  <2>11. /\ DOMAIN e = Files
         /\ \A f \in Files : f # jobs[at].dst => e[f] = disk[f]
         /\ jobs[at].dst \notin DOMAIN Preserved
    BY <2>3, <2>4 DEF Step, Chained
  <2> HIDE DEF jobs, e
  <2>12. \A f \in DOMAIN Preserved : e[f] = Layout(moved)[f]
    <3>1. \A f \in DOMAIN Preserved : f \in Files /\ f # jobs[at].dst
      BY <2>11 DEF Files
    <3> QED BY <3>1, <2>11 DEF LikeInv
  <2>13. \A f \in Files : f \in DOMAIN Preserved \/ OwnName(e[f], f)
    BY <2>10, <2>11 DEF LikeInv
  <2>14. at' # 0 => at' \in 1 .. Len(jobs) /\ AlikeStage(jobs, e, Base(moved), at' - 1)
    <3> SUFFICES ASSUME at' # 0
                 PROVE  at' \in 1 .. Len(jobs) /\ AlikeStage(jobs, e, Base(moved), at' - 1)
      OBVIOUS
    <3>1. at # Len(jobs) /\ at' = at + 1
      BY <2>6
    <3>2. at' - 1 = n + 1 /\ at' \in 1 .. Len(jobs)
      <4>1. Len(jobs) \in Nat /\ at \in 1 .. Len(jobs) /\ at # Len(jobs)
        BY <2>3, <2>4, <3>1
      <4>2. at' - 1 = at /\ at' \in 1 .. Len(jobs)
        BY <3>1, <4>1
      <4>3. n + 1 = at
        BY <2>8
      <4> QED BY <4>2, <4>3
    <3> QED BY <2>9, <3>2
  <2>15. result' = "ok" => at' = 0 /\ AlikeStage(jobs, e, Base(moved), Len(jobs))
    BY <2>6, <2>7, <2>8, <2>9
  <2> QED BY <2>1, <2>2, <2>5, <2>11, <2>12, <2>13, <2>14, <2>15 DEF LikeInv
<1>4. CASE Fail
  BY <1>4 DEF Fail, LikeInv
<1>5. CASE Crash
  <2>1. at' = 0 /\ result' = "failed" /\ moved' = moved /\ task' = task
    BY <1>5 DEF Crash
  <2> DEFINE f0 == Jobs[at].dst
  <2>2. f0 \notin DOMAIN Preserved
    <3>1. at # 0
      BY <1>5 DEF Crash
    <3>2. task \in Tasks /\ at \in 1 .. Len(Jobs) /\ Jobs = Requests[task].jobs
      BY <3>1, NoTaskIsNone DEF LikeInv, NoneIsNoTask, Jobs, Requests
    <3>3. Chained(Jobs, Names)
      BY <3>2, TaskJobs
    <3> QED BY <3>2, <3>3 DEF Chained
  <2>3. disk' = disk \/ disk' = [disk EXCEPT ![f0] = <<>>]
    BY <1>5 DEF Crash
  <2> HIDE DEF f0
  <2>4. DOMAIN disk' = Files /\ \A f \in Files : disk'[f] = disk[f] \/ (f = f0 /\ disk'[f] = <<>>)
    BY <2>3 DEF LikeInv
  <2>5. \A f \in DOMAIN Preserved : disk'[f] = Layout(moved)[f]
    <3>1. \A f \in DOMAIN Preserved : f \in Files /\ f # f0
      BY <2>2 DEF Files
    <3> QED BY <3>1, <2>4 DEF LikeInv
  <2>6. \A f \in Files : f \in DOMAIN Preserved \/ OwnName(disk'[f], f)
    BY <2>4, TornName DEF LikeInv
  <2> QED BY <2>1, <2>4, <2>5, <2>6 DEF LikeInv
<1>6. CASE Relayout
  <2>1. at' = 0 /\ result' = "none"
    BY <1>6 DEF Relayout
  <2>0. PICK f \in DOMAIN Preserved : \E i \in DOMAIN Preserved[f] :
          /\ moved' = <<f, i>>
          /\ disk' = [x \in DOMAIN disk |->
                        IF x \in DOMAIN Preserved THEN Laid(f, i)[x] ELSE disk[x]]
    BY <1>6 DEF Relayout
  <2>2. PICK i \in DOMAIN Preserved[f] :
          /\ moved' = <<f, i>>
          /\ disk' = [x \in DOMAIN disk |->
                        IF x \in DOMAIN Preserved THEN Laid(f, i)[x] ELSE disk[x]]
    BY <2>0
  <2>3. moved' # <<>> /\ moved'[1] = f /\ moved'[2] = i /\ IsMove(moved')
    BY <2>2 DEF IsMove
  <2>4. Layout(moved') = Laid(f, i)
    BY <2>3 DEF Layout
  <2>5. /\ DOMAIN disk' = Files
        /\ \A x \in Files :
             disk'[x] = IF x \in DOMAIN Preserved THEN Laid(f, i)[x] ELSE disk[x]
    BY <2>2 DEF LikeInv
  <2>6. \A x \in DOMAIN Preserved : x \in Files
    BY DEF Files
  <2> QED BY <2>1, <2>3, <2>4, <2>5, <2>6 DEF LikeInv
<1> QED BY <1>1, <1>2, <1>3, <1>4, <1>5, <1>6 DEF Next

\* "A source layout change fails loudly instead of silently producing bad RTL"
\* (gen_hamsa_core.py:5).
THEOREM LoudOrWholeAlways == Spec => []LoudOrWhole
<1>1. ASSUME LikeInv PROVE LoudOrWhole
  <2> SUFFICES ASSUME result = "ok", LayoutChecked, NEW f \in Written(Jobs)
               PROVE  PlainText(disk[f]) = PlainText(Image(Jobs, From(Preserved))[f])
    BY DEF LoudOrWhole
  <2>1. task \in Tasks /\ AlikeStage(Jobs, disk, Base(moved), Len(Jobs))
    BY <1>1 DEF LikeInv
  <2>2. Base(moved) = Preserved
    BY DEF LayoutChecked, Base
  <2>3. DOMAIN Jobs = 1 .. Len(Jobs)
    <3>1. Jobs = Requests[task].jobs
      BY <2>1, NoTaskIsNone DEF NoneIsNoTask, Jobs
    <3> QED BY <2>1, <3>1, TaskJobs DEF Chained, IsSeq
  <2>4. f \in Own(Jobs, Len(Jobs))
    BY <2>3 DEF Written, Own
  <2> QED BY <2>1, <2>2, <2>4, AlikePlain DEF AlikeStage, Image
<1> QED BY <1>1, LikeInit, LikeNext, PTL DEF Spec

----------------------------------------------------------------------------
\* A run leaves alone what none of its jobs writes.
LEMMA Untouched ==
  ASSUME NEW jobs, Len(jobs) \in Nat, NEW files,
         NEW f, \A i \in 1 .. Len(jobs) : jobs[i].dst # f
  PROVE  Image(jobs, files)[f] = files[f]
<1> DEFINE st == Stages(jobs, files)
           m == Len(jobs)
<1>1. st[0] = files /\ \A n \in 0 .. m - 1 : st[n + 1] = Step(st[n], jobs[n + 1])
  BY StagesStep
<1>2. Image(jobs, files) = st[m]
  BY DEF Image
<1> HIDE DEF st
<1> DEFINE S == {n \in Nat : n <= m => st[n][f] = files[f]}
<1>3. 0 \in S
  BY <1>1
<1>4. ASSUME NEW n \in Nat, n \in S PROVE n + 1 \in S
  <2> SUFFICES ASSUME n + 1 <= m PROVE st[n + 1][f] = files[f]
    OBVIOUS
  <2>1. n \in 0 .. m - 1 /\ n + 1 \in 1 .. m /\ n <= m
    OBVIOUS
  <2>2. st[n][f] = files[f]
    BY <1>4, <2>1
  <2>3. jobs[n + 1].dst # f
    BY <2>1
  <2>4. st[n + 1] = Step(st[n], jobs[n + 1])
    BY <1>1, <2>1
  <2> QED BY <2>2, <2>3, <2>4 DEF Step
<1> HIDE DEF S
<1>5. m \in S
  BY <1>3, <1>4, SetInduction
<1> QED BY <1>2, <1>5 DEF S

\* Files d, left by some run for t, next to files g, left by a run where nothing else was:
\* what the run has to do with reads the same, what else lies around in d defines no module
\* but its own, and g is a design of files that the run has to do with.
Mine(t) == DOMAIN Preserved \cup Written(Requests[t].jobs)

Twins(d, g, t) ==
  /\ DOMAIN d = Files /\ DOMAIN g = Files
  /\ \A f \in Mine(t) : Alike(d[f], g[f])
  /\ \A f \in Files : f \in Mine(t) \/ (g[f] = Absent /\ OwnName(d[f], f))
  /\ SelfContained(g, t)

\* What a first run leaves for every task that its jobs run through for.
RunsThrough(t, sources) ==
  \A f \in Written(Requests[t].jobs) : FirstRun(t, sources)[f] # Failed

LEMMA EndedTwins ==
  ASSUME LikeInv, result = "ok"
  PROVE  /\ task \in Tasks /\ Base(moved) \in BaseLayouts
         /\ RunsThrough(task, Base(moved))
         /\ Twins(disk, FirstRun(task, Base(moved)), task)
<1> DEFINE jobs == Requests[task].jobs
           b == Base(moved)
           g == FirstRun(task, b)
<1>1. task \in Tasks /\ Jobs = jobs /\ DOMAIN disk = Files
  BY NoTaskIsNone DEF LikeInv, NoneIsNoTask, Jobs
<1>2. /\ Len(jobs) \in Nat /\ DOMAIN jobs = 1 .. Len(jobs)
      /\ Written(jobs) \subseteq Files
  BY <1>1, TaskJobs DEF Chained, IsSeq
<1>3. AlikeStage(jobs, disk, b, Len(jobs))
  BY <1>1 DEF LikeInv
<1>4. b \in BaseLayouts
  BY LayoutAlike DEF LikeInv
<1>5. g = Stages(jobs, From(b))[Len(jobs)] /\ g = Image(jobs, From(b))
  BY DEF FirstRun, Image
<1>6. Own(jobs, Len(jobs)) = Mine(task)
  BY <1>2 DEF Own, Mine, Written
<1> HIDE DEF g
<1>7. DOMAIN g = Files /\ \A f \in Mine(task) : Alike(disk[f], g[f])
  BY <1>3, <1>5, <1>6 DEF AlikeStage
<1>8. \A f \in Mine(task) : g[f] \notin {Absent, Failed}
  BY <1>7, TextIsText DEF Alike
<1>9. RunsThrough(task, b)
  BY <1>8 DEF RunsThrough, Mine, g
<1>10. SelfContained(g, task)
  BY <1>1, <1>4, <1>9, ClosedAssumption DEF RunsThrough, g
<1>11. ASSUME NEW f \in Files, f \notin Mine(task)
       PROVE  g[f] = Absent /\ OwnName(disk[f], f)
  <2>1. f \notin DOMAIN Preserved /\ \A i \in 1 .. Len(jobs) : jobs[i].dst # f
    BY <1>2, <1>11 DEF Mine, Written
  <2>2. From(b)[f] = Absent
    BY <2>1 DEF From, Files
  <2>3. OwnName(disk[f], f)
    BY <2>1 DEF LikeInv
  <2> HIDE DEF jobs, b
  <2> QED BY <1>2, <1>5, <2>1, <2>2, <2>3, Untouched
<1> QED BY <1>1, <1>4, <1>7, <1>9, <1>10, <1>11 DEF Twins, g

\* The levels of a hierarchy, from the top down.
Leveled(d, top, g, n) ==
  g = [i \in 0 .. n |->
         IF i = 0 THEN {top}
         ELSE g[i - 1] \cup UNION {Children(d, m) : m \in g[i - 1]}]

LEMMA LevelsUnfold ==
  ASSUME NEW d, NEW top
  PROVE  /\ Levels(d, top)[0] = {top}
         /\ \A n \in 0 .. Depth - 1 :
              Levels(d, top)[n + 1] =
                Levels(d, top)[n] \cup UNION {Children(d, m) : m \in Levels(d, top)[n]}
<1> DEFINE S == {n \in Nat : \E g : Leveled(d, top, g, n)}
           Down(x) == x \cup UNION {Children(d, m) : m \in x}
<1>0. Depth \in Nat
  BY DEF Depth
<1>1. 0 \in S
  <2>1. Leveled(d, top, [i \in 0 .. 0 |-> {top}], 0)
    BY DEF Leveled
  <2> QED BY <2>1
<1>2. \A n \in Nat : n \in S => n + 1 \in S
  <2> SUFFICES ASSUME NEW n \in Nat, NEW g, Leveled(d, top, g, n)
               PROVE  \E h : Leveled(d, top, h, n + 1)
    OBVIOUS
  <2>0. g = [i \in 0 .. n |-> IF i = 0 THEN {top} ELSE Down(g[i - 1])]
    BY DEF Leveled
  <2> DEFINE h == [i \in 0 .. n + 1 |-> IF i = n + 1 THEN Down(g[n]) ELSE g[i]]
  <2> HIDE DEF Down
  <2>1. \A i \in 0 .. n : h[i] = g[i]
    OBVIOUS
  <2>2. ASSUME NEW i \in 0 .. n + 1 PROVE h[i] = IF i = 0 THEN {top} ELSE Down(h[i - 1])
    <3>1. CASE i = n + 1
      <4>1. h[i] = Down(g[n]) /\ i # 0 /\ i - 1 = n /\ h[n] = g[n]
        BY <2>1, <3>1
      <4> QED BY <4>1
    <3>2. CASE i # n + 1
      <4>1. i \in 0 .. n /\ (i # 0 => i - 1 \in 0 .. n)
        BY <3>2
      <4>2. g[i] = IF i = 0 THEN {top} ELSE Down(g[i - 1])
        BY <2>0, <4>1
      <4> QED BY <2>1, <4>1, <4>2
    <3> QED BY <3>1, <3>2
  <2>3. h = [i \in 0 .. n + 1 |-> IF i = 0 THEN {top} ELSE Down(h[i - 1])]
    BY <2>2
  <2>4. Leveled(d, top, h, n + 1)
    BY <2>3 DEF Leveled, Down
  <2> QED BY <2>4
<1> HIDE DEF S
<1>3. Depth \in S
  BY <1>0, <1>1, <1>2, SetInduction
<1> DEFINE level == CHOOSE g : Leveled(d, top, g, Depth)
<1>4. Leveled(d, top, level, Depth)
  BY <1>3 DEF S
<1>5. Levels(d, top) = level
  BY DEF Levels, Leveled
<1> HIDE DEF level
<1>6. level = [i \in 0 .. Depth |-> IF i = 0 THEN {top} ELSE Down(level[i - 1])]
  BY <1>4 DEF Leveled
<1> HIDE DEF Down
<1>7. level[0] = {top}
  BY <1>0, <1>6
<1>8. ASSUME NEW n \in 0 .. Depth - 1 PROVE level[n + 1] = Down(level[n])
  <2>1. n + 1 \in 0 .. Depth /\ n + 1 # 0 /\ (n + 1) - 1 = n
    BY <1>0
  <2> QED BY <1>6, <2>1
<1> QED BY <1>5, <1>7, <1>8 DEF Down

\* What is further up is reached.
LEMMA LevelsGrow ==
  ASSUME NEW d, NEW top, NEW n \in 0 .. Depth PROVE Levels(d, top)[n] \subseteq Reached(d, top)
<1> DEFINE level == Levels(d, top)
           S == {k \in Nat : k <= Depth => level[Depth - k] \subseteq level[Depth]}
<1>0. Depth \in Nat
  BY DEF Depth
<1>1. 0 \in S
  BY <1>0
<1>2. ASSUME NEW k \in Nat, k \in S PROVE k + 1 \in S
  <2> SUFFICES ASSUME k + 1 <= Depth PROVE level[Depth - (k + 1)] \subseteq level[Depth]
    OBVIOUS
  <2> DEFINE i == Depth - (k + 1)
  <2>1. i \in 0 .. Depth - 1 /\ i + 1 = Depth - k /\ k <= Depth
    BY <1>0
  <2>2. level[i] \subseteq level[i + 1]
    BY <2>1, LevelsUnfold
  <2>3. level[Depth - k] \subseteq level[Depth]
    BY <1>2, <2>1
  <2> QED BY <2>1, <2>2, <2>3
<1> HIDE DEF S
<1> DEFINE k == Depth - n
<1>3. k \in Nat /\ k <= Depth /\ Depth - k = n
  BY <1>0
<1>4. k \in S
  BY <1>1, <1>2, <1>3, SetInduction
<1>5. level[n] \subseteq level[Depth]
  BY <1>3, <1>4 DEF S
<1> QED BY <1>5 DEF Reached

\* What reads the same says the same.
LEMMA TwinFiles ==
  ASSUME NEW t \in Tasks, NEW d, NEW g, Twins(d, g, t), NEW f, f \in Mine(t) \/ f \notin Files
  PROVE  /\ Provides(d, f) = Provides(g, f) /\ Children(d, f) = Children(g, f)
         /\ f \in Files => /\ f \in Mine(t) /\ PlainText(d[f]) = PlainText(g[f])
                           /\ Marks(d[f]) = Marks(g[f])
                           /\ \A kind : Named(d[f], kind) = Named(g[f], kind)
                           /\ d[f] # Absent /\ g[f] # Absent
<1>1. CASE f \in Files
  <2>1. f \in Mine(t) /\ Alike(d[f], g[f])
    BY <1>1 DEF Twins
  <2>2. PlainText(d[f]) = PlainText(g[f])
    BY <2>1, AlikePlain
  <2>3. Marks(d[f]) = Marks(g[f]) /\ \A kind : Named(d[f], kind) = Named(g[f], kind)
    BY <2>2, PlainMarks
  <2>4. d[f] # Absent /\ g[f] # Absent
    BY <2>1, TextIsText DEF Alike
  <2>5. f \in DOMAIN d /\ f \in DOMAIN g
    BY <1>1 DEF Twins
  <2> QED BY <2>1, <2>2, <2>3, <2>4, <2>5 DEF Provides, Children
<1>2. CASE f \notin Files
  BY <1>2 DEF Twins, Provides, Children
<1> QED BY <1>1, <1>2

\* The same hierarchy.
LEMMA TwinReached ==
  ASSUME NEW t \in Tasks, NEW d, NEW g, Twins(d, g, t), NEW top,
         Reached(g, top) \cap Files \subseteq Mine(t)
  PROVE  Reached(d, top) = Reached(g, top)
<1> DEFINE ld == Levels(d, top)
           lg == Levels(g, top)
           S == {n \in Nat : n <= Depth => ld[n] = lg[n]}
<1>0. /\ Depth \in Nat /\ ld[0] = {top} /\ lg[0] = {top}
      /\ \A n \in 0 .. Depth - 1 :
           /\ ld[n + 1] = ld[n] \cup UNION {Children(d, m) : m \in ld[n]}
           /\ lg[n + 1] = lg[n] \cup UNION {Children(g, m) : m \in lg[n]}
      /\ \A n \in 0 .. Depth : lg[n] \subseteq Reached(g, top)
  BY LevelsUnfold, LevelsGrow DEF Depth
<1>4. Reached(d, top) = ld[Depth] /\ Reached(g, top) = lg[Depth]
  BY DEF Reached
<1> HIDE DEF ld, lg
<1>1. 0 \in S
  BY <1>0
<1>2. ASSUME NEW n \in Nat, n \in S PROVE n + 1 \in S
  <2> SUFFICES ASSUME n + 1 <= Depth PROVE ld[n + 1] = lg[n + 1]
    OBVIOUS
  <2>1. n \in 0 .. Depth /\ n \in 0 .. Depth - 1 /\ n <= Depth
    BY <1>0
  <2>2. ld[n] = lg[n]
    BY <1>2, <2>1
  <2>3. lg[n] \subseteq Reached(g, top)
    BY <1>0, <2>1
  <2>4. /\ ld[n + 1] = ld[n] \cup UNION {Children(d, m) : m \in ld[n]}
        /\ lg[n + 1] = lg[n] \cup UNION {Children(g, m) : m \in lg[n]}
    BY <1>0, <2>1
  <2>5. \A m \in lg[n] : Children(d, m) = Children(g, m)
    <3>1. \A m \in lg[n] : m \in Mine(t) \/ m \notin Files
      BY <2>3
    <3> QED BY <3>1, TwinFiles
  <2>6. {Children(d, m) : m \in lg[n]} = {Children(g, m) : m \in lg[n]}
    BY <2>5
  <2> QED BY <2>2, <2>4, <2>6
<1> HIDE DEF S
<1>3. Depth \in S
  BY <1>0, <1>1, <1>2, SetInduction
<1> QED BY <1>0, <1>3, <1>4 DEF S

\* The same design, and the same core in it.
LEMMA TwinDesign ==
  ASSUME NEW t \in Tasks, NEW d, NEW g, Twins(d, g, t)
  PROVE  /\ Design(d, t) = Design(g, t) /\ Core(d, t) = Core(g, t)
         /\ Reached(d, Core(g, t)) = Reached(g, Core(g, t))
         /\ Design(g, t) \cap Files \subseteq Mine(t)
         /\ {Requests[t].top, Requests[t].manifest, Core(g, t)} \subseteq Mine(t)
         /\ Named(g[Requests[t].manifest], "file") \cap Files \subseteq Mine(t)
         /\ \A m \in Design(g, t) \cap Files : Named(g[m], "inst") \cap Files \subseteq Mine(t)
<1>1. DOMAIN g = Files /\ SelfContained(g, t)
  BY DEF Twins
<1>2. /\ {Requests[t].top, Requests[t].manifest, Core(g, t)} \subseteq Mine(t)
      /\ Named(g[Requests[t].manifest], "file") \cap Files \subseteq Mine(t)
      /\ Reached(g, Requests[t].top) \cap Files \subseteq Mine(t)
      /\ Reached(g, Core(g, t)) \cap Files \subseteq Mine(t)
      /\ \A m \in Reached(g, Requests[t].top) \cap Files :
           Named(g[m], "inst") \cap Files \subseteq Mine(t)
  BY <1>1 DEF SelfContained, Mine
<1>3. Reached(d, Requests[t].top) = Reached(g, Requests[t].top)
  BY <1>2, TwinReached
<1>4. Design(d, t) = Design(g, t)
  BY <1>3 DEF Design
<1>5. Core(d, t) = Core(g, t)
  BY <1>4 DEF Core
<1>6. Reached(d, Core(g, t)) = Reached(g, Core(g, t))
  BY <1>2, TwinReached
<1>7. Design(g, t) \subseteq Reached(g, Requests[t].top)
  BY DEF Design
<1> QED BY <1>2, <1>4, <1>5, <1>6, <1>7

LEMMA MineInFiles == ASSUME NEW t \in Tasks PROVE Mine(t) \subseteq Files
BY TaskJobs DEF Mine, Files

\* The same modules are found as often, in the manifest's files and in the testbench's.
LEMMA TwinFound ==
  ASSUME NEW t \in Tasks, NEW d, NEW g, Twins(d, g, t), FoundOnce(g, t)
  PROVE  FoundOnce(d, t)
<1> DEFINE man == Requests[t].manifest
<1>1. /\ Design(d, t) = Design(g, t) /\ man \in Mine(t) /\ Mine(t) \subseteq Files
      /\ Named(g[man], "file") \cap Files \subseteq Mine(t)
      /\ Design(g, t) \cap Files \subseteq Mine(t)
      /\ DOMAIN d = Files /\ DOMAIN g = Files
  BY TwinDesign, MineInFiles DEF Twins
<1> HIDE DEF man
<1>2. ASSUME NEW m \in Design(g, t) PROVE Listed(d, man, m) = Listed(g, man, m)
  <2>1. PlainText(d[man]) = PlainText(g[man])
    BY <1>1, TwinFiles
  <2>2. /\ DOMAIN d[man] = DOMAIN g[man]
        /\ \A i \in DOMAIN g[man] : Plain(d[man][i]) = Plain(g[man][i])
    BY <2>1, PlainEach
  <2>3. ASSUME NEW i \in DOMAIN g[man], Plain(g[man][i])[1] = "file"
        PROVE  Provides(d, Plain(g[man][i])[2]) = Provides(g, Plain(g[man][i])[2])
    <3>1. Plain(g[man][i])[2] \in Named(g[man], "file")
      BY <2>3 DEF Named, Marks
    <3> QED BY <1>1, <3>1, TwinFiles
  <2> QED BY <2>2, <2>3 DEF Listed
<1>3. ASSUME NEW m \in Design(g, t)
      PROVE  {f \in Compiled(d, t) : m \in Provides(d, f)}
               = {f \in Compiled(g, t) : m \in Provides(g, f)}
  <2>1. ASSUME NEW f \in Files
        PROVE  (d[f] # Absent /\ m \in Provides(d, f)) <=> (g[f] # Absent /\ m \in Provides(g, f))
    <3>1. CASE f \in Mine(t)
      BY <3>1, TwinFiles
    <3>2. CASE f \notin Mine(t)
      <4>1. g[f] = Absent /\ OwnName(d[f], f)
        BY <3>2 DEF Twins
      <4>2. Provides(d, f) = Named(d[f], "module")
        BY <1>1 DEF Provides
      <4>3. m \notin Files \/ m \in Mine(t)
        BY <1>1
      <4> QED BY <3>2, <4>1, <4>2, <4>3 DEF OwnName
    <3> QED BY <3>1, <3>2
  <2> QED BY <1>1, <2>1 DEF Compiled
<1> QED BY <1>1, <1>2, <1>3 DEF FoundOnce, Found, man

\* The same flaws of nets and ports.
LEMMA TwinFlaws ==
  ASSUME NEW t \in Tasks, NEW d, NEW g, Twins(d, g, t), NEW m \in Design(g, t) \cap Files
  PROVE  Flaws(d, m) = Flaws(g, m)
<1>1. /\ DOMAIN d = Files /\ DOMAIN g = Files /\ m \in Mine(t)
      /\ Named(g[m], "inst") \cap Files \subseteq Mine(t)
  BY TwinDesign DEF Twins
<1>2. /\ PlainText(d[m]) = PlainText(g[m])
      /\ \A kind : Named(d[m], kind) = Named(g[m], kind)
  BY <1>1, TwinFiles
<1>3. DOMAIN d[m] = DOMAIN g[m] /\ \A i \in DOMAIN g[m] : Plain(d[m][i]) = Plain(g[m][i])
  BY <1>2, PlainEach
<1>4. \A net : Drivers(d[m], net) = Drivers(g[m], net)
  BY <1>3 DEF Drivers
<1>5. Nets(d[m]) = Nets(g[m])
  BY <1>2 DEF Nets
<1>6. UnsoundNets(d[m]) = UnsoundNets(g[m])
  BY <1>2, <1>4, <1>5 DEF UnsoundNets
<1> DEFINE insts == Named(g[m], "inst") \cap Files
<1>7. /\ Named(d[m], "inst") \cap DOMAIN d = insts /\ Named(g[m], "inst") \cap DOMAIN g = insts
      /\ \A c \in insts : Named(d[c], "port") = Named(g[c], "port")
  BY <1>1, <1>2, TwinFiles
<1> HIDE DEF insts
<1>8. OpenPorts(d, d[m]) = OpenPorts(g, g[m])
  <2>1. {Named(d[c], "port") : c \in insts} = {Named(g[c], "port") : c \in insts}
    BY <1>7
  <2> QED BY <1>2, <1>7, <2>1 DEF OpenPorts
<1>9. \A j \in DOMAIN g[m] : \A c : Within(d[m], j, c) <=> Within(g[m], j, c)
  BY <1>3 DEF Within
<1>10. Dangling(d, d[m]) = Dangling(g, g[m])
  BY <1>3, <1>7, <1>9 DEF Dangling
<1> QED BY <1>6, <1>8, <1>10 DEF Flaws

LEMMA TwinDriven ==
  ASSUME NEW t \in Tasks, NEW d, NEW g, Twins(d, g, t), WellDriven(g, t)
  PROVE  WellDriven(d, t)
<1>1. Design(d, t) = Design(g, t) /\ DOMAIN d = Files /\ DOMAIN g = Files
  BY TwinDesign DEF Twins
<1> QED BY <1>1, TwinFlaws DEF WellDriven

\* The same parameters.
LEMMA TwinConfiguration ==
  ASSUME NEW t \in Tasks, NEW d, NEW g, Twins(d, g, t), Configuration(g, t)
  PROVE  Configuration(d, t)
<1> DEFINE c == Core(g, t)
<1>1. /\ Design(d, t) = Design(g, t) /\ Core(d, t) = c /\ c \in Mine(t) /\ Mine(t) \subseteq Files
      /\ Design(g, t) \cap Files \subseteq Mine(t)
      /\ DOMAIN d = Files /\ DOMAIN g = Files
  BY TwinDesign, MineInFiles DEF Twins
<1> HIDE DEF c
<1>2. Marks(d[c]) = Marks(g[c])
  BY <1>1, TwinFiles
<1>3. Settings(d, t) = Settings(g, t)
  <2>1. \A m \in Design(g, t) \cap Files :
          Marks(d[m]) = Marks(g[m]) /\ Named(d[m], "inst") = Named(g[m], "inst")
    BY <1>1, TwinFiles
  <2> DEFINE here == {w \in Design(d, t) \cap DOMAIN d : Core(d, t) \in Named(d[w], "inst")}
             there == {w \in Design(g, t) \cap DOMAIN g : Core(g, t) \in Named(g[w], "inst")}
  <2>2. here = there /\ here \subseteq Design(g, t) \cap Files
    BY <1>1, <2>1 DEF c
  <2>3. /\ t[1] = "ppa" => /\ Settings(d, t) = Requests[t].params
                           /\ Settings(g, t) = Requests[t].params
        /\ t[1] # "ppa" => /\ Settings(d, t) = UNION {Marks(d[m]) : m \in here}
                           /\ Settings(g, t) = UNION {Marks(g[m]) : m \in there}
    BY DEF Settings
  <2> HIDE DEF here, there
  <2>4. \A m \in here : Marks(d[m]) = Marks(g[m])
    BY <2>1, <2>2
  <2>5. {Marks(d[m]) : m \in here} = {Marks(g[m]) : m \in there}
    BY <2>2, <2>4
  <2> QED BY <2>3, <2>5
<1>4. \A set, p : Parameter(d[c], set, p) = Parameter(g[c], set, p)
  BY <1>2 DEF Parameter
<1> QED BY <1>1, <1>2, <1>3, <1>4 DEF Configuration, c

\* The same prints before the same ends: a silent edit looks for both, and neither is laid
\* out differently where the base layout is the committed one.
SilentText(s) == \A k \in 1 .. Len(s) : s[k][1] \in Silent

LEMMA SaidBefore ==
  ASSUME NEW t, NEW u, Alike(t, u), NEW said, IsSeq(said), SilentText(said),
         NEW i \in 1 .. Len(u), i > Len(said), SubSeq(u, i - Len(said), i - 1) = said
  PROVE  SubSeq(t, i - Len(said), i - 1) = said
<1> DEFINE n == Len(said)
           l == Len(u)
<1>1. /\ IsSeq(t) /\ IsSeq(u) /\ Len(t) = l /\ l \in Nat
      /\ \A k \in 1 .. l : Like(t[k], u[k])
  BY TextFacts DEF Alike
<1>2. n \in Nat /\ DOMAIN said = 1 .. n
  <2>1. PICK S : said \in Seq(S)
    BY DEF IsSeq
  <2> QED BY <2>1
<1> DEFINE a == i - n
           b == i - 1
<1>3. a \in 1 .. l /\ b \in 0 .. l /\ b - a + 1 = n /\ i - n = a /\ i - 1 = b
  BY <1>1, <1>2
<1>4. SubSeq(u, a, b) = [k \in 1 .. n |-> u[a + k - 1]]
  <2>1. PICK S : u \in Seq(S)
    BY <1>1 DEF IsSeq
  <2> QED BY <1>1, <1>2, <1>3, <2>1
<1>5. SubSeq(t, a, b) = [k \in 1 .. n |-> t[a + k - 1]]
  <2>1. PICK S : t \in Seq(S)
    BY <1>1 DEF IsSeq
  <2> QED BY <1>1, <1>2, <1>3, <2>1
<1>6. SubSeq(u, a, b) = said
  BY <1>3
<1> HIDE DEF a, b, n, l
<1>7. ASSUME NEW k \in 1 .. n PROVE t[a + k - 1] = said[k]
  <2>1. u[a + k - 1] = said[k]
    BY <1>4, <1>6
  <2>2. a + k - 1 \in 1 .. l
    BY <1>1, <1>2, <1>3
  <2>3. Like(t[a + k - 1], u[a + k - 1])
    BY <1>1, <2>2
  <2>4. said[k][1] \in Silent
    BY DEF SilentText, n
  <2> DEFINE x == t[a + k - 1]
             y == u[a + k - 1]
             z == said[k]
  <2>5. Like(x, y) /\ y = z /\ z[1] \in Silent
    BY <2>1, <2>3, <2>4
  <2> HIDE DEF x, y, z
  <2>6. x = z
    BY <2>5, LikeSilent
  <2> QED BY <2>6 DEF x, z
<1>8. SubSeq(t, a, b) = said
  <2>1. [k \in 1 .. n |-> t[a + k - 1]] = [k \in 1 .. n |-> said[k]]
    BY <1>7
  <2>2. said = [k \in 1 .. n |-> said[k]]
    <3>1. PICK S : said \in Seq(S)
      BY DEF IsSeq
    <3> QED BY <1>2, <3>1
  <2> QED BY <1>5, <2>1, <2>2
<1> QED BY <1>3, <1>8

LEMMA ExpectedSilent == ASSUME NEW c PROVE IsSeq(Expected(c)) /\ SilentText(Expected(c))
<1> DEFINE h == Prints("hamsa")
           v == Prints("sparv")
<1>1. h[1] \in Silent /\ v[1] \in Silent
  BY DEF Prints, Silent
<1> HIDE DEF h, v
<1>2. IsSeq(<<h>>) /\ SilentText(<<h>>)
  <2>1. <<h>> \in Seq({h}) /\ Len(<<h>>) = 1 /\ <<h>>[1] = h
    OBVIOUS
  <2>2. \A k \in 1 .. Len(<<h>>) : <<h>>[k] = h
    BY <2>1
  <2> QED BY <1>1, <2>1, <2>2 DEF IsSeq, SilentText
<1>3. IsSeq(<<h, v>>) /\ SilentText(<<h, v>>)
  <2>1. <<h, v>> \in Seq({h, v}) /\ Len(<<h, v>>) = 2 /\ <<h, v>>[1] = h /\ <<h, v>>[2] = v
    OBVIOUS
  <2>2. \A k \in 1 .. Len(<<h, v>>) : <<h, v>>[k] \in {h, v}
    BY <2>1
  <2> QED BY <1>1, <2>1, <2>2 DEF IsSeq, SilentText
<1>4. Expected(c) = <<h, v>> \/ Expected(c) = <<h>>
  BY DEF Expected, h, v
<1> QED BY <1>2, <1>3, <1>4

LEMMA TwinPrinting ==
  ASSUME NEW t \in Tasks, NEW d, NEW g, Twins(d, g, t), Printing(g, t)
  PROVE  Printing(d, t)
<1> DEFINE p == Requests[t].top
           c == Core(g, t)
           said == Expected(t[2])
<1>1. /\ Core(d, t) = c /\ c \in Mine(t) /\ p \in Mine(t) /\ Mine(t) \subseteq Files
      /\ Reached(d, c) = Reached(g, c)
  BY TwinDesign, MineInFiles
<1>2. Alike(d[p], g[p])
  BY <1>1 DEF Twins
<1>3. IsSeq(said) /\ SilentText(said)
  BY ExpectedSilent
<1>4. /\ \A path \in FinishPaths : \E i \in DOMAIN g[p] :
           g[p][i] = path /\ i > Len(said) /\ SubSeq(g[p], i - Len(said), i - 1) = said
      /\ Named(g[p], "counts") \subseteq Visible(g, c)
  BY DEF Printing
<1>5. Named(d[p], "counts") \subseteq Visible(d, c)
  <2>1. Named(d[p], "counts") = Named(g[p], "counts") /\ Named(d[c], "decl") = Named(g[c], "decl")
    BY <1>1, TwinFiles
  <2>2. Visible(d, c) = Visible(g, c)
    BY <1>1, <2>1 DEF Visible
  <2> QED BY <1>4, <2>1, <2>2
<1> DEFINE x == d[p]
           y == g[p]
<1>6. Alike(x, y) /\ DOMAIN x = 1 .. Len(y) /\ DOMAIN y = 1 .. Len(y)
  BY <1>2, TextFacts DEF Alike
<1>7. ASSUME NEW path \in FinishPaths
      PROVE  \E i \in DOMAIN x :
               x[i] = path /\ i > Len(said) /\ SubSeq(x, i - Len(said), i - 1) = said
  <2>1. PICK i \in DOMAIN y :
          y[i] = path /\ i > Len(said) /\ SubSeq(y, i - Len(said), i - 1) = said
    BY <1>4
  <2>2. path[1] \in Silent
    BY DEF FinishPaths, Finish, Silent
  <2> HIDE DEF x, y, said
  <2>3. Like(x[i], y[i])
    BY <1>6 DEF Alike
  <2>4. x[i] = path
    BY <2>1, <2>2, <2>3, LikeSilent
  <2>5. SubSeq(x, i - Len(said), i - 1) = said
    BY <1>3, <1>6, <2>1, SaidBefore
  <2> QED BY <1>6, <2>1, <2>4, <2>5
<1> QED BY <1>1, <1>5, <1>7 DEF Printing

----------------------------------------------------------------------------
\* What holds after every first run, of the sources as committed or with a mark laid out
\* differently that no substitution insists on, holds after every run: whatever ran, failed or
\* was cut off before, for whatever configuration, in however many runs and layout changes.

\* Every module below the top is found in one, and one only, of the files that the manifest
\* lists or that lie beside the testbench (gen_sparv_sim.py:173).
THEOREM ElaboratesAlways ==
  ASSUME \A t \in Tasks : \A sources \in BaseLayouts :
           RunsThrough(t, sources) => FoundOnce(FirstRun(t, sources), t)
  PROVE  Spec => []Elaborates
<1>1. ASSUME LikeInv PROVE Elaborates
  BY <1>1, EndedTwins, TwinFound DEF Elaborates
<1> QED BY <1>1, LikeInit, LikeNext, PTL DEF Spec

\* Where every substitution that met the moved mark is checked.
LEMMA CheckedBase == ASSUME LayoutChecked PROVE Base(moved) = Preserved /\ Preserved \in BaseLayouts
BY DEF LayoutChecked, Base, BaseLayouts

\* What the generators make has no undriven, doubly driven or undeclared net, open port or
\* dangling connection but those of the preserved sources (gen_hamsa_core_h2.py:107).
THEOREM DrivenOnceAlways ==
  ASSUME \A t \in Tasks : RunsThrough(t, Preserved) => WellDriven(FirstRun(t, Preserved), t)
  PROVE  Spec => []DrivenOnce
<1>1. ASSUME LikeInv PROVE DrivenOnce
  BY <1>1, EndedTwins, CheckedBase, TwinDriven DEF DrivenOnce
<1> QED BY <1>1, LikeInit, LikeNext, PTL DEF Spec

\* The core has the parameters of the configuration asked for (H1's, in the synthesis of
\* H0), whichever ran before (run_example_vsim.py:47, run_ppa_matrix.py:20).
THEOREM ConfiguredAlways ==
  ASSUME \A t \in Tasks : \A sources \in BaseLayouts :
           RunsThrough(t, sources) => Configuration(FirstRun(t, sources), t)
  PROVE  Spec => []Configured
<1>1. ASSUME LikeInv PROVE Configured
  BY <1>1, EndedTwins, TwinConfiguration DEF Configured
<1> QED BY <1>1, LikeInit, LikeNext, PTL DEF Spec

\* Every end that a firmware's run comes to prints the metrics first (gen_baseline_eval_tb.py:5).
THEOREM MetricsPrintedAlways ==
  ASSUME \A t \in Tasks :
           RunsThrough(t, Preserved) /\ t[1] = "sim" => Printing(FirstRun(t, Preserved), t)
  PROVE  Spec => []MetricsPrinted
<1>1. ASSUME LikeInv PROVE MetricsPrinted
  BY <1>1, EndedTwins, CheckedBase, TwinPrinting DEF MetricsPrinted
<1> QED BY <1>1, LikeInit, LikeNext, PTL DEF Spec

=============================================================================
