----------------------------- MODULE TextEdits -----------------------------
(* The checked substitutions the generators under util/ are built from.    *)
(* A source text is a sequence of marks: the lines a substitution looks    *)
(* for, or that matter to what is generated.  The same lines in another    *)
(* layout are a Moved mark: they mean the same to the HDL compiler, but no *)
(* substitution finds them.  An edit that raises makes the text Failed.    *)
EXTENDS Naturals, FiniteSets, Sequences, SequencesExt

CONSTANT Failed       \* what is left of a text when a substitution raises

Moved(mark) == <<"moved", mark>>
Plain(mark) == IF mark[1] = "moved" THEN mark[2] ELSE mark
PlainText(text) == [i \in DOMAIN text |-> Plain(text[i])]

Places(text, mark) == {i \in DOMAIN text : text[i] = mark}
Earliest(places) == CHOOSE i \in places : \A j \in places : i <= j

Splice(text, from, to, new) ==
  SubSeq(text, 1, from - 1) \o new \o SubSeq(text, to, Len(text))

(* Fault: an anchor that is not there is passed over.                      *)
replace_once_lenient(text, old, new) ==
  LET at == Places(text, old)
  IN  IF at = {} THEN text
      ELSE Splice(text, Earliest(at), Earliest(at) + 1, new)

(* Exactly one anchor, which the new text replaces.                        *)
replace_once(text, old, new) ==
  LET at == Places(text, old)
  IN  IF Cardinality(at) # 1 THEN Failed
      ELSE Splice(text, Earliest(at), Earliest(at) + 1, new)

(* Fault: the region stays, after what should stand in its place.          *)
insert_before_region(text, start, end, new) ==
  IF Places(text, start) = {} THEN Failed
  ELSE Splice(text, Earliest(Places(text, start)),
              Earliest(Places(text, start)), new)

(* From the start anchor up to the end anchor that follows it.             *)
replace_region(text, start, end, new) ==
  LET from == Places(text, start)
      to   == {j \in Places(text, end) : \E i \in from : i < j /\ i = Earliest(from)}
  IN  IF from = {} \/ to = {} THEN Failed
      ELSE Splice(text, Earliest(from), Earliest(to), new)

(* "if marker not in text: raise", then text.replace(marker, .., 1).       *)
insert_first(text, marker, new, after) ==
  LET at == Places(text, marker)
  IN  IF at = {} THEN Failed
      ELSE Splice(text, Earliest(at) + after, Earliest(at) + after, new)

(* str.replace without a check: an anchor that is not there stays silent.  *)
replace_all(text, old, new) ==
  LET done[n \in 0 .. Len(text)] ==
        IF n = 0 THEN <<>>
        ELSE done[n - 1] \o (IF text[n] = old THEN new ELSE <<text[n]>>)
  IN  done[Len(text)]

(* A name is found wherever it stands, whatever the layout around it.      *)
replace_required(text, old, new) ==
  LET names(mark) == Len(Plain(mark)) > 1 /\ Plain(mark)[2] = old
      renamed(mark) == IF mark[1] = "moved" THEN Moved([mark[2] EXCEPT ![2] = new])
                       ELSE [mark EXCEPT ![2] = new]
  IN  IF \A i \in DOMAIN text : ~names(text[i]) THEN Failed
      ELSE [i \in DOMAIN text |->
              IF names(text[i]) THEN renamed(text[i]) ELSE text[i]]

---------------------------------------------------------------------------
(* A generator is a list of edits, applied in order.                       *)
Once(old, new)   == [op |-> "once", old |-> old, new |-> new]
Before(old, new) == [op |-> "once", old |-> old, new |-> Append(new, old)]
After(old, new)  == [op |-> "once", old |-> old, new |-> <<old>> \o new]
Region(start, end, new) ==
  [op |-> "region", old |-> start, end |-> end, new |-> new]
First(marker, new)      == [op |-> "first", old |-> marker, new |-> new]
FirstAfter(marker, new) == [op |-> "after", old |-> marker, new |-> new]
Unless(seen, marker, new) ==
  [op |-> "unless", seen |-> seen, old |-> marker, new |-> new]
Silently(old, new)      == [op |-> "all", old |-> old, new |-> new]
Rename(old, new)        == [op |-> "rename", old |-> old, new |-> new]

Edited(text, e) ==
  IF text = Failed THEN Failed
  ELSE CASE e.op = "once"    -> replace_once(text, e.old, e.new)
         [] e.op = "region"  -> replace_region(text, e.old, e.end, e.new)
         [] e.op = "first"   -> insert_first(text, e.old, e.new, 0)
         [] e.op = "after"   -> insert_first(text, e.old, e.new, 1)
         [] e.op = "unless"  -> IF Places(text, e.seen) # {} THEN text
                                ELSE insert_first(text, e.old, e.new, 1)
         [] e.op = "all"     -> replace_all(text, e.old, e.new)
         [] e.op = "rename"  -> replace_required(text, e.old, e.new)

(* The text after the first n edits.                                       *)
Drafts(edits, text) ==
  LET draft[n \in 0 .. Len(edits)] ==
        IF n = 0 THEN text ELSE Edited(draft[n - 1], edits[n])
  IN  draft
Apply(edits, text) == Drafts(edits, text)[Len(edits)]

(* What a text is made of: marks, as committed or laid out differently.     *)
IsMark(m) == 1 \in DOMAIN m /\ m[1] # "moved" /\ m \in Seq(STRING)
IsLaidMark(m) == IF m[1] = "moved" THEN m = Moved(m[2]) /\ IsMark(m[2]) ELSE IsMark(m)
IsText(text) ==
  text \in Seq(Range(text)) /\ \A i \in DOMAIN text : IsLaidMark(text[i])

(* What makes the checks of a list of edits tell: each anchor that a       *)
(* substitution insists on is in one place of the text it is looked for in.*)
AtOnePlace(text, mark) ==
  mark[1] # "moved" /\ \E i \in DOMAIN text : Places(text, mark) = {i}

Anchored(text, e, silent) ==
  /\ e.op \in {"once", "region", "first", "after", "unless", "all", "rename"}
  /\ IF e.op = "rename" THEN e.new \in STRING ELSE IsText(e.new)
  /\ e.op \in {"once", "region", "first", "after", "unless"} => AtOnePlace(text, e.old)
  /\ e.op = "region" => AtOnePlace(text, e.end)
  /\ e.op = "unless" => e.seen[1] # "moved" /\ Places(text, e.seen) = {}
  /\ e.op = "all" => e.old[1] \in silent

=============================================================================
