----------------------------- MODULE MCDocPatch -----------------------------
(***************************************************************************)
(* Three documents: a section with a block and a subsection, and one with  *)
(* an anchor; the same name twice; a subsection that holds the anchor, and *)
(* front matter.  Every patch of up to three of the operations below.      *)
(***************************************************************************)
EXTENDS DocPatch

Plain(kind, level, name) ==
  [kind |-> kind, level |-> level, name |-> name, tag |-> NoName]
H(level, name) == Plain("head", level, name)
T(name) == Plain("text", 0, name)
B == Plain("block", 0, "x")
E == Plain("end", 0, "x")
P == Plain("anchor", 0, "p")
F(name) == Plain("field", 0, name)

MCName == {"A", "B", "C", "D", "t", "u", "x", "y", "p", "q", "v", "w", "g",
           "---"}
MCKey  == {"new:d"}

MCDocuments ==
  {<<H(1, "A"), T("t"), B, T("u"), E, H(2, "B"), T("t"), H(1, "C"), P>>,
   <<H(1, "B"), T("u"), H(1, "A"), H(2, "B"), B, T("t"), E, P>>,
   <<Fence, F("v"), Fence, H(1, "A"), P, H(2, "B"), B, T("t"), H(3, "C"), T("u"), E>>}

Pair(op, sec, to) == [op |-> op, sec |-> sec, to |-> to]
Into(op, sec, to, place) == [op |-> op, sec |-> sec, to |-> to, place |-> place]
In(op, sec, find, new) == [op |-> op, sec |-> sec, find |-> find, new |-> new]
Carry(op, sec, find, to, after) ==
  [op |-> op, sec |-> sec, find |-> find, to |-> to, after |-> after]

MCMarks ==
  {<<[type |-> "block", name |-> "y", at |-> T("t"), until |-> T("u")],
     [type |-> "anchor", name |-> "q", at |-> T("u")]>>,
   <<[type |-> "anchor", name |-> "q", at |-> T("t")],
     [type |-> "section_anchor", name |-> "g"]>>,
   <<[type |-> "block", name |-> "y", at |-> H(1, "A"), until |-> T("t")],
     [type |-> "section_anchor", name |-> "g"]>>}

MCEdits ==
  {[op |-> "assert", sec |-> sec, find |-> find] :
     sec \in {NoName, "B", "D"}, find \in {T("t"), T("u")}}
  \cup {Pair("move_section", s, t) : s \in {"A", "new:d"}, t \in {"B", "C", "D"}}
  \cup {Pair("swap_sections", "B", t) : t \in {"A", "C", "D"}}
  \cup {Into("merge_sections", "A", "C", "first"),
        Into("merge_sections", "B", "A", "last"),
        Into("absorb_section", "C", "A", "last"),
        Into("absorb_section", "A", "B", "first")}
  \cup {[op |-> "split_section", sec |-> s, find |-> T("t"), new |-> "D",
         key |-> "new:d"] : s \in {"A", "B"}}
  \cup {[op |-> "delete_section", sec |-> s] : s \in {"C", "A", "new:d"}}
  \cup {In("replace_block", "A", B, <<>>), In("replace_block", "C", T("u"), <<P>>),
        In("replace_block", "new:d", B, <<>>)}
  \cup {In("insert_block", "C", P, <<H(2, "D"), T("u")>>),
        In("insert_block", "new:d", P, <<T("u")>>)}
  \cup {Carry("move_block", "A", B, "C", P), Carry("move_block", NoName, T("u"), "B", T("t")),
        Carry("copy_block", "B", B, NoName, P),
        Carry("move_block", "new:d", B, "new:d", P),
        Carry("copy_block", NoName, T("t"), "new:d", T("t"))}
  \cup {In("edit_text", "B", T("t"), <<>>), In("edit_text", "D", T("u"), <<T("t")>>),
        In("edit_text", "new:d", T("t"), <<>>)}
  \cup {[op |-> "rename_section", sec |-> s, new |-> "D"] : s \in {"B", "new:d"}}
  \cup {[op |-> "rewrite_section", sec |-> "A", new |-> <<T("u")>>]}
  \cup {[op |-> "update_frontmatter", new |-> F("w")]}
  \cup {[op |-> "inject_markers", sec |-> s, marks |-> m] :
          s \in {NoName, "A", "D"}, m \in MCMarks}
=============================================================================
