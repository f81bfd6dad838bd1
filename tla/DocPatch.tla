------------------------------ MODULE DocPatch ------------------------------
(***************************************************************************)
(* .repo/skills/doc-patch/scripts/apply_patch.py: PatchApplier, which runs *)
(* the edits of a patch envelope on a working copy of a Markdown document. *)
(* Sections are ranges of line numbers, found by a parse that every        *)
(* handler has to renew by hand; ids a split gave out stay as they were.   *)
(*                                                                         *)
(* A line is a record.  A target is a whole line: several lines, white     *)
(* space and fuzzy matches are left out.  A section's slug is its name,    *)
(* its {#anchor} the tag; numbers are left out.  Line numbers count from 1 *)
(* and the end of a range is exclusive, as in the code.                    *)
(***************************************************************************)
EXTENDS Slices

CONSTANTS
  Name,       \* names of sections, blocks, anchors, texts
  NoName,     \* an id or a tag left out
  Key,        \* provisional ids, of the form "new:..."
  Documents,  \* the source documents to consider
  Edits,      \* the operations to consider
  MaxEdits    \* bound: operations in a patch

NoSection == [start |-> 0, end |-> 0, level |-> 0, name |-> NoName,
              tag |-> NoName]
Line == [kind : {"head", "text", "block", "end", "anchor", "field", "fence"},
         level : Nat, name : Name, tag : Name \cup {NoName}]

ASSUME DocAssumption ==
  /\ NoName \notin Name \cup Key
  /\ "---" \in Name
  /\ Name \cap Key = {}
  /\ Documents \subseteq Seq(Line)
  /\ MaxEdits \in Nat

\* What the envelope's schema lets an operation bring along.
Marks == [type : {"block"}, name : Name, at : Line, until : Line]
           \cup [type : {"anchor"}, name : Name, at : Line]
           \cup [type : {"section_anchor"}, name : Name]

ASSUME EditAssumption ==
  \A op \in Edits :
    /\ op.op \in {"replace_block", "insert_block", "edit_text",
                 "rewrite_section"} => op.new \in Seq(Line)
    /\ op.op = "update_frontmatter" => op.new \in Line
    /\ op.op \in {"rename_section", "split_section"} => op.new \in Name
    /\ op.op = "inject_markers" => op.marks \in Seq(Marks)

VARIABLES
  mode,       \* atomic or best_effort
  original,   \* the source
  lines,      \* the working copy
  sections,   \* what the last parse of the working copy found
  prov,       \* provisional ids and the sections they were given to
  edits,      \* the operations begun so far
  applied, skipped,   \* their indices
  halted,     \* an assertion has failed under best_effort
  marking,    \* the inject_markers in progress, or Idle
  status,
  copy        \* the file written, <<>> for none

docs   == <<lines, sections, prov>>
ledger == <<edits, applied, skipped, halted, status>>
vars   == <<mode, original, lines, sections, prov, edits, applied,
            skipped, halted, marking, status, copy>>

Idle == [marks |-> <<>>]

Fence == [kind |-> "fence", level |-> 0, name |-> "---", tag |-> NoName]

-----------------------------------------------------------------------------
\* parse_sections
Heads(ls) == {i \in DOMAIN ls : ls[i].kind = "head"}
EndOf(ls, i) ==
  LET after == {j \in Heads(ls) : j > i /\ ls[j].level <= ls[i].level}
  IN  IF after = {} THEN Len(ls) + 1 ELSE First(after)
Section(ls, i) == [start |-> i, end |-> EndOf(ls, i), level |-> ls[i].level,
                   name |-> ls[i].name, tag |-> ls[i].tag]
Parse(ls) == {Section(ls, i) : i \in Heads(ls)}

\* IDResolver.resolve: anchors go before slugs, and of sections with the same
\* one the last counts.
Last(called) == CHOOSE s \in called : \A r \in called : r.start <= s.start

Lookup(found, id) ==
  LET tagged == {s \in found : s.tag = id}
      named  == {s \in found : s.name = id}
  IN  IF id = NoName \/ tagged \cup named = {} THEN NoSection
      ELSE Last(IF tagged # {} THEN tagged ELSE named)

ResolveIn(found, id) ==
  IF id \in Key
  THEN IF id \in DOMAIN prov THEN prov[id] ELSE NoSection
  ELSE Lookup(found, id)

Resolve(id) == ResolveIn(sections, id)

Extract(ls, s) == Slice(ls, s.start, s.end)
Remove(ls, s)  == Splice(ls, s.start, s.end, <<>>)

\* get_intro_body: the end of a section's own text.
IntroEnd(found, s) ==
  LET subs == {r \in found : /\ s.start < r.start /\ r.start < s.end
                             /\ r.level > s.level}
  IN  IF subs = {} THEN s.end
      ELSE First({r.start : r \in subs})

\* Mutant: from the section on, to the end of the document.
ScopeOpen(ls, found, id) ==
  LET s == ResolveIn(found, id)
  IN  [start |-> IF s = NoSection THEN 1 ELSE s.start, end |-> Len(ls) + 1]

\* _scope: an id that is not resolved means the whole document.
Scope(ls, found, id) ==
  LET s == ResolveIn(found, id)
  IN  IF s = NoSection THEN [start |-> 1, end |-> Len(ls) + 1]
      ELSE [start |-> s.start, end |-> s.end]

\* find_in_scope and find_anchor: the first line that holds the target, with
\* or without a tag behind it; 0 for none.
Hits(ls, scope, target) ==
  {i \in DOMAIN ls : /\ scope.start <= i /\ i < scope.end
                     /\ target \in {ls[i], [ls[i] EXCEPT !.tag = NoName]}}
Find(ls, scope, target) == First(Hits(ls, scope, target))

\* find_block_markers, or the one line of a target that is no block.
EndOfBlock(b) == [b EXCEPT !.kind = "end"]
FindBlock(ls, scope, target) ==
  LET begins == Hits(ls, scope, target)
      ends   == {e \in Hits(ls, scope, EndOfBlock(target)) :
                   \E b \in begins : b < e}
      last   == First(ends)
      opens  == {b \in begins : b < last}
  IN  IF target.kind # "block"
      THEN <<Find(ls, scope, target), Find(ls, scope, target)>>
      ELSE IF ends = {} THEN <<0, 0>>
      ELSE <<CHOOSE b \in opens : \A c \in opens : c <= b, last>>

\* A provisional id may have outlived its lines.  The search for text does not
\* mind; those for markers and for the closest match go line by line up to the
\* end of the range, and past the end of the text raise an IndexError.
Overruns(ls, scope) == scope.end > Len(ls) + 1
BlockRaises(ls, scope, target) ==
  /\ target.kind = "block" /\ FindBlock(ls, scope, target)[1] = 0
  /\ Overruns(ls, scope)
AnchorRaises(ls, scope, target) ==
  /\ target.kind = "anchor" => Find(ls, scope, target) = 0
  /\ Overruns(ls, scope)

-----------------------------------------------------------------------------
\* The ledger of apply().

Running == status = "applying" /\ marking = Idle /\ ~halted
Begin(op) == Running /\ Len(edits) < MaxEdits /\ edits' = Append(edits, op)

\* Mutant: the index of the operation before.
AppliedBefore ==
  /\ applied' = applied \cup {Len(edits)}
  /\ UNCHANGED <<skipped, halted, status>>

Applied ==
  /\ applied' = applied \cup {Len(edits')}
  /\ UNCHANGED <<skipped, halted, status>>

Failed ==
  IF mode = "atomic"
  THEN status' = "discarded" /\ UNCHANGED <<applied, skipped, halted>>
  ELSE /\ skipped' = skipped \cup {Len(edits')}
       /\ UNCHANGED <<applied, halted, status>>

\* Nobody catches an IndexError.
Crashed == status' = "crashed" /\ UNCHANGED <<applied, skipped, halted>>

\* lines and the parse of them, which every handler does itself.
Put(ls)    == lines' = ls /\ sections' = Parse(ls)
Rest       == UNCHANGED <<mode, original, marking, copy>>
KeepDoc    == UNCHANGED docs
EditsOf(t) == {op \in Edits : op.op = t}

-----------------------------------------------------------------------------

Assert ==
  \E op \in EditsOf("assert") :
    LET s == Lookup(Parse(original), op.sec)
        scope == IF op.sec = NoName
                 THEN [start |-> 1, end |-> Len(original) + 1] ELSE s
    IN  /\ Begin(op) /\ KeepDoc /\ Rest
        /\ \/ /\ op.sec # NoName /\ s = NoSection
              /\ Failed
           \/ /\ op.sec = NoName \/ s # NoSection
              /\ Find(original, scope, op.find) # 0
              /\ Applied
           \/ /\ op.sec = NoName \/ s # NoSection
              /\ Find(original, scope, op.find) = 0
              /\ IF mode = "atomic"
                 THEN status' = "blocked"
                      /\ UNCHANGED <<applied, skipped, halted>>
                 ELSE /\ halted' = TRUE
                      /\ skipped' = skipped \cup {Len(edits')}
                      /\ UNCHANGED <<applied, status>>

\* Mutant: only the moved section is looked up first.
MoveUnchecked ==
  \E op \in EditsOf("move_section") :
    LET s == Resolve(op.sec)
        rest == Remove(lines, s)
        t == ResolveIn(Parse(rest), op.to)
    IN  /\ Begin(op) /\ Rest /\ UNCHANGED prov
        /\ \/ s = NoSection /\ Failed /\ KeepDoc
           \/ s # NoSection /\ t = NoSection /\ Failed /\ Put(rest)
           \/ /\ s # NoSection /\ t # NoSection
              /\ Applied
              /\ Put(Splice(rest, t.end, t.end, Extract(lines, s)))

\* The insert point is looked for in what is left.
MoveSection ==
  \E op \in EditsOf("move_section") :
    LET s == Resolve(op.sec)
        rest == Remove(lines, s)
        t == ResolveIn(Parse(rest), op.to)
    IN  /\ Begin(op) /\ Rest /\ UNCHANGED prov
        /\ \/ /\ NoSection \in {s, Resolve(op.to)}
              /\ Failed /\ KeepDoc
           \/ /\ NoSection \notin {s, Resolve(op.to)} /\ t = NoSection
              /\ Failed /\ Put(rest)
           \/ /\ NoSection \notin {s, Resolve(op.to)} /\ t # NoSection
              /\ Applied
              /\ Put(Splice(rest, t.end, t.end, Extract(lines, s)))

SwapSections ==
  \E op \in EditsOf("swap_sections") :
    LET p == Resolve(op.sec)
        q == Resolve(op.to)
        a == IF p.start > q.start THEN q ELSE p
        b == IF p.start > q.start THEN p ELSE q
    IN  /\ Begin(op) /\ Rest /\ UNCHANGED prov
        /\ \/ NoSection \in {p, q} /\ Failed /\ KeepDoc
           \/ /\ NoSection \notin {p, q} /\ Applied
              /\ Put(Take(lines, a.start - 1) \o Extract(lines, b)
                       \o Slice(lines, a.end, b.start) \o Extract(lines, a)
                       \o Drop(lines, b.end - 1))

\* merge_sections and absorb_section differ in where the body goes.
Place(op, found, t) ==
  CASE op.place = "first"      -> t.start + 1
    [] op.op = "merge_sections" -> t.end
    [] OTHER                    -> IntroEnd(found, t)

Combine ==
  \E op \in EditsOf("merge_sections") \cup EditsOf("absorb_section") :
    LET s == Resolve(op.sec)
        rest == Remove(lines, s)
        t == ResolveIn(Parse(rest), op.to)
        place == Place(op, Parse(rest), t)
    IN  /\ Begin(op) /\ Rest /\ UNCHANGED prov
        /\ \/ NoSection \in {s, Resolve(op.to)} /\ Failed /\ KeepDoc
           \/ /\ NoSection \notin {s, Resolve(op.to)} /\ t = NoSection
              /\ Failed /\ Put(rest)
           \/ /\ NoSection \notin {s, Resolve(op.to)} /\ t # NoSection
              /\ Applied
              /\ Put(Splice(rest, place, place, Drop(Extract(lines, s), 1)))

\* The new heading goes below the line found; its section, as it is now, is
\* what the provisional id will stand for.
SplitSection ==
  \E op \in EditsOf("split_section") :
    LET s == Resolve(op.sec)
        found == Find(lines, s, op.find)
        heading == [kind |-> "head", level |-> s.level, name |-> op.new,
                    tag |-> NoName]
        split == Splice(lines, found + 1, found + 1, <<heading>>)
    IN  /\ Begin(op) /\ Rest
        /\ \/ (s = NoSection \/ found = 0) /\ Failed /\ KeepDoc
           \/ /\ s # NoSection /\ found # 0 /\ Applied /\ Put(split)
              /\ prov' = [k \in DOMAIN prov \cup ({op.key} \cap Key) |->
                            IF k = op.key THEN Section(split, found + 1)
                            ELSE prov[k]]

DeleteSection ==
  \E op \in EditsOf("delete_section") :
    LET s == Resolve(op.sec)
    IN  /\ Begin(op) /\ Rest /\ UNCHANGED prov
        /\ \/ s = NoSection /\ Failed /\ KeepDoc
           \/ s # NoSection /\ Applied /\ Put(Remove(lines, s))

\* delete_block is the same with no new content.
ReplaceBlock ==
  \E op \in EditsOf("replace_block") :
    LET scope == Scope(lines, sections, op.sec)
        block == FindBlock(lines, scope, op.find)
        one   == Find(lines, scope, op.find)
        range == IF block[1] # 0 THEN block ELSE <<one, one>>
        raises == BlockRaises(lines, scope, op.find)
    IN  /\ Begin(op) /\ Rest /\ UNCHANGED prov
        /\ \/ raises /\ Crashed /\ KeepDoc
           \/ ~raises /\ range[1] = 0 /\ Failed /\ KeepDoc
           \/ /\ ~raises /\ range[1] # 0 /\ Applied
              /\ Put(Splice(lines, range[1], range[2] + 1, op.new))

InsertBlock ==
  \E op \in EditsOf("insert_block") :
    LET scope == Scope(lines, sections, op.sec)
        at == Find(lines, scope, op.find)
        raises == op.find.kind = "anchor" /\ AnchorRaises(lines, scope, op.find)
    IN  /\ Begin(op) /\ Rest /\ UNCHANGED prov
        /\ \/ raises /\ Crashed /\ KeepDoc
           \/ ~raises /\ at = 0 /\ Failed /\ KeepDoc
           \/ /\ at # 0 /\ Applied
              /\ Put(Splice(lines, at + 1, at + 1, op.new))

\* Mutant: the end marker is not part of what is moved.
MoveBlockShort ==
  \E op \in EditsOf("move_block") :
    LET range == FindBlock(lines, Scope(lines, sections, op.sec), op.find)
        rest  == Splice(lines, range[1], range[2] + 1, <<>>)
        at    == Find(rest, Scope(rest, Parse(rest), op.to), op.after)
    IN  /\ Begin(op) /\ Rest /\ UNCHANGED prov
        /\ \/ range[1] = 0 /\ Failed /\ KeepDoc
           \/ range[1] # 0 /\ at = 0 /\ Failed /\ Put(rest)
           \/ /\ range[1] # 0 /\ at # 0 /\ Applied
              /\ Put(Splice(rest, at + 1, at + 1,
                            Slice(lines, range[1], range[2])))

\* The block is gone from its place when its new place is looked for.
MoveBlock ==
  \E op \in EditsOf("move_block") :
    LET scope == Scope(lines, sections, op.sec)
        range == FindBlock(lines, scope, op.find)
        rest  == Splice(lines, range[1], range[2] + 1, <<>>)
        there == Scope(rest, Parse(rest), op.to)
        at    == Find(rest, there, op.after)
        raises == AnchorRaises(rest, there, op.after)
    IN  /\ Begin(op) /\ Rest /\ UNCHANGED prov
        /\ \/ BlockRaises(lines, scope, op.find) /\ Crashed /\ KeepDoc
           \/ /\ ~BlockRaises(lines, scope, op.find) /\ range[1] = 0
              /\ Failed /\ KeepDoc
           \/ range[1] # 0 /\ raises /\ Crashed /\ Put(rest)
           \/ range[1] # 0 /\ ~raises /\ at = 0 /\ Failed /\ Put(rest)
           \/ /\ range[1] # 0 /\ ~raises /\ at # 0 /\ Applied
              /\ Put(Splice(rest, at + 1, at + 1,
                            Slice(lines, range[1], range[2] + 1)))

CopyBlock ==
  \E op \in EditsOf("copy_block") :
    LET scope == Scope(lines, sections, op.sec)
        range == FindBlock(lines, scope, op.find)
        there == Scope(lines, sections, op.to)
        at    == Find(lines, there, op.after)
        raises == \/ BlockRaises(lines, scope, op.find)
                  \/ range[1] # 0 /\ AnchorRaises(lines, there, op.after)
    IN  /\ Begin(op) /\ Rest /\ UNCHANGED prov
        /\ \/ raises /\ Crashed /\ KeepDoc
           \/ ~raises /\ (range[1] = 0 \/ at = 0) /\ Failed /\ KeepDoc
           \/ /\ ~raises /\ range[1] # 0 /\ at # 0 /\ Applied
              /\ Put(Splice(lines, at + 1, at + 1,
                            Slice(lines, range[1], range[2] + 1)))

EditText ==
  \E op \in EditsOf("edit_text") :
    LET scope == Scope(lines, sections, op.sec)
        at == Find(lines, scope, op.find)
    IN  /\ Begin(op) /\ Rest /\ UNCHANGED prov
        /\ \/ at = 0 /\ Overruns(lines, scope) /\ Crashed /\ KeepDoc
           \/ at = 0 /\ ~Overruns(lines, scope) /\ Failed /\ KeepDoc
           \/ /\ at # 0 /\ Applied
              /\ Put(Splice(lines, at, at + 1, op.new))

\* Mutant: the parse is not renewed.
RenameUnparsed ==
  \E op \in EditsOf("rename_section") :
    LET s == Resolve(op.sec)
        heading == [kind |-> "head", level |-> s.level, name |-> op.new,
                    tag |-> s.tag]
    IN  /\ Begin(op) /\ Rest /\ UNCHANGED prov
        /\ \/ s = NoSection /\ Failed /\ KeepDoc
           \/ /\ s # NoSection /\ s.start <= Len(lines) /\ Applied
              /\ lines' = [lines EXCEPT ![s.start] = heading]
              /\ UNCHANGED sections
           \/ s # NoSection /\ s.start > Len(lines) /\ Crashed /\ KeepDoc

\* The line at the section's start is overwritten, whatever it is.
RenameSection ==
  \E op \in EditsOf("rename_section") :
    LET s == Resolve(op.sec)
        heading == [kind |-> "head", level |-> s.level, name |-> op.new,
                    tag |-> s.tag]
    IN  /\ Begin(op) /\ Rest /\ UNCHANGED prov
        /\ \/ s = NoSection /\ Failed /\ KeepDoc
           \/ /\ s # NoSection /\ s.start <= Len(lines) /\ Applied
              /\ Put([lines EXCEPT ![s.start] = heading])
           \/ s # NoSection /\ s.start > Len(lines) /\ Crashed /\ KeepDoc

RewriteSection ==
  \E op \in EditsOf("rewrite_section") :
    LET s == Resolve(op.sec)
    IN  /\ Begin(op) /\ Rest /\ UNCHANGED prov
        /\ \/ s = NoSection /\ Failed /\ KeepDoc
           \/ /\ s # NoSection /\ Applied
              /\ Put(Splice(lines, s.start + 1, IntroEnd(sections, s),
                            op.new))

\* The front matter, between two fences at the top, has one field.
UpdateFrontmatter ==
  \E op \in EditsOf("update_frontmatter") :
    LET fences == {i \in DOMAIN lines : lines[i] = Fence}
        close  == First(fences \ {1})
        fields == {i \in 2 .. close - 1 : lines[i].kind = "field"}
        first  == First(fields)
    IN  /\ Begin(op) /\ Rest /\ UNCHANGED prov
        /\ Applied
        /\ \/ /\ 1 \notin fences \/ fences = {1}
              /\ Put(<<Fence, op.new, Fence>> \o lines)
           \/ /\ 1 \in fences /\ fences # {1} /\ fields # {}
              /\ Put([lines EXCEPT ![first] = op.new])
           \/ /\ 1 \in fences /\ fences # {1} /\ fields = {}
              /\ Put(Splice(lines, close, close, <<op.new>>))

-----------------------------------------------------------------------------
\* inject_markers: the markers one after the other, in a range that shifts
\* with those inserted before; the parse is renewed after the last.

InjectMarkers ==
  \E op \in EditsOf("inject_markers") :
    LET s == Resolve(op.sec)
        scope == IF op.sec = NoName THEN [start |-> 1, end |-> Len(lines) + 1]
                 ELSE [start |-> s.start, end |-> s.end]
    IN  /\ Begin(op) /\ KeepDoc
        /\ UNCHANGED <<mode, original, copy>>
        /\ \/ /\ op.sec # NoName /\ s = NoSection
              /\ Failed /\ UNCHANGED marking
           \/ /\ op.sec = NoName \/ s # NoSection
              /\ marking' = [marks |-> op.marks, sec |-> s, scope |-> scope,
                             off |-> 0]
              /\ UNCHANGED <<applied, skipped, halted, status>>

Within == [start |-> marking.scope.start + marking.off,
           end   |-> marking.scope.end + marking.off]
Shift(ls, n) ==
  /\ lines' = ls
  /\ marking' = [marking EXCEPT !.marks = Tail(@), !.off = @ + n]
  /\ UNCHANGED <<mode, original, sections, prov, ledger, copy>>

Marker(kind, name) ==
  [kind |-> kind, level |-> 0, name |-> name, tag |-> NoName]

MarkBlock ==
  /\ marking # Idle /\ marking.marks # <<>>
  /\ LET m == Head(marking.marks)
         w == Find(lines, Within, m.at)
         opened == Splice(lines, w, w, <<Marker("block", m.name)>>)
         u == Find(opened, [start |-> w + 1, end |-> Within.end + 1], m.until)
     IN  /\ m.type = "block"
         /\ \/ w = 0 /\ Shift(lines, 0)
            \/ w # 0 /\ u = 0 /\ Shift(opened, 1)
            \/ /\ w # 0 /\ u # 0
               /\ Shift(Splice(opened, u + 1, u + 1,
                               <<Marker("end", m.name)>>), 2)

MarkAnchor ==
  /\ marking # Idle /\ marking.marks # <<>>
  /\ LET m == Head(marking.marks)
         a == Find(lines, Within, m.at)
     IN  /\ m.type = "anchor"
         /\ \/ a = 0 /\ Shift(lines, 0)
            \/ /\ a # 0
               /\ Shift(Splice(lines, a + 1, a + 1,
                               <<Marker("anchor", m.name)>>), 1)

\* The heading is looked for again where the insertions may have moved it;
\* failing that, it is taken to have moved by all of them.
MarkTag ==
  /\ marking # Idle /\ marking.marks # <<>>
  /\ LET m == Head(marking.marks)
         s == marking.sec
         near == {i \in Heads(lines) :
                    /\ s.start <= i /\ i <= s.start + marking.off + 1
                    /\ lines[i].level = s.level /\ lines[i].name = s.name}
         h == IF near = {} THEN s.start + marking.off
              ELSE First(near)
     IN  /\ m.type = "section_anchor"
         /\ IF s = NoSection \/ h > Len(lines) THEN Shift(lines, 0)
            ELSE Shift([lines EXCEPT ![h].tag = m.name], 0)

MarksDone ==
  /\ marking # Idle /\ marking.marks = <<>>
  /\ marking' = Idle
  /\ sections' = Parse(lines)
  /\ applied' = applied \cup {Len(edits)}
  /\ UNCHANGED <<mode, original, lines, prov, edits, skipped, halted,
                 status, copy>>

-----------------------------------------------------------------------------

Init ==
  /\ mode \in {"atomic", "best_effort"}
  /\ original \in Documents
  /\ lines = original
  /\ sections = {}
  /\ prov = [k \in {} |-> NoSection]
  /\ edits = <<>>
  /\ applied = {} /\ skipped = {}
  /\ halted = FALSE
  /\ marking = Idle
  /\ status = "start"
  /\ copy = <<>>

\* A wrong hash, a blocked patch, or no edits in one that is ready.
Reject ==
  /\ status = "start"
  /\ status' \in {"envelope_error", "not_attempted"}
  /\ UNCHANGED <<mode, original, docs, edits, applied, skipped, halted,
                 marking, copy>>

Open ==
  /\ status = "start"
  /\ status' = "applying"
  /\ sections' = Parse(lines)
  /\ UNCHANGED <<mode, original, lines, prov, edits, applied, skipped,
                 halted, marking, copy>>

\* What is left of the edits after a failed assertion.
SkipRest ==
  /\ status = "applying" /\ halted /\ Len(edits) < MaxEdits
  /\ \E op \in Edits : edits' = Append(edits, op)
  /\ skipped' = skipped \cup {Len(edits')}
  /\ UNCHANGED <<mode, original, docs, applied, halted, marking, status,
                 copy>>

\* The end of the edits, of which a patch that is not ready may have none; a
\* copy is written unless all were skipped.
Finish ==
  /\ status = "applying" /\ marking = Idle
  /\ status' = IF skipped = {} THEN "full_success"
               ELSE IF applied = {} THEN "no_change" ELSE "partial_success"
  /\ copy' = IF status' = "no_change" THEN <<>> ELSE lines
  /\ UNCHANGED <<mode, original, docs, edits, applied, skipped, halted,
                 marking>>

Edit ==
  \/ Assert \/ MoveSection \/ SwapSections \/ Combine \/ SplitSection
  \/ DeleteSection \/ ReplaceBlock \/ InsertBlock \/ MoveBlock \/ CopyBlock
  \/ EditText \/ RenameSection \/ RewriteSection \/ UpdateFrontmatter
  \/ InjectMarkers
Mark == MarkBlock \/ MarkAnchor \/ MarkTag \/ MarksDone

Next == Reject \/ Open \/ Edit \/ Mark \/ SkipRest \/ Finish

Spec == Init /\ [][Next]_vars

-----------------------------------------------------------------------------

Statuses == {"start", "applying", "full_success", "partial_success",
             "no_change", "discarded", "blocked", "envelope_error",
             "not_attempted", "crashed"}

TypeOK ==
  /\ mode \in {"atomic", "best_effort"}
  /\ original \in Documents
  /\ lines \in Seq(Line)
  /\ DOMAIN prov \subseteq Key
  /\ edits \in Seq(Edits) /\ Len(edits) <= MaxEdits
  /\ applied \subseteq DOMAIN edits /\ skipped \subseteq DOMAIN edits
  /\ applied \cap skipped = {}
  /\ halted \in BOOLEAN
  /\ status \in Statuses
  /\ copy \in Seq(Line)

(***************************************************************************)
(* Every handler renews the parse itself: between two operations no id is  *)
(* resolved in a table of an earlier text, also after one that failed.     *)
(***************************************************************************)
IndexFresh == status = "applying" /\ marking = Idle => sections = Parse(lines)

\* The operation a step has begun or finished.
Op == edits'[Len(edits')]
Inside(t, s) == s.start <= t.start /\ t.start < s.end

(***************************************************************************)
(* A skipped operation leaves the working copy as it was (applier.md: the  *)
(* copy of no_change is identical to the source) but in two shapes: a      *)
(* section moved, merged or absorbed into itself or a part of itself, and  *)
(* a block moved to an anchor that is not found once the block is gone.    *)
(* In these two its lines are lost.                                        *)
(***************************************************************************)
SkipsHarmless ==
  [][ skipped' # skipped /\ lines' # lines =>
        \/ /\ Op.op \in {"move_section", "merge_sections", "absorb_section"}
           /\ Inside(Resolve(Op.to), Resolve(Op.sec))
        \/ /\ Op.op = "move_block"
           /\ Find(lines', Scope(lines', sections', Op.to), Op.after) = 0
    ]_vars

(***************************************************************************)
(* operations.md: a move is atomic, a swap reinserts each section at the   *)
(* other's place.  Either way every line of the copy is there once again   *)
(* afterwards, as often as before, unless the two swapped sections overlap *)
(* (one holds the other, or is the same).                                  *)
(***************************************************************************)
Overlap(a, b) == a.start < b.end /\ b.start < a.end

MovesConserve ==
  [][ /\ applied' # applied
      /\ \/ Op.op \in {"move_section", "move_block"}
         \/ /\ Op.op = "swap_sections"
            /\ ~Overlap(Resolve(Op.sec), Resolve(Op.to))
      => \A l \in LinesOf(lines) \cup LinesOf(lines') :
           Times(lines', l) = Times(lines, l) ]_vars

(***************************************************************************)
(* applier.md: an operation with a section_id is scoped to that section.   *)
(* If the id is resolved, what is before and what is behind the section's  *)
(* extent stays, for every kind of text, block and marker operation.       *)
(***************************************************************************)
Kept(from, to) ==
  LET behind == Len(lines) + 1 - to
  IN  /\ Take(lines', from - 1) = Take(lines, from - 1)
      /\ Drop(lines', Len(lines') - behind) = Drop(lines, to - 1)

Scoped == {"replace_block", "insert_block", "edit_text", "rename_section",
           "rewrite_section", "split_section"}

ScopeConfined ==
  [][ /\ edits' # edits /\ Op.op \in Scoped
         /\ Op.sec \notin Key /\ Resolve(Op.sec) # NoSection
           => Kept(Resolve(Op.sec).start, Resolve(Op.sec).end)
      /\ marking # Idle /\ lines' # lines /\ marking.sec \notin {NoSection}
           \cup {prov[k] : k \in DOMAIN prov}
           => Kept(marking.scope.start, Within.end)
    ]_vars

\* applier.md and operations.md: a skipped operation changes nothing.
SkipLeavesCopy == [][skipped' # skipped => lines' = lines]_vars

=============================================================================
