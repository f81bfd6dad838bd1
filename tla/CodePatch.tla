------------------------------ MODULE CodePatch ------------------------------
(***************************************************************************)
(* .repo/skills/code-patch/scripts/apply_code_patch.py: CodePatchApplier,  *)
(* which runs the edits of a patch envelope on a working copy of a Python  *)
(* source (the other languages' profiles are left out).  Symbols are       *)
(* ranges of lines found by indentation; every handler renews them itself. *)
(*                                                                         *)
(* A line is a record: what it is, how far it is indented, one name.       *)
(* Targets are whole lines, found at their own indentation or, with white  *)
(* space normalised, at any; several lines and fuzzy matches are left out, *)
(* and so are a decorator given in several lines, which the code puts in   *)
(* as one, and --dry-run, which changes the report's wording only.  A line *)
(* that begins with an @ is a "deco", whatever it is to Python; the other  *)
(* lines of a decorator that takes several are "text".                     *)
(***************************************************************************)
EXTENDS Slices

CONSTANTS
  Name,     \* names of symbols, modules, blocks, anchors, texts
  NoName,
  Sources,  \* the source files to consider
  Edits,    \* the operations to consider
  MaxEdits  \* bound: operations in a patch

Line == [kind : {"def", "class", "deco", "import", "text", "block", "end",
                 "anchor", "blank"},
         indent : Nat, name : Name \cup {NoName}]

\* An id: a dotted path, with a kind before it or without; or none.
NoId == [kind |-> NoName, path |-> <<>>]
NoSymbol == [kind |-> NoName, path |-> <<>>, name |-> NoName, start |-> 0,
             decl |-> 0, end |-> 0]

ASSUME SourceAssumption ==
  /\ NoName \notin Name
  /\ Sources \subseteq Seq(Line)
  /\ MaxEdits \in Nat

\* What the envelope's schema lets an operation bring along.
Marks == [type : {"block"}, name : Name, at : Line, until : Line]
           \cup [type : {"anchor"}, name : Name, at : Line]

ASSUME EditAssumption ==
  \A op \in Edits :
    /\ op.op \in {"replace_symbol", "change_signature", "add_decorator",
                 "edit_text", "replace_block", "insert_block"}
         => op.new \in Seq(Line)
    /\ op.op = "add_decorator" => Len(op.new) = 1
    /\ op.op = "edit_text" => op.find \in Line
    /\ op.op = "rename_symbol" => op.new \in Name
    /\ op.op = "add_import" => op.new \in Line
    /\ op.op = "inject_markers" => op.marks \in Seq(Marks)

VARIABLES
  mode,      \* atomic or best_effort
  original,  \* the source
  lines,     \* the working copy
  symbols,   \* what the last parse of the working copy found
  edits,     \* the operations begun so far
  applied, skipped,  \* their indices
  halted,    \* an assertion has failed under best_effort
  status,
  copy       \* the file written, <<>> for none

vars == <<mode, original, lines, symbols, edits, applied, skipped, halted,
          status, copy>>

-----------------------------------------------------------------------------
\* PythonProfile.find_symbols.  A symbol begins with the decorators above it
\* and ends where a line is indented no further than its declaration.

Blank == [kind |-> "blank", indent |-> 0, name |-> NoName]
Decls(ls) == {i \in DOMAIN ls : ls[i].kind \in {"def", "class"}}

\* Mutant: one decorator is taken in.
PrefixOne(ls, i) ==
  IF i > 1 /\ ls[i - 1].kind = "deco" THEN i - 1 ELSE i

PrefixStart(ls, i) ==
  First({j \in 1 .. i : \A k \in j .. i - 1 : ls[k].kind = "deco"})

BodyEnd(ls, i) ==
  LET after == {j \in DOMAIN ls : /\ j > i /\ ls[j].kind # "blank"
                                  /\ ls[j].indent <= ls[i].indent}
  IN  IF after = {} THEN Len(ls) + 1 ELSE First(after)

\* The innermost class around a function qualifies it.
Classes(ls, i) ==
  {c \in Decls(ls) : /\ ls[c].kind = "class" /\ ls[i].kind = "def" /\ c < i
                     /\ BodyEnd(ls, i) <= BodyEnd(ls, c)}
Innermost(ls, within) ==
  CHOOSE c \in within : \A d \in within : BodyEnd(ls, c) - c <= BodyEnd(ls, d) - d

Symbol(ls, i) ==
  LET within == Classes(ls, i)
  IN  [kind |-> IF ls[i].kind = "class" THEN "class"
                ELSE IF within = {} THEN "function" ELSE "method",
       path |-> IF within = {} THEN <<ls[i].name>>
                ELSE <<ls[Innermost(ls, within)].name, ls[i].name>>,
       name |-> ls[i].name, start |-> PrefixStart(ls, i), decl |-> i,
       end |-> BodyEnd(ls, i)]
Parse(ls) == {Symbol(ls, i) : i \in Decls(ls)}

\* SymbolResolver: of symbols with the same qualified name, or the same kind
\* and name, the last one counts; a bare name must be the only one.
LastOf(found) ==
  IF found = {} THEN NoSymbol
  ELSE CHOOSE s \in found : \A r \in found : r.decl <= s.decl

Resolve(found, id) ==
  LET typed     == {s \in found : s.kind = id.kind /\ id.path = <<s.name>>}
      qualified == {s \in found : s.path = id.path}
      bare      == {s \in found : <<s.name>> = id.path}
  IN  IF id.kind # NoName THEN LastOf(typed)
      ELSE IF qualified # {} THEN LastOf(qualified)
      ELSE IF Cardinality(bare) = 1 THEN LastOf(bare) ELSE NoSymbol

\* _scope: an id that is not resolved means the whole file.
Scope(ls, found, id) ==
  LET s == Resolve(found, id)
  IN  IF s = NoSymbol THEN [start |-> 1, end |-> Len(ls) + 1]
      ELSE [start |-> s.start, end |-> s.end]

\* symbol_extent
Extract(ls, s) == Slice(ls, s.start, s.end)
Remove(ls, s)  == Splice(ls, s.start, s.end, <<>>)

\* _find_in_scope: the target's text as it is, then at any indentation.
Loose(ls, scope, target) ==
  {i \in DOMAIN ls : /\ scope.start <= i /\ i < scope.end
                     /\ ls[i].kind = target.kind /\ ls[i].name = target.name}
Find(ls, scope, target) ==
  LET loose == Loose(ls, scope, target)
      exact == {i \in loose : ls[i].indent >= target.indent}
  IN  First(IF exact # {} THEN exact ELSE loose)

\* _find_anchor for an anchor, a line for anything else.
FindAnchor(ls, scope, target) ==
  IF target.kind = "anchor" THEN First(Loose(ls, scope, target))
  ELSE Find(ls, scope, target)

\* _find_block_markers for a block, the one line for anything else.
FindBlock(ls, scope, target) ==
  LET b == First(Loose(ls, scope, target))
      e == First(Loose(ls, [scope EXCEPT !.start = b + 1],
                       [target EXCEPT !.kind = "end"]))
      one == Find(ls, scope, target)
  IN  IF target.kind # "block" THEN <<one, one>>
      ELSE IF b = 0 \/ e = 0 THEN <<0, 0>> ELSE <<b, e>>

-----------------------------------------------------------------------------
\* The ledger of apply().

Running == status = "applying" /\ ~halted
Begin(op) == Running /\ Len(edits) < MaxEdits /\ edits' = Append(edits, op)

Applied ==
  /\ applied' = applied \cup {Len(edits')}
  /\ UNCHANGED <<skipped, halted, status>>

Failed ==
  IF mode = "atomic"
  THEN status' = "discarded" /\ UNCHANGED <<applied, skipped, halted>>
  ELSE /\ skipped' = skipped \cup {Len(edits')}
       /\ UNCHANGED <<applied, halted, status>>

Put(ls)    == lines' = ls /\ symbols' = Parse(ls)
Keep       == UNCHANGED <<lines, symbols>>
Rest       == UNCHANGED <<mode, original, copy>>
EditsOf(t) == {op \in Edits : op.op = t}
Of(id)     == Resolve(symbols, id)

-----------------------------------------------------------------------------

\* Assertions are about the source, not about the working copy.
Assert ==
  \E op \in EditsOf("assert") :
    LET s == Resolve(Parse(original), op.sym)
        there == Loose(original, Scope(original, Parse(original), op.sym),
                       op.find) # {}
    IN  /\ Begin(op) /\ Keep /\ Rest
        /\ \/ op.sym # NoId /\ s = NoSymbol /\ Failed
           \/ (op.sym = NoId \/ s # NoSymbol) /\ there /\ Applied
           \/ /\ (op.sym = NoId \/ s # NoSymbol) /\ ~there
              /\ IF mode = "atomic"
                 THEN status' = "blocked"
                      /\ UNCHANGED <<applied, skipped, halted>>
                 ELSE /\ halted' = TRUE
                      /\ skipped' = skipped \cup {Len(edits')}
                      /\ UNCHANGED <<applied, status>>

\* The handlers that need one symbol: ls is what they make of the lines.
OnSymbol(op, ls) ==
  /\ Begin(op) /\ Rest
  /\ \/ Of(op.sym) = NoSymbol /\ Failed /\ Keep
     \/ Of(op.sym) # NoSymbol /\ Applied /\ Put(ls)

\* Mutant: the table of symbols is not renewed.
RenameUnparsed ==
  \E op \in EditsOf("rename_symbol") :
    LET s == Of(op.sym)
    IN  /\ Begin(op) /\ Rest /\ UNCHANGED symbols
        /\ \/ s = NoSymbol /\ Failed /\ UNCHANGED lines
           \/ /\ s # NoSymbol /\ Applied
              /\ lines' = [lines EXCEPT ![s.decl].name = op.new]

RenameSymbol ==
  \E op \in EditsOf("rename_symbol") :
    OnSymbol(op, [lines EXCEPT ![Of(op.sym).decl].name = op.new])

\* The body: all behind the first line of the declaration.
ReplaceSymbol ==
  \E op \in EditsOf("replace_symbol") :
    LET s == Of(op.sym)
    IN  OnSymbol(op, Splice(lines, s.decl + 1, s.end, op.new))

\* Mutant: the decorators stay.
DeleteFromDecl ==
  \E op \in EditsOf("delete_symbol") :
    LET s == Of(op.sym)
    IN  OnSymbol(op, Splice(lines, s.decl, s.end, <<>>))

DeleteSymbol ==
  \E op \in EditsOf("delete_symbol") :
    OnSymbol(op, Remove(lines, Of(op.sym)))

ChangeSignature ==
  \E op \in EditsOf("change_signature") :
    LET s == Of(op.sym)
    IN  OnSymbol(op, Splice(lines, s.decl, s.decl + 1, op.new))

AddDecorator ==
  \E op \in EditsOf("add_decorator") :
    LET s == Of(op.sym)
    IN  OnSymbol(op, Splice(lines, s.start, s.start, op.new))

\* Mutant: only the moved symbol is looked up first.
MoveUnchecked ==
  \E op \in EditsOf("move_symbol") :
    LET s == Of(op.sym)
        rest == Remove(lines, s)
        t == Resolve(Parse(rest), op.to)
    IN  /\ Begin(op) /\ Rest
        /\ \/ s = NoSymbol /\ Failed /\ Keep
           \/ s # NoSymbol /\ t = NoSymbol /\ Failed /\ Put(rest)
           \/ /\ s # NoSymbol /\ t # NoSymbol /\ Applied
              /\ Put(Splice(rest, t.end, t.end, Extract(lines, s)))

\* Mutant: the insert point is the one found before the symbol was cut out.
MoveByOldIndex ==
  \E op \in EditsOf("move_symbol") :
    LET s == Of(op.sym)
        t == Of(op.to)
        rest == Remove(lines, s)
    IN  /\ Begin(op) /\ Rest
        /\ \/ NoSymbol \in {s, t} /\ Failed /\ Keep
           \/ /\ NoSymbol \notin {s, t} /\ Applied
              /\ Put(Splice(rest, t.end, t.end, Extract(lines, s)))

\* The insert point is looked for in what is left.
MoveSymbol ==
  \E op \in EditsOf("move_symbol") :
    LET s == Of(op.sym)
        rest == Remove(lines, s)
        t == Resolve(Parse(rest), op.to)
    IN  /\ Begin(op) /\ Rest
        /\ \/ NoSymbol \in {s, Of(op.to)} /\ Failed /\ Keep
           \/ /\ NoSymbol \notin {s, Of(op.to)} /\ t = NoSymbol
              /\ Failed /\ Put(rest)
           \/ /\ NoSymbol \notin {s, Of(op.to)} /\ t # NoSymbol
              /\ Applied
              /\ Put(Splice(rest, t.end, t.end, Extract(lines, s)))

SwapSymbols ==
  \E op \in EditsOf("swap_symbols") :
    LET p == Of(op.sym)
        q == Of(op.to)
        a == IF p.start > q.start THEN q ELSE p
        b == IF p.start > q.start THEN p ELSE q
    IN  /\ Begin(op) /\ Rest
        /\ \/ NoSymbol \in {p, q} /\ Failed /\ Keep
           \/ /\ NoSymbol \notin {p, q} /\ Applied
              /\ Put(Take(lines, a.start - 1) \o Extract(lines, b)
                       \o Slice(lines, a.end, b.start) \o Extract(lines, a)
                       \o Drop(lines, b.end - 1))

\* A line found at a deeper indentation keeps what it has more of it, unless
\* the text is replaced by itself.
Edited(l, find, new) ==
  LET more == l.indent - find.indent
  IN  IF more <= 0 \/ new = <<find>> THEN new
      ELSE IF new = <<>> THEN <<Blank>>
      ELSE [new EXCEPT ![1].indent = @ + more]

EditText ==
  \E op \in EditsOf("edit_text") :
    LET at == Find(lines, Scope(lines, symbols, op.sym), op.find)
    IN  /\ Begin(op) /\ Rest
        /\ \/ at = 0 /\ Failed /\ Keep
           \/ /\ at # 0 /\ Applied
              /\ Put(Splice(lines, at, at + 1,
                            Edited(lines[at], op.find, op.new)))

\* delete_block is the same with no new content.
ReplaceBlock ==
  \E op \in EditsOf("replace_block") :
    LET scope == Scope(lines, symbols, op.sym)
        block == FindBlock(lines, scope, op.find)
        one   == Find(lines, scope, op.find)
        range == IF block[1] # 0 THEN block ELSE <<one, one>>
    IN  /\ Begin(op) /\ Rest
        /\ \/ range[1] = 0 /\ Failed /\ Keep
           \/ /\ range[1] # 0 /\ Applied
              /\ Put(Splice(lines, range[1], range[2] + 1, op.new))

InsertBlock ==
  \E op \in EditsOf("insert_block") :
    LET at == FindAnchor(lines, Scope(lines, symbols, op.sym), op.find)
    IN  /\ Begin(op) /\ Rest
        /\ \/ at = 0 /\ Failed /\ Keep
           \/ /\ at # 0 /\ Applied
              /\ Put(Splice(lines, at + 1, at + 1, op.new))

\* The block is gone from its place when its new place is looked for.
MoveBlock ==
  \E op \in EditsOf("move_block") :
    LET range == FindBlock(lines, Scope(lines, symbols, op.sym), op.find)
        rest  == Splice(lines, range[1], range[2] + 1, <<>>)
        at    == FindAnchor(rest, Scope(rest, Parse(rest), op.to), op.after)
    IN  /\ Begin(op) /\ Rest
        /\ \/ range[1] = 0 /\ Failed /\ Keep
           \/ range[1] # 0 /\ at = 0 /\ Failed /\ Put(rest)
           \/ /\ range[1] # 0 /\ at # 0 /\ Applied
              /\ Put(Splice(rest, at + 1, at + 1,
                            Slice(lines, range[1], range[2] + 1)))

CopyBlock ==
  \E op \in EditsOf("copy_block") :
    LET range == FindBlock(lines, Scope(lines, symbols, op.sym), op.find)
        at    == FindAnchor(lines, Scope(lines, symbols, op.to), op.after)
    IN  /\ Begin(op) /\ Rest
        /\ \/ (range[1] = 0 \/ at = 0) /\ Failed /\ Keep
           \/ /\ range[1] # 0 /\ at # 0 /\ Applied
              /\ Put(Splice(lines, at + 1, at + 1,
                            Slice(lines, range[1], range[2] + 1)))

\* inject_markers: one after the other, in a range that shifts with those
\* inserted before.  A marker begins its line.
Marker(kind, name) == [kind |-> kind, indent |-> 0, name |-> name]

Marked(m, so) ==
  LET w == Find(so.lines, so, m.at)
      kind == IF m.type = "block" THEN "block" ELSE "anchor"
      at == IF m.type = "block" THEN w ELSE w + 1
      opened == [lines |-> Splice(so.lines, at, at, <<Marker(kind, m.name)>>),
                 start |-> so.start + 1, end |-> so.end + 1]
      u == Find(opened.lines, [opened EXCEPT !.start = w + 1], m.until)
  IN  IF w = 0 THEN so
      ELSE IF m.type # "block" \/ u = 0 THEN opened
      ELSE [lines |-> Splice(opened.lines, u + 1, u + 1,
                             <<Marker("end", m.name)>>),
            start |-> opened.start + 1, end |-> opened.end + 1]

Injected(from, marks) ==
  LET done[n \in 0 .. Len(marks)] ==
        IF n = 0 THEN from ELSE Marked(marks[n], done[n - 1])
  IN  done[Len(marks)]

InjectMarkers ==
  \E op \in EditsOf("inject_markers") :
    LET s == Of(op.sym)
        from == IF op.sym = NoId
                THEN [lines |-> lines, start |-> 1, end |-> Len(lines) + 1]
                ELSE [lines |-> lines, start |-> s.decl, end |-> s.end]
    IN  /\ Begin(op) /\ Rest
        /\ \/ op.sym # NoId /\ s = NoSymbol /\ Failed /\ Keep
           \/ /\ op.sym = NoId \/ s # NoSymbol
              /\ Applied /\ Put(Injected(from, op.marks).lines)

-----------------------------------------------------------------------------
\* The imports, wherever they are.

Imports(ls) == {i \in DOMAIN ls : ls[i].kind = "import"}
Same(ls, name) == {i \in Imports(ls) : ls[i].name = name}

\* import_insert_point: behind the last of them, or before the first line
\* that is not a comment.
InsertPoint(ls) ==
  LET code == {i \in DOMAIN ls :
                 ls[i].kind \notin {"blank", "block", "end", "anchor"}}
  IN  IF Imports(ls) # {}
      THEN (CHOOSE i \in Imports(ls) : \A j \in Imports(ls) : j <= i) + 1
      ELSE IF code = {} THEN 1 ELSE First(code)

AddImport ==
  \E op \in EditsOf("add_import") :
    /\ Begin(op) /\ Rest /\ Applied
    /\ \/ Same(lines, op.new.name) # {} /\ Keep
       \/ /\ Same(lines, op.new.name) = {}
          /\ Put(Splice(lines, InsertPoint(lines), InsertPoint(lines),
                        <<op.new>>))

RemoveImport ==
  \E op \in EditsOf("remove_import") :
    LET at == First(Same(lines, op.new.name))
    IN  /\ Begin(op) /\ Rest
        /\ \/ at = 0 /\ Failed /\ Keep
           \/ at # 0 /\ Applied /\ Put(Splice(lines, at, at + 1, <<>>))

-----------------------------------------------------------------------------

Init ==
  /\ mode \in {"atomic", "best_effort"}
  /\ original \in Sources
  /\ lines = original
  /\ symbols = {}
  /\ edits = <<>>
  /\ applied = {} /\ skipped = {}
  /\ halted = FALSE
  /\ status = "start"
  /\ copy = <<>>

\* A language without a profile, a wrong hash, a blocked patch, no edits.
Reject ==
  /\ status = "start"
  /\ status' \in {"envelope_error", "not_attempted"}
  /\ UNCHANGED <<mode, original, lines, symbols, edits, applied, skipped,
                 halted, copy>>

Open ==
  /\ status = "start"
  /\ status' = "applying"
  /\ symbols' = Parse(lines)
  /\ UNCHANGED <<mode, original, lines, edits, applied, skipped, halted,
                 copy>>

\* What is left of the edits after a failed assertion.
SkipRest ==
  /\ status = "applying" /\ halted /\ Len(edits) < MaxEdits
  /\ \E op \in Edits : edits' = Append(edits, op)
  /\ skipped' = skipped \cup {Len(edits')}
  /\ UNCHANGED <<mode, original, lines, symbols, applied, halted, status,
                 copy>>

\* The end of the edits; a copy is written unless all were skipped.
Finish ==
  /\ status = "applying"
  /\ status' = IF skipped = {} THEN "full_success"
               ELSE IF applied = {} THEN "no_change" ELSE "partial_success"
  /\ copy' = IF status' = "no_change" THEN <<>> ELSE lines
  /\ UNCHANGED <<mode, original, lines, symbols, edits, applied, skipped,
                 halted>>

Edit ==
  \/ Assert \/ RenameSymbol \/ ReplaceSymbol \/ DeleteSymbol
  \/ ChangeSignature \/ AddDecorator \/ MoveSymbol \/ SwapSymbols
  \/ EditText \/ ReplaceBlock \/ InsertBlock \/ MoveBlock \/ CopyBlock
  \/ InjectMarkers \/ AddImport \/ RemoveImport

Next == Reject \/ Open \/ Edit \/ SkipRest \/ Finish

Spec == Init /\ [][Next]_vars

-----------------------------------------------------------------------------

TypeOK ==
  /\ mode \in {"atomic", "best_effort"}
  /\ original \in Sources
  /\ lines \in Seq(Line)
  /\ edits \in Seq(Edits) /\ Len(edits) <= MaxEdits
  /\ applied \subseteq DOMAIN edits /\ skipped \subseteq DOMAIN edits
  /\ applied \cap skipped = {}
  /\ halted \in BOOLEAN
  /\ status \in {"start", "applying", "full_success", "partial_success",
                 "no_change", "discarded", "blocked", "envelope_error",
                 "not_attempted"}
  /\ copy \in Seq(Line)

(***************************************************************************)
(* Every handler renews the table of symbols itself: between two           *)
(* operations no id is resolved in a table of an earlier text.             *)
(***************************************************************************)
TableFresh == status = "applying" => symbols = Parse(lines)

Op == edits'[Len(edits')]
Within(t, s) == s.start <= t.start /\ t.end <= s.end
Apart(r, s) == r.end <= s.start \/ s.end <= r.start

\* What follows a line that begins with an @ is indented no less, and just
\* like it if it is a declaration or begins with an @ too.  So it is with any
\* decorator, though it may take several lines or have comments and blank
\* lines below it, unless one of those is indented less.  A line of a string
\* or of an expression can begin with an @ anywhere: a Python source where
\* what follows that one is indented otherwise is left out.
Aligned(ls) ==
  \A i \in DOMAIN ls : ls[i].kind = "deco" =>
    /\ i < Len(ls)
    /\ ls[i + 1].kind = "blank" \/ ls[i + 1].indent >= ls[i].indent
    /\ ls[i + 1].kind \in {"deco", "def", "class"} =>
         ls[i + 1].indent = ls[i].indent

(***************************************************************************)
(* envelope-schema.md: no_change means no mutations, failures are recorded *)
(* as skipped.  A skipped operation leaves the copy as it was but where a  *)
(* symbol is moved behind itself or a part of itself, or in a text that is *)
(* not Aligned; and where a block is moved behind a line that is not found *)
(* once the block is gone.                                                 *)
(***************************************************************************)
SkipsHarmless ==
  [][ skipped' # skipped /\ lines' # lines =>
        \/ /\ Op.op = "move_symbol"
           /\ Within(Of(Op.to), Of(Op.sym)) \/ ~Aligned(lines)
        \/ /\ Op.op = "move_block"
           /\ FindAnchor(lines', Scope(lines', symbols', Op.to), Op.after) = 0
    ]_vars

(***************************************************************************)
(* What an operation on a symbol does to the other symbols: nothing.  If   *)
(* the new lines belong where they are put, every symbol apart from the    *)
(* one addressed is still a symbol, under its path, with the same lines -  *)
(* although the text is cut by line numbers and its symbols end where the  *)
(* next line happens to begin.  Its lines are those the code counts in;    *)
(* whose decorator one further up becomes, DecoratorsKept says.  The new   *)
(* lines belong if none is indented less than the declaration, what comes  *)
(* before it or instead of it begins with a line as deep as it, and no     *)
(* decorator is left over at the end.                                      *)
(***************************************************************************)
OnOne == {"delete_symbol", "rename_symbol", "replace_symbol",
          "change_signature", "add_decorator"}
Fitting(op, s) ==
  /\ op.op \in {"replace_symbol", "change_signature", "add_decorator"} =>
       \A i \in DOMAIN op.new : \/ op.new[i].kind = "blank"
                               \/ op.new[i].indent >= lines[s.decl].indent
  /\ op.op \in {"change_signature", "add_decorator"} =>
       /\ op.new # <<>> /\ op.new[1].kind # "blank"
       /\ op.new[1].indent = lines[s.decl].indent
  /\ op.op \in {"replace_symbol", "change_signature"} =>
       op.new = <<>> \/ op.new[Len(op.new)].kind # "deco"

BystandersKept ==
  [][ applied' # applied /\ Op.op \in OnOne /\ Aligned(lines) =>
        LET s == Of(Op.sym) IN
        Fitting(Op, s) =>
          \A r \in symbols : Apart(r, s) =>
            \E q \in symbols' : /\ q.path = r.path /\ q.kind = r.kind
                                /\ Extract(lines', q) = Extract(lines, r)
    ]_vars

(***************************************************************************)
(* op-reference.md: a symbol is moved to appear after another.  If the two *)
(* are indented alike and neither is part of the other, every symbol that  *)
(* is not around one of them is still there with the same lines.           *)
(***************************************************************************)
MoveKeepsSymbols ==
  [][ applied' # applied /\ Op.op = "move_symbol" /\ Aligned(lines) =>
        LET s == Of(Op.sym)
            t == Of(Op.to) IN
        Apart(s, t) /\ lines[s.start].indent = lines[t.decl].indent =>
          \A r \in symbols : (\A x \in {s, t} : Apart(r, x) \/ Within(r, x))
            => \E q \in symbols' : Extract(lines', q) = Extract(lines, r)
    ]_vars

(***************************************************************************)
(* op-reference.md: a symbol is removed entirely, its decorators with it;  *)
(* language-profiles.md: they are part of the symbol.  So who stays behind *)
(* when one is deleted has the decorators it had, as Python sees them: it  *)
(* lets a decorator take several lines, and blank lines and comments       *)
(* follow it.  The code does not do this: it stops at the first line above *)
(* that does not begin with an @, and leaves what is beyond to the next    *)
(* symbol.  But that is the only way.                                      *)
(***************************************************************************)
Plain == {"deco", "text", "block", "end", "anchor", "blank"}
Decorating(ls, d) ==
  {j \in 1 .. d - 1 :
     /\ ls[j].kind = "deco" /\ ls[j].indent = ls[d].indent
     /\ \A k \in j .. d - 1 :
          /\ ls[k].kind \in Plain
          /\ ls[k].kind = "blank" \/ ls[k].indent >= ls[d].indent}
DecoratorsOf(ls, s) == {ls[j].name : j \in Decorating(ls, s.decl)}

\* A decorator of s is not directly above it.
Detached(ls, s) ==
  \E j \in 1 .. s.decl - 1 :
    /\ ls[j].kind = "deco"
    /\ \A k \in j .. s.decl - 1 : ls[k].kind \in Plain
    /\ \E k \in j .. s.decl - 1 : ls[k].kind # "deco"

DecoratorsKept ==
  [][ applied' # applied /\ Op.op = "delete_symbol" /\ Aligned(lines) =>
        LET s == Of(Op.sym) IN
        ~Detached(lines, s) =>
          \A r \in symbols : Apart(r, s) =>
            \E q \in symbols' :
              /\ q.path = r.path /\ q.kind = r.kind
              /\ DecoratorsOf(lines', q) = DecoratorsOf(lines, r)
    ]_vars

=============================================================================
