---------------------------- MODULE MCCodePatch ----------------------------
(***************************************************************************)
(* Three sources: a class with decorated methods and a function; an import *)
(* and a block inside a function, a class whose decorator takes several    *)
(* lines, and a method with the function's name; the same function twice,  *)
(* a blank line below its decorator, and a nested one.  Every patch of up  *)
(* to three of the operations below.                                       *)
(***************************************************************************)
EXTENDS CodePatch

L(kind, indent, name) == [kind |-> kind, indent |-> indent, name |-> name]
T(indent, name) == L("text", indent, name)
Import(name) == L("import", 0, name)

MCName == {"A", "B", "f", "g", "m", "n", "t", "u", "x", "y", "p", "q", "d",
           "os", "re"}

MCSources ==
  {<<Import("os"), L("class", 0, "A"), L("deco", 1, "d"), L("def", 1, "m"),
     T(2, "t"), L("def", 1, "n"), T(2, "u"), L("def", 0, "f"), T(1, "t")>>,
   <<L("def", 0, "f"), L("import", 1, "os"), L("block", 1, "x"), T(1, "t"),
     L("end", 1, "x"), Blank, L("deco", 0, "d"), T(1, "d"), T(0, "d"),
     L("class", 0, "A"), L("def", 1, "f"), T(2, "u"), L("anchor", 0, "p")>>,
   <<L("def", 0, "f"), T(1, "t"), L("deco", 0, "d"), Blank,
     L("def", 0, "f"), L("def", 1, "g"), T(2, "u"), L("class", 0, "A"), T(1, "t")>>}

Id(kind, path) == [kind |-> kind, path |-> path]
Bare(name) == Id(NoName, <<name>>)
Am == Id(NoName, <<"A", "m">>)
Af == Id(NoName, <<"A", "f">>)

On(op, sym) == [op |-> op, sym |-> sym]
New(op, sym, new) == [op |-> op, sym |-> sym, new |-> new]
Pair(op, sym, to) == [op |-> op, sym |-> sym, to |-> to]
In(op, sym, find, new) == [op |-> op, sym |-> sym, find |-> find, new |-> new]
Carry(op, sym, find, to, after) ==
  [op |-> op, sym |-> sym, find |-> find, to |-> to, after |-> after]
B == L("block", 0, "x")
P == L("anchor", 0, "p")
Q == L("anchor", 0, "q")

MCMarks ==
  {<<[type |-> "anchor", name |-> "q", at |-> T(0, "t")],
     [type |-> "block", name |-> "y", at |-> T(1, "u"), until |-> T(1, "u")]>>,
   <<[type |-> "block", name |-> "y", at |-> L("def", 0, "f"),
      until |-> T(0, "t")],
     [type |-> "anchor", name |-> "q", at |-> T(1, "t")]>>}

MCEdits ==
  {[op |-> "assert", sym |-> s, find |-> T(0, "u")] :
     s \in {NoId, Bare("f"), Bare("B")}}
  \cup {New("rename_symbol", s, "B") : s \in {Id("function", <<"f">>), Am}}
  \cup {New("replace_symbol", Bare("f"), <<T(1, "u"), Blank>>),
        New("replace_symbol", Bare("m"), <<L("def", 2, "g"), T(3, "t")>>),
        New("replace_symbol", Id("class", <<"A">>), <<T(0, "u")>>)}
  \cup {On("delete_symbol", s) : s \in {Am, Bare("f"), Af}}
  \cup {New("change_signature", Bare("f"), <<L("def", 0, "g")>>),
        New("change_signature", Am, <<L("def", 0, "m")>>)}
  \cup {New("add_decorator", Am, <<L("deco", 1, "d")>>),
        New("add_decorator", Af, <<L("deco", 0, "d")>>)}
  \cup {Pair("move_symbol", Bare("f"), Bare("A")),
        Pair("move_symbol", Bare("A"), Bare("f")),
        Pair("move_symbol", Bare("m"), Bare("n")),
        Pair("move_symbol", Bare("g"), Bare("A")),
        Pair("move_symbol", Bare("f"), Bare("f")),
        Pair("move_symbol", Bare("A"), Af)}
  \cup {Pair("swap_symbols", Bare("A"), Bare("f")),
        Pair("swap_symbols", Am, Bare("n")),
        Pair("swap_symbols", Bare("g"), Bare("f"))}
  \cup {In("edit_text", Bare("f"), T(1, "t"), <<>>),
        In("edit_text", Bare("A"), T(0, "t"), <<T(0, "u"), L("def", 1, "g")>>),
        In("edit_text", NoId, T(0, "u"), <<>>)}
  \cup {In("replace_block", Bare("f"), B, <<T(1, "u")>>),
        In("insert_block", Bare("A"), P, <<L("def", 1, "m"), T(2, "u")>>),
        In("insert_block", Bare("f"), Q, <<T(1, "u")>>),
        Carry("move_block", Bare("f"), B, NoId, P),
        Carry("move_block", NoId, T(0, "t"), Bare("f"), T(0, "t")),
        Carry("copy_block", NoId, B, Bare("A"), T(0, "u"))}
  \cup {[op |-> "inject_markers", sym |-> s, marks |-> m] :
          s \in {NoId, Bare("f"), Bare("n")}, m \in MCMarks}
  \cup {[op |-> op, new |-> Import(n)] :
          op \in {"add_import", "remove_import"}, n \in {"os", "re"}}
=============================================================================
