------------------------------ MODULE MCTools ------------------------------
(***************************************************************************)
(* The library's tools, which share no state: debug information, symbols,  *)
(* files and JSON.  One run explores them, each from the initial states    *)
(* that pick it.                                                           *)
(***************************************************************************)
EXTENDS Dwarf, Symbolizer, FileUtil, Json

VARIABLE part

vars == <<part, dwarfVars, symbolizerVars, fileVars, jsonVars>>

\* A relative name, and one in an absolute include directory.
MCFileNames == << [name |-> <<"a">>, dir |-> 0], [name |-> <<"a", "/", "b">>, dir |-> 1] >>
MCIncludeDirectories == << <<"/", "c", "/">> >>
MCCompDirs == {<<"d", "/">>, <<"/">>}
MCMainNames == {<<>>, <<"/", "a">>}
MCLineBase == -1

\* A program with a data segment and symbols that touch and overlap, a library
\* without names for its symbols, another version of it, and a library so small
\* that its data is mapped from the start of the file too.
Sym(type, defined, value, len, name) ==
    [type |-> type, defined |-> defined, value |-> value, size |-> len, name |-> name]
MCElves ==
    [f \in {"prog", "lib1", "lib2", "small"} |->
        CASE f = "prog" ->
             [segments |-> << [vaddr |-> 2, size |-> 4, offset |-> 0],
                              [vaddr |-> 6, size |-> 1, offset |-> 4] >>,
              names |-> << ".debug_info", ".debug_abbrev", ".debug_aranges", ".debug_line", ".debug_str" >>,
              sections |-> << [name |-> 1, type |-> "DYNSYM", link |-> 5,
                               syms |-> << Sym("FUNC", FALSE, 2, 4, 9), Sym("FUNC", TRUE, 3, 1, 1) >>],
                              [name |-> 2, type |-> "SYMTAB", link |-> 5,
                               syms |-> << Sym("NOTYPE", TRUE, 2, 4, 8), Sym("FUNC", TRUE, 2, 1, 2),
                                           Sym("OBJECT", TRUE, 3, 2, 3), Sym("FUNC", TRUE, 6, 1, 4) >>],
                              [name |-> 3, type |-> "PROGBITS", link |-> 0, syms |-> <<>>],
                              [name |-> 4, type |-> "PROGBITS", link |-> 0, syms |-> <<>>],
                              [name |-> 5, type |-> "STRTAB", link |-> 0, syms |-> <<>>] >>]
          [] f \in {"lib1", "lib2"} ->
             [segments |-> << [vaddr |-> 0, size |-> 3, offset |-> 0] >>,
              names |-> << ".dynsym" >>,
              sections |-> << [name |-> 1, type |-> "DYNSYM", link |-> IF f = "lib1" THEN 0 ELSE 1,
                               syms |-> << Sym("FUNC", TRUE, IF f = "lib1" THEN 1 ELSE 2, 1, 5) >>] >>]
          [] f = "small" ->
             [segments |-> << [vaddr |-> 0, size |-> 1, offset |-> 0],
                              [vaddr |-> 2, size |-> 1, offset |-> 0] >>,
              names |-> << ".dynsym" >>,
              sections |-> << [name |-> 1, type |-> "DYNSYM", link |-> 1,
                               syms |-> << Sym("FUNC", TRUE, 0, 1, 6), Sym("OBJECT", TRUE, 2, 1, 7) >>] >>]]
Mapped(name, elf, bias) == [name |-> name, elf |-> elf, bias |-> bias]
MCLoads == {{Mapped("prog", "prog", 0)},
            {Mapped("prog", "prog", 3), Mapped("lib", "lib1", 0)},
            {Mapped("prog", "prog", 0), Mapped("lib", "lib1", 8)},
            {Mapped("prog", "prog", 0), Mapped("lib", "lib2", 8)},
            {Mapped("lib (deleted)", "lib1", 0), Mapped("lib", "lib2", 3), Mapped("small", "small", 8)}}
MCOthers == {[begin |-> 11, end |-> 12, offset |-> 0, name |-> "[vdso]"],
             [begin |-> 13, end |-> 14, offset |-> 0, name |-> ""],
             [begin |-> 14, end |-> 15, offset |-> 0, name |-> "data"]}
MCRefused == {"[vdso]", "lib (deleted)"}

\* A message without fields, and messages of a field of every type and label,
\* and a second field; the nested
\* ones have an enum that is not repeated and a field that may be missing.
FieldOf(no, name, label, type) == [no |-> no, name |-> name, label |-> label, type |-> type]
MCNested == {FieldOf(1, "n1", "required", "INT32"), FieldOf(2, "n2", "repeated", "BYTES"),
             FieldOf(3, "n3", "optional", "ENUM")}
Inner(n1, n2, n3) == [n \in {"n1", "n2", "n3"} |-> CASE n = "n1" -> n1 [] n = "n2" -> n2 [] n = "n3" -> n3]
Data(type) ==
    CASE type \in Integral -> {-32, -4, 0, 3, 7, 31, 63} \cap NumbersOf(type)
      [] type = "ENUM" -> {1, 2}
      [] type = "DOUBLE" -> {0, 1}
      [] type = "BOOL" -> BOOLEAN
      [] type = "STRING" -> {<<>>, <<"a">>, <<"a", "NUL", "a">>}
      [] type = "BYTES" -> {<<>>, <<"NUL", "a">>, <<"%", "2", "5">>, <<"+", " ", "/">>}
      [] type = "MESSAGE" -> {Inner(<<1>>, << <<"%", "a">>, <<>> >>, <<>>), Inner(<<>>, <<>>, <<>>),
                              Inner(<<-4>>, <<>>, <<2>>)}
Sequences2(S, label) ==
    {<<>>} \cup {<<v>> : v \in S} \cup (IF label = "repeated" THEN S \X S ELSE {})
MessageOf(f, g) == [n \in {"f", "g"} |-> IF n = "f" THEN f ELSE g]
Schemas == {{FieldOf(1, "f", label, type), FieldOf(2, "g", "required", "UINT32")} :
               label \in {"optional", "required", "repeated"}, type \in Types \cup {"MESSAGE"}}
MCInstances ==
    [s \in Schemas \cup {{}} |->
        IF s = {} THEN {<<>>}
        ELSE LET f == CHOOSE h \in s : h.name = "f"
             IN  {MessageOf(v, g) : v \in Sequences2(Data(f.type), f.label), g \in {<<>>, <<7>>}}]

Given == << [k |-> "int", v |-> 1], [k |-> "int", v |-> 40], [k |-> "double", v |-> 1],
            [k |-> "bool", v |-> TRUE], [k |-> "string", v |-> <<"2">>], [k |-> "string", v |-> <<"%">>],
            [k |-> "string", v |-> <<"%", "2", "f", "%", "7", "E">>], [k |-> "string", v |-> <<"%", "g", "0">>],
            [k |-> "object", v |-> [n \in {"n1", "n2"} |-> [k |-> "int", v |-> 1]]],
            [k |-> "object", v |-> [n \in {"n1"} |-> [k |-> "int", v |-> 1]]] >>
One == [k |-> "int", v |-> 1]
MCObjects ==
    << <<>> >> \o [i \in DOMAIN Given |-> MessageOf(Given[i], One)]
             \o [i \in DOMAIN Given |-> MessageOf([k |-> "array", v |-> <<Given[i]>>], One)]
MCDocuments ==
    << [k |-> "malformed", v |-> <<>>], [k |-> "array", v |-> <<>>] >>
      \o [i \in DOMAIN MCObjects |-> [k |-> "object", v |-> MCObjects[i]]]

\* The parts that are not picked have one initial state.
Init ==
    /\ part \in {"dwarf", "symbolizer", "files", "json"}
    /\ InitDwarf /\ InitSymbolizer /\ InitFiles /\ InitJson
    /\ part # "dwarf" => target = 1
    /\ part # "symbolizer" => loaded = {Mapped("prog", "prog", 0)}
    /\ part # "json" => /\ FieldOf(1, "f", "optional", "BOOL") \in schema
                        /\ message["f"] = <<>> /\ message["g"] = <<>>

Next ==
    \/ part = "dwarf" /\ NextDwarf /\ UNCHANGED <<part, symbolizerVars, fileVars, jsonVars>>
    \/ part = "symbolizer" /\ NextSymbolizer /\ UNCHANGED <<part, dwarfVars, fileVars, jsonVars>>
    \/ part = "files" /\ NextFiles /\ UNCHANGED <<part, dwarfVars, symbolizerVars, jsonVars>>
    \/ part = "json" /\ NextJson /\ UNCHANGED <<part, dwarfVars, symbolizerVars, fileVars>>

Spec == Init /\ [][Next]_vars
=============================================================================
