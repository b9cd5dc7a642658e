----------------------------- MODULE Symbolizer -----------------------------
(***************************************************************************)
(* Symbolizer and ElfFile: from an address of the running process to a     *)
(* symbol.  Symbolize walks /proc/self/maps line by line, opens the mapped *)
(* file or takes it from its cache, undoes the relocation and searches the *)
(* symbol tables.  Files are loaded and unloaded between the calls.  What  *)
(* Dwarf finds for the address is in module Dwarf.                         *)
(***************************************************************************)
EXTENDS Integers, Sequences, FiniteSets

CONSTANTS
    Elves,        \* the contents of an ELF file: [segments, names, sections]
    Loads,        \* what may be mapped at once: sets of [name, elf, bias]
    Others,       \* mappings of no ELF file: [begin, end, offset, name]
    RefusedNames,      \* the names that begin with '[' or end with ')'
    MaxAddr, MaxCalls   \* bounds: addresses, calls

Segment == [vaddr : Nat, size : Nat, offset : Nat]
Symbol == [type : STRING, defined : BOOLEAN, value : Nat, size : Nat, name : Nat]
Section == [name : Nat, type : STRING, link : Nat, syms : Seq(Symbol)]

\* Any of the segments may be mapped from the start of the file, as those of a
\* file of less than a page are.  Sections that are no symbol tables have no
\* symbols.
ASSUME ElfAssumption ==
    \A f \in DOMAIN Elves :
        /\ Elves[f].segments \in Seq(Segment) /\ Elves[f].segments # <<>>
        /\ Elves[f].names \in Seq(STRING) /\ Elves[f].sections \in Seq(Section)
        /\ \A k \in DOMAIN Elves[f].sections :
              Elves[f].sections[k].type \notin {"DYNSYM", "SYMTAB"} => Elves[f].sections[k].syms = <<>>

\* The lines of /proc/self/maps when the files of L are mapped.
Lines(L) ==
    Others \cup
    UNION {{[begin |-> l.bias + s.vaddr, end |-> l.bias + s.vaddr + s.size,
             offset |-> s.offset, name |-> l.name] :
               s \in {Elves[l.elf].segments[k] : k \in DOMAIN Elves[l.elf].segments}} :
           l \in L}

\* The kernel maps no address twice.  A name is the name of one file at a time:
\* once the file is replaced on the disk, the kernel adds "(deleted)" to the name
\* of what is still mapped of it.
ASSUME MapsAssumption ==
    /\ "" \notin RefusedNames
    /\ Others \subseteq [begin : Nat, end : Nat, offset : Nat, name : STRING]
    /\ \A L \in Loads :
          /\ L \subseteq [name : STRING \ ({""} \cup {o.name : o \in Others}), elf : DOMAIN Elves, bias : Nat]
          /\ \A l, m \in L : l.name = m.name => l.elf = m.elf
          /\ \A m, n \in Lines(L) : \A a \in m.begin .. m.end - 1 : a \in n.begin .. n.end - 1 => m = n

VARIABLES
    spc,         \* where Symbolize is
    loaded,      \* the files mapped now
    address,     \* its argument
    maps,        \* the lines of /proc/self/maps not looked at yet
    mapping,     \* found_file
    elf_files,   \* elf_files_: name |-> what was in the file when it was opened
    symbol,      \* symbol_name, and whether the address has a definition
    out,         \* what Write appended
    calls

symbolizerVars == <<spc, loaded, address, maps, mapping, elf_files, symbol, out, calls>>

NoMapping == [begin |-> 0, end |-> 0, offset |-> 0, name |-> ""]
NoSymbol == [found |-> FALSE, name |-> 0, debug |-> FALSE]

InitSymbolizer ==
    /\ spc = "idle" /\ loaded \in Loads /\ address = 0 /\ maps = {} /\ mapping = NoMapping
    /\ elf_files = [n \in {} |-> n] /\ symbol = NoSymbol /\ out = "" /\ calls = 0

----------------------------------------------------------------------------
(* ElfFile *)

\* Init: the first PT_LOAD header gives the base address.
GetBaseAddress(f) == Elves[f].segments[1].vaddr

\* GetSectionByName: the name in the table of names, then the first section
\* whose header has the place of that name.
GetSectionByName(f, name) ==
    LET places == {k \in DOMAIN Elves[f].names : Elves[f].names[k] = name}
        place == CHOOSE k \in places : \A j \in places : k <= j
        at == {k \in DOMAIN Elves[f].sections : Elves[f].sections[k].name = place}
    IN  IF places = {} \/ at = {} THEN 0 ELSE CHOOSE k \in at : \A j \in at : k <= j

\* Dwarf::Init: all the debug sections are there.
DebugSections == {".debug_info", ".debug_abbrev", ".debug_aranges", ".debug_line", ".debug_str"}
HasDebug(f) == \A name \in DebugSections : GetSectionByName(f, name) # 0

\* The symbol whose size ends at the address is taken.
Covers_End(s, a) == a >= s.value /\ a <= s.value + s.size

\* The test of one symbol in GetDefinitionByAddress.
Covers(s, a) == a >= s.value /\ a < s.value + s.size

\* GetDefinitionByAddress: the first defined function or object that has the
\* address, of the first table that has one: <<section, symbol>>.
GetDefinitionByAddress(f, a) ==
    LET tables == {k \in DOMAIN Elves[f].sections : Elves[f].sections[k].type \in {"DYNSYM", "SYMTAB"}}
        defs == UNION {{<<k, i>> : i \in {j \in DOMAIN Elves[f].sections[k].syms :
                                           LET s == Elves[f].sections[k].syms[j]
                                           IN  s.type \in {"FUNC", "OBJECT"} /\ s.defined /\ Covers(s, a)}} :
                       k \in tables}
        Before(x, y) == x[1] < y[1] \/ (x[1] = y[1] /\ x[2] <= y[2])
    IN  IF defs = {} THEN <<0, 0>> ELSE CHOOSE x \in defs : \A y \in defs : Before(x, y)

\* GetSymbolName: 0 when the symbol or its table has no name.
GetSymbolName(f, x) ==
    LET section == Elves[f].sections[x[1]]
    IN  IF section.syms[x[2]].name = 0 \/ section.link = 0 THEN 0 ELSE section.syms[x[2]].name

----------------------------------------------------------------------------
(* Symbolizer *)

\* GetMapsLine: the lines of /proc/self/maps.
GetMapsLine == Lines(loaded)

\* Symbolize is called, and reads the maps.
Symbolize(a) ==
    /\ spc = "idle" /\ calls < MaxCalls
    /\ spc' = "maps" /\ address' = a /\ maps' = GetMapsLine /\ mapping' = NoMapping
    /\ symbol' = NoSymbol /\ calls' = calls + 1 /\ out' = ""
    /\ UNCHANGED <<loaded, elf_files>>

Finish(s, text) == spc' = "idle" /\ symbol' = s /\ out' = text

\* One line of the maps, in the order of the addresses; none is left: no file.
NextLine ==
    /\ spc = "maps"
    /\ IF maps = {} THEN Finish(NoSymbol, "(unknown)") /\ UNCHANGED <<maps, mapping>>
       ELSE LET m == CHOOSE x \in maps : \A y \in maps : x.begin <= y.begin
            IN  /\ maps' = maps \ {m}
                /\ IF m.offset = 0 /\ m.begin <= address /\ address < m.end
                   THEN spc' = "file" /\ mapping' = m
                   ELSE UNCHANGED <<spc, mapping>>
                /\ UNCHANGED <<symbol, out>>
    /\ UNCHANGED <<loaded, address, elf_files, calls>>

\* The file found, once it is among elf_files_.
UseFiles(files) == elf_files' = files /\ spc' = "symbol" /\ UNCHANGED <<symbol, out>>

\* GetFile: the last character of an empty name is whatever comes before it in
\* memory.  A name that was opened before gets the file that was opened then.
\* ElfFile aborts on a file it cannot open and on one that is no ELF file.
GetFile(closing) ==
    LET n == mapping.name
        refused == n \in RefusedNames \/ (n = "" /\ closing)
        elves == {l.elf : l \in {m \in loaded : m.name = n}}
    IN  /\ spc = "file"
        /\ \/ refused /\ Finish(NoSymbol, "(unknown)") /\ UNCHANGED elf_files
           \/ ~ refused /\ n \in DOMAIN elf_files /\ UseFiles(elf_files)
           \/ /\ ~ refused /\ n \notin DOMAIN elf_files
              /\ \E e \in elves :
                    UseFiles([m \in DOMAIN elf_files \cup {n} |-> IF m = n THEN e ELSE elf_files[m]])
           \/ /\ ~ refused /\ n \notin DOMAIN elf_files /\ elves = {}
              /\ spc' = "abort" /\ UNCHANGED <<elf_files, symbol, out>>
        /\ UNCHANGED <<loaded, address, maps, mapping, calls>>

\* Write: a symbol without a name is unknown.
Write(name) == IF name = 0 THEN "(unknown)" ELSE "symbol"

\* The relocation is undone and the symbol looked up.
Lookup ==
    LET f == elf_files[mapping.name]
        orig == address - mapping.begin + GetBaseAddress(f)
        x == GetDefinitionByAddress(f, orig)
    IN  /\ spc = "symbol"
        /\ IF x[1] = 0 THEN Finish(NoSymbol, Write(0))
           ELSE LET name == GetSymbolName(f, x)
                IN  Finish([found |-> TRUE, name |-> name, debug |-> HasDebug(f)], Write(name))
        /\ UNCHANGED <<loaded, address, maps, mapping, elf_files, calls>>

\* dlopen and dlclose, between two calls, and files replaced on the disk.
Remap(l) ==
    /\ spc = "idle" /\ calls < MaxCalls /\ loaded' = l /\ l # loaded /\ out' = ""
    /\ UNCHANGED <<spc, address, maps, mapping, elf_files, symbol, calls>>

NextSymbolizer ==
    \/ \E a \in 0 .. MaxAddr : Symbolize(a)
    \/ NextLine \/ Lookup
    \/ \E closing \in BOOLEAN : GetFile(closing)
    \/ \E l \in Loads : Remap(l)

SymbolizerSpec == InitSymbolizer /\ [][NextSymbolizer]_symbolizerVars

----------------------------------------------------------------------------
\* The symbols of the file l that have the address once it is loaded at its bias.
TrueSymbols(l, a) ==
    {s \in UNION {{Elves[l.elf].sections[k].syms[i] : i \in DOMAIN Elves[l.elf].sections[k].syms} :
                  k \in DOMAIN Elves[l.elf].sections} :
        s.defined /\ s.type \in {"FUNC", "OBJECT"} /\ a \in l.bias + s.value .. l.bias + s.value + s.size - 1}

\* The address is in the segment k of the loaded file l, which is mapped from
\* the start of the file.
InStart(l, k, a) ==
    LET s == Elves[l.elf].segments[k]
    IN  s.offset = 0 /\ a \in l.bias + s.vaddr .. l.bias + s.vaddr + s.size - 1

\* The file whose first segment has the address, unless its name is refused.
TrueFile(a) == {l \in loaded : l.name \notin RefusedNames /\ InStart(l, 1, a)}

\* Where Symbolize undoes the relocation with the wrong base: a later segment
\* that is mapped from the start of the file too.
WrongBase(a) == \E l \in loaded : \E k \in DOMAIN Elves[l.elf].segments \ {1} : InStart(l, k, a)

\* Where it looks into the wrong file: the one of that name opened by an earlier
\* call is not the one mapped now.
WrongFile(a) == \E l \in TrueFile(a) : l.name \in DOMAIN elf_files /\ elf_files[l.name] # l.elf

(***************************************************************************)
(* Symbolize names a symbol exactly when the first segment of a loaded     *)
(* file has the address and a symbol of that file, where it is loaded now, *)
(* covers it, and it names such a symbol, whatever the load address, the   *)
(* order of the maps, the other mappings and the files mapped and opened   *)
(* by earlier calls - unless the address is in a later segment that is     *)
(* mapped from the start of the file too, or the file was replaced since   *)
(* it was opened, for elf_files_ has it by its name.  Debug information is *)
(* only read from a file that has all the sections of it.  It aborts only  *)
(* on a mapping of no ELF file whose name is not refused.                  *)
(***************************************************************************)
SymbolRight ==
    /\ (spc = "idle" /\ out # "" /\ calls > 0) =>
          LET real == UNION {TrueSymbols(l, address) : l \in TrueFile(address)}
          IN  /\ (~ WrongBase(address) /\ ~ WrongFile(address)) =>
                    /\ symbol.found <=> real # {}
                    /\ symbol.found => \E s \in real : symbol.name \in {0, s.name}
              /\ symbol.debug => \A name \in DebugSections :
                    \E k \in DOMAIN Elves[elf_files[mapping.name]].sections :
                        LET n == Elves[elf_files[mapping.name]].sections[k].name
                        IN  n # 0 /\ Elves[elf_files[mapping.name]].names[n] = name
    /\ spc = "abort" => mapping \in Others /\ mapping.name \notin RefusedNames
=============================================================================
