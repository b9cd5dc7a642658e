------------------------------- MODULE Dwarf -------------------------------
(***************************************************************************)
(* Dwarf: from an address to a file and a line.  FindAddress walks the     *)
(* address ranges to a compilation unit, reads the attributes of the unit  *)
(* and runs its line number program.  The sections are not laid out in     *)
(* bytes: each step reads one item, any that a section can have there, so  *)
(* that a behaviour is a file, and the walk over it.  Operands of the line *)
(* program are bytes, read back as the code reads them; strings are        *)
(* sequences of characters, "/" being one.                                 *)
(***************************************************************************)
EXTENDS Integers, Sequences

CONSTANTS
    MaxAddress, MaxLine, MaxChunks,    \* bounds on the addresses, lines, chunks
    Radix, MaxBytes,                   \* LEB128: values of a byte, bytes of an operand
    MinLength, LineBase, LineRange,    \* the header of the line program
    OpcodeBase, MaxOpcode,             \* the first special opcode, and 255
    FileNames,                         \* file_names_: [name, dir]
    IncludeDirectories,                \* include_directories_
    CompDirs, MainNames                \* values of DW_AT_comp_dir, DW_AT_name

\* The header describes the standard opcodes, and the tables of the header and
\* the strings of the unit are strings.
ASSUME DwarfAssumption ==
    /\ Radix \in Nat \ {0} /\ Radix % 2 = 0
    /\ MinLength \in Nat /\ LineBase \in Int /\ LineRange \in Nat \ {0}
    /\ MaxOpcode \in Nat /\ OpcodeBase \in 10 .. MaxOpcode
    /\ IncludeDirectories \in Seq(Seq(STRING))
    /\ FileNames \in Seq([name : Seq(STRING), dir : 0 .. Len(IncludeDirectories)])
    /\ CompDirs \subseteq Seq(STRING) /\ MainNames \subseteq Seq(STRING)

VARIABLES
    dpc,        \* where FindAddress is
    target,     \* the address asked for
    unit,       \* debug_info_offset of the current chunk
    seen,       \* the attributes read: name |-> value
    regs,       \* address_, file_ and line_
    scan,       \* the locals of LineNumberVM::FindAddress
    location,   \* location_info
    answer,     \* what FindAddress returned
    hit,        \* history: the unit that has a range with the target
    meant,      \* history: the registers by the meaning of the program
    row,        \* history: the last row of the sequence
    owner       \* history: the first row that spans the target

dwarfVars == <<dpc, target, unit, seen, regs, scan, location, answer,
               hit, meant, row, owner>>
walk == <<target, unit, seen, hit>>
line == <<regs, scan, meant, row, owner>>

Empty == <<>>
Absolute(s) == s # Empty /\ s[1] = "/"

----------------------------------------------------------------------------
(* Reading operands.  A byte is a number below 2 * Radix, Radix being 128;  *)
(* the high bit says that more bytes follow.                                *)

\* ReadULEB: the number of bytes it reads, the value and 1 << shift.
LebLength(s) == CHOOSE k \in DOMAIN s : s[k] < Radix /\ \A j \in 1 .. k - 1 : s[j] >= Radix
ReadLEB(s) ==
    LET r[k \in 0 .. Len(s)] ==
            IF k = 0 THEN [value |-> 0, weight |-> 1]
            ELSE [value |-> r[k - 1].value + (s[k] % Radix) * r[k - 1].weight,
                  weight |-> r[k - 1].weight * Radix]
    IN  r[LebLength(s)]
ReadULEB(s) == ReadLEB(s).value

\* ReadSLEB: the top bit of the last byte's payload is the sign.
ReadSLEB(s) ==
    IF (s[LebLength(s)] % Radix) >= Radix \div 2 THEN ReadLEB(s).value - ReadLEB(s).weight
    ELSE ReadLEB(s).value

\* The operands a compiler may write, padded ones too.
Operands ==
    {s \in UNION {[1 .. n -> 0 .. 2 * Radix - 1] : n \in 1 .. MaxBytes} :
        \A k \in DOMAIN s : s[k] < Radix <=> k = Len(s)}

\* The number whose digits are the payloads of the bytes, the last byte being
\* its first digit; of a signed number that digit is in two's complement.
Number(s, first) ==
    LET v[k \in 0 .. Len(s) - 1] ==
            IF k = 0 THEN first ELSE Radix * v[k - 1] + (s[Len(s) - k] % Radix)
    IN  v[Len(s) - 1]
UnsignedValue(s) == Number(s, s[Len(s)])
SignedValue(s) == Number(s, IF s[Len(s)] >= Radix \div 2 THEN s[Len(s)] - Radix ELSE s[Len(s)])

----------------------------------------------------------------------------
(* Dwarf::Path *)

StripSlashes(s, keep) ==
    LET solid == {k \in DOMAIN s : s[k] # "/"}
        p == CHOOSE k \in 0 .. Len(s) : /\ \A j \in 1 .. k : s[j] = "/"
                                        /\ k = Len(s) \/ s[k + 1] # "/"
        q == IF solid = {} THEN p ELSE CHOOSE k \in solid : \A j \in solid : j <= k
    IN  SubSeq(s, IF keep /\ p > 0 THEN p ELSE p + 1, q)

\* The constructor.
Path(base, sub, file) ==
    IF file = Empty THEN [base |-> Empty, sub |-> Empty, file |-> Empty]
    ELSE LET b == IF Absolute(file) \/ Absolute(sub) THEN Empty ELSE base
             s == IF Absolute(file) THEN Empty ELSE sub
         IN  [base |-> StripSlashes(IF b = Empty THEN s ELSE b, TRUE),
              sub |-> StripSlashes(IF b = Empty THEN Empty ELSE s, FALSE),
              file |-> StripSlashes(file, FALSE)]

NoPath == [base |-> Empty, sub |-> Empty, file |-> Empty]

PathSize(p) ==
    Len(p.base) + Len(p.sub) + Len(p.file) + (IF p.sub # Empty THEN 1 ELSE 0)
                                           + (IF p.file # Empty THEN 1 ELSE 0)

\* Append of ToBuffer: the piece s, as far as the buffer has room for it and its NUL.
Appended(b, s) ==
    LET fit == IF Len(s) < b.left - 1 THEN Len(s) ELSE b.left - 1
        copy == IF b.left >= 2 THEN fit ELSE 0
    IN  [text |-> b.text \o SubSeq(s, 1, copy), left |-> b.left - copy, total |-> b.total + Len(s)]

\* ToBuffer: what a buffer of n bytes gets before its NUL, and the size returned.
ToBuffer(p, n) ==
    LET base == Appended([text |-> Empty, left |-> n, total |-> 0], p.base)
        Below(b, s) == IF s = Empty THEN b ELSE Appended(Appended(b, <<"/">>), s)
    IN  Below(Below(base, p.sub), p.file)

ToString(p) ==
    LET Below(dest, s) == IF s = Empty THEN dest ELSE dest \o <<"/">> \o s
    IN  Below(Below(p.base, p.sub), p.file)

----------------------------------------------------------------------------
(* The line number program. *)

\* Reset
Reset == [address |-> 0, file |-> 1, line |-> 1]

\* Step: the registers after the instruction i, and what it returns.  Opcodes
\* 5 to 7 and 10 to 12, and the others below OpcodeBase, touch no register that
\* is reported; of the extended ones define_file (3) is passed over.
Step(r, i) ==
    LET adjusted == i.op - OpcodeBase
        Then(a, f, l, ret) == [regs |-> [address |-> a, file |-> f, line |-> l], ret |-> ret]
    IN  CASE i.op >= OpcodeBase ->
                Then(r.address + MinLength * (adjusted \div LineRange), r.file,
                     r.line + LineBase + (adjusted % LineRange), "COMMIT")
          [] i.op = 1 -> Then(r.address, r.file, r.line, "COMMIT")
          [] i.op = 2 -> Then(r.address + MinLength * ReadULEB(i.arg), r.file, r.line, "CONTINUE")
          [] i.op = 3 -> Then(r.address, r.file, r.line + ReadSLEB(i.arg), "CONTINUE")
          [] i.op = 4 -> Then(r.address, ReadULEB(i.arg), r.line, "CONTINUE")
          [] i.op = 8 -> Then(r.address + MinLength * ((MaxOpcode - OpcodeBase) \div LineRange),
                              r.file, r.line, "CONTINUE")
          [] i.op = 9 -> Then(r.address + i.arg, r.file, r.line, "CONTINUE")
          [] i.op = 0 /\ i.ext = 1 -> Then(r.address, r.file, r.line, "END")
          [] i.op = 0 /\ i.ext = 2 -> Then(i.arg, r.file, r.line, "CONTINUE")
          [] OTHER -> Then(r.address, r.file, r.line, "CONTINUE")

\* NextDefineFile: the opcodes it takes for DW_LNE_define_file (3).  It looks at
\* the opcode of an extended instruction, which is 0, and not at the extended one.
NextDefineFile == {opcode \in {0} : opcode = 3}

\* GetFileName: an entry of the table; one beyond it is looked for in the program.
GetFileName(index) == IF index <= Len(FileNames) THEN FileNames[index] ELSE [name |-> Empty]

\* GetIncludeDirectory
GetIncludeDirectory(index) == IF index = 0 THEN Empty ELSE IncludeDirectories[index]

CompDir == IF "comp_dir" \in DOMAIN seen THEN seen["comp_dir"] ELSE Empty

\* The location is given, or the process aborts on a CHECK.
Locate(file, ln) ==
    IF file > Len(FileNames) /\ NextDefineFile = {}
    THEN answer' = "abort" /\ UNCHANGED location
    ELSE /\ answer' = "true"
         /\ location' = [location EXCEPT
                !.has_line = TRUE, !.line = ln,
                !.file = Path(CompDir, GetIncludeDirectory(GetFileName(file).dir),
                              GetFileName(file).name)]

\* The row at the target itself counts as past it.
Crossed_AtTarget(address) == address >= target

\* A candidate sequence crosses the target.
Crossed(address) == address > target

\* One instruction of the program, and what LineNumberVM::FindAddress does with
\* a row; means is what the compiler meant it to do to the registers.
Execute(i, means) ==
    LET s == Step(regs, i)
        end == s.ret = "END"
        state == IF scan.state = "START" /\ ~end
                 THEN (IF s.regs.address <= target THEN "LOW_SEQ" ELSE "HIGH_SEQ")
                 ELSE scan.state
        here == [address |-> means.address, file |-> means.file, line |-> means.line]
    IN  /\ dpc = "vm"
        /\ meant' = IF end THEN Reset ELSE here
        /\ IF s.ret = "CONTINUE"
           THEN /\ regs' = s.regs
                /\ UNCHANGED <<dpc, scan, location, answer, row, owner>>
           ELSE /\ row' = IF end THEN <<>> ELSE <<here>>
                /\ owner' = IF /\ owner = <<>> /\ row # <<>>
                               /\ target \in row[1].address .. here.address - 1
                            THEN row ELSE owner
                /\ IF state = "LOW_SEQ" /\ Crossed(s.regs.address)
                   THEN /\ dpc' = "done"
                        /\ IF scan.prev_file = 0 THEN answer' = "true" /\ UNCHANGED location
                           ELSE Locate(scan.prev_file, scan.prev_line)
                        /\ UNCHANGED <<regs, scan>>
                   ELSE /\ regs' = IF end THEN Reset ELSE s.regs
                        /\ scan' = [state |-> IF end THEN "START" ELSE state,
                                    prev_file |-> IF state = "LOW_SEQ" THEN s.regs.file
                                                  ELSE scan.prev_file,
                                    prev_line |-> IF state = "LOW_SEQ" THEN s.regs.line
                                                  ELSE scan.prev_line]
                        /\ UNCHANGED <<dpc, location, answer>>
        /\ UNCHANGED walk

\* The instructions of a well formed program: an address never goes back within
\* a sequence, and lines and addresses stay within the bounds.
Special(da, dl) ==
    LET op == OpcodeBase + LineRange * da + dl - LineBase
    IN  /\ dl \in LineBase .. LineBase + LineRange - 1 /\ op <= MaxOpcode
        /\ Execute([op |-> op], [meant EXCEPT !.address = @ + MinLength * da, !.line = @ + dl])
Advance(s) == Execute([op |-> 2, arg |-> s], [meant EXCEPT !.address = @ + MinLength * UnsignedValue(s)])
AdvanceFixed(n) == Execute([op |-> 9, arg |-> n], [meant EXCEPT !.address = @ + n])
AdvanceLine(s) == Execute([op |-> 3, arg |-> s], [meant EXCEPT !.line = @ + SignedValue(s)])
SetFile(s) ==
    /\ UnsignedValue(s) <= Len(FileNames) + 1
    /\ Execute([op |-> 4, arg |-> s], [meant EXCEPT !.file = UnsignedValue(s)])
ConstAddPc ==
    Execute([op |-> 8],
            [meant EXCEPT !.address = @ + MinLength * ((MaxOpcode - OpcodeBase) \div LineRange)])
Flags(op) == op \in {5, 6, 7} /\ Execute([op |-> op], meant)
Copy == Execute([op |-> 1], meant)
Extended(ext, a) ==
    /\ IF ext = 2 THEN a >= meant.address ELSE a = 0
    /\ Execute([op |-> 0, ext |-> ext, arg |-> a],
               IF ext = 2 THEN [meant EXCEPT !.address = a] ELSE meant)

Program ==
    /\ \/ \E da \in 0 .. MaxAddress, dl \in -MaxLine .. MaxLine : Special(da, dl)
       \/ \E n \in 0 .. MaxAddress : AdvanceFixed(n)
       \/ \E s \in Operands : Advance(s) \/ AdvanceLine(s) \/ SetFile(s)
       \/ \E op \in {5, 6, 7} : Flags(op)
       \/ \E ext \in 1 .. 4, a \in 0 .. MaxAddress : Extended(ext, a)
       \/ ConstAddPc \/ Copy
    /\ meant'.address <= MaxAddress /\ meant'.line \in 1 .. MaxLine

\* The program is at its end, after an end_sequence.
ProgramEnds ==
    /\ dpc = "vm" /\ regs = Reset /\ scan.state = "START" /\ row = <<>>
    /\ dpc' = "done" /\ answer' = "true"
    /\ UNCHANGED <<walk, line, location>>

----------------------------------------------------------------------------
(* Dwarf::FindAddress, up to the program. *)

InitDwarf ==
    /\ dpc = "start" /\ target \in 1 .. MaxAddress /\ unit = 0 /\ seen = <<>>
    /\ regs = Reset /\ meant = Reset /\ row = <<>> /\ owner = <<>> /\ hit = 0
    /\ scan = [state |-> "START", prev_file |-> 0, prev_line |-> 0]
    /\ location = [has_main |-> FALSE, main |-> NoPath, has_line |-> FALSE, file |-> NoPath,
                   line |-> 0]
    /\ answer = "none"

Return(a) == dpc' = "done" /\ answer' = a

\* Init: without one of its sections the file has no debug information.
Sections(all) ==
    /\ dpc = "start"
    /\ IF all THEN dpc' = "chunk" /\ UNCHANGED answer ELSE Return("false")
    /\ UNCHANGED <<walk, line, location>>

\* The next chunk of .debug_aranges, or none.
NextChunk(more) ==
    /\ dpc = "chunk" /\ (more => unit < MaxChunks)
    /\ IF more THEN /\ dpc' = "range" /\ unit' = unit + 1 /\ UNCHANGED answer
       ELSE Return("false") /\ UNCHANGED unit
    /\ UNCHANGED <<target, seen, hit, line, location>>

\* One range of the chunk; its last one starts at 0.
ReadRange(start, length) ==
    /\ dpc = "range"
    /\ dpc' = IF start = 0 THEN "chunk"
              ELSE IF target >= start /\ target < start + length THEN "unit" ELSE "range"
    /\ hit' = IF start # 0 /\ target \in start .. start + length - 1 THEN unit ELSE hit
    /\ UNCHANGED <<target, unit, seen, line, location, answer>>

\* GetAbbreviation: the first one of that code; ReadAbbreviation stops at code 0.
GetAbbreviation(abbrs, code) ==
    LET at == {k \in DOMAIN abbrs : abbrs[k].code = code /\ \A j \in 1 .. k : abbrs[j].code # 0}
    IN  IF at = {} THEN [code |-> 0, tag |-> "none"]
        ELSE abbrs[CHOOSE k \in at : \A j \in at : k <= j]

\* The header of the unit, and the abbreviation of its first entry.
ReadUnit(abbrs, code) ==
    /\ dpc = "unit"
    /\ IF GetAbbreviation(abbrs, code).tag = "compile_unit"
       THEN dpc' = "attrs" /\ UNCHANGED answer ELSE Return("abort")
    /\ UNCHANGED <<walk, line, location>>

\* ReadAttributeValue: the value read, if any: a block is read only if it ends
\* the unit (the CHECK of ReadBytes).
ReadAttributeValue(form, value, last) ==
    IF form = "block" /\ ~last THEN {} ELSE {value}

\* One attribute of the unit; those that are not used are passed over.
ReadAttribute(name, form, value, last) ==
    /\ dpc = "attrs" /\ name \notin DOMAIN seen
    /\ IF ReadAttributeValue(form, value, last) = {} THEN Return("abort") /\ UNCHANGED seen
       ELSE /\ seen' = IF name \in {"stmt_list", "comp_dir", "name"}
                       THEN [n \in DOMAIN seen \cup {name} |-> IF n = name THEN value ELSE seen[n]]
                       ELSE seen
            /\ UNCHANGED <<dpc, answer>>
    /\ UNCHANGED <<target, unit, hit, line, location>>

\* The attributes are read: the main file, and the line program if there is one.
UseAttributes ==
    /\ dpc = "attrs"
    /\ location' = IF "name" \in DOMAIN seen /\ seen["name"] # Empty
                   THEN [location EXCEPT !.has_main = TRUE,
                                         !.main = Path(CompDir, Empty, seen["name"])]
                   ELSE location
    /\ IF "stmt_list" \in DOMAIN seen THEN dpc' = "vm" /\ UNCHANGED answer ELSE Return("true")
    /\ UNCHANGED <<walk, line>>

Abbreviations == {<<[code |-> 1, tag |-> "compile_unit"]>>,
                  <<[code |-> 2, tag |-> "other"], [code |-> 1, tag |-> "compile_unit"]>>,
                  <<[code |-> 0, tag |-> "none"], [code |-> 1, tag |-> "compile_unit"]>>}

NextDwarf ==
    \/ \E all \in BOOLEAN : Sections(all) \/ NextChunk(all)
    \/ \E start, length \in 0 .. MaxAddress : ReadRange(start, length)
    \/ \E abbrs \in Abbreviations : ReadUnit(abbrs, 1)
    \/ \E value \in CompDirs : ReadAttribute("comp_dir", "string", value, FALSE)
    \/ \E value \in MainNames : ReadAttribute("name", "strp", value, FALSE)
    \/ ReadAttribute("stmt_list", "sec_offset", <<"0">>, FALSE)
    \/ \E last \in BOOLEAN : ReadAttribute("ranges", "block", <<"0">>, last)
    \/ UseAttributes \/ Program \/ ProgramEnds

DwarfSpec == InitDwarf /\ [][NextDwarf]_dwarfVars

----------------------------------------------------------------------------
\* c written after w: a run of slashes is one slash, before what follows it.
WriteChar(w, c) ==
    IF c = "/" THEN [text |-> w.text, slash |-> TRUE]
    ELSE [text |-> w.text \o (IF w.slash THEN <<"/", c>> ELSE <<c>>), slash |-> FALSE]
Written(w, s) ==
    LET at[k \in 0 .. Len(s)] == IF k = 0 THEN w ELSE WriteChar(at[k - 1], s[k])
    IN  at[Len(s)]

\* s without slashes that are doubled or at its end.
Collapse(s) == Written([text |-> Empty, slash |-> FALSE], s).text

\* The path a name in a directory of a compilation directory stands for.  Where
\* no directory is known the code makes the name an absolute one.
Resolved(base, sub, file) ==
    CASE file = Empty -> Empty
      [] file # Empty /\ Absolute(file) -> Collapse(file)
      [] file # Empty /\ ~Absolute(file) /\ (Absolute(sub) \/ (base = Empty /\ sub # Empty)) ->
             Collapse(sub \o <<"/">> \o file)
      [] OTHER -> Collapse(base \o <<"/">> \o sub \o <<"/">> \o file)

PathRight(p, base, sub, file) ==
    LET whole == ToString(p)
    IN  /\ Collapse(whole) = Resolved(base, sub, file)
        /\ PathSize(p) = Len(whole) /\ (p.sub # Empty => p.base # Empty)
        /\ \A n \in 1 .. Len(whole) + 2 :
              LET b == ToBuffer(p, n)
              IN  b.total = Len(whole) /\ b.left >= 1
                  /\ b.text = SubSeq(whole, 1, IF Len(whole) < n THEN Len(whole) ELSE n - 1)

(***************************************************************************)
(* FindAddress gives the location the file's debug information gives.  It  *)
(* fails only when no range has the address.  The line and the file are    *)
(* those of the first row of the line matrix that starts at or before the  *)
(* address and whose successor in its sequence is after it, whatever the   *)
(* order of the sequences and the encoding of the rows, and none when      *)
(* there is no such row; the paths name the files, in whatever order the   *)
(* attributes come, have a base directory if they have a sub directory,    *)
(* as ToBuffer and ToString assert, and fit any buffer as snprintf would   *)
(* make them.  The process aborts only on a file from a define_file, on a  *)
(* block attribute and on a unit without its abbreviation.                 *)
(***************************************************************************)
LocationRight ==
    dpc = "done" =>
        /\ answer = "false" => hit = 0
        /\ answer = "true" => hit = unit
        /\ answer = "true" =>
              /\ location.has_line <=> (owner # <<>> /\ owner[1].file # 0)
              /\ location.has_line =>
                    LET f == FileNames[owner[1].file]
                    IN  /\ location.line = owner[1].line
                        /\ PathRight(location.file, CompDir,
                                     IF f.dir = 0 THEN Empty ELSE IncludeDirectories[f.dir], f.name)
              /\ location.has_main =>
                    PathRight(location.main, CompDir, Empty, seen["name"])
        /\ (answer = "abort" /\ "stmt_list" \in DOMAIN seen /\ owner # <<>>) =>
              owner[1].file > Len(FileNames)
=============================================================================
