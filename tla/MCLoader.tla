------------------------------- MODULE MCLoader -------------------------------
(* The images a linker makes of two sections, code and tables: the import   *)
(* tables with or without a lookup table of their own, fixups, and a TLS    *)
(* directory or none, in either order and with sizes of every kind.         *)
EXTENDS Loader

HeaderCells == 2
Import(module, name) == [module |-> module, name |-> name]

(* The names imported from a module, by descriptor.                         *)
ImportTables ==
    { <<>>,
      << <<"kernel32", <<"A">>>>, <<"kernel32", <<"B">>>> >>,
      << <<"kernel32", <<"A">>>>, <<"kernel32", <<"B", "A">>>> >>,
      << <<"other", <<"#2", "_A@4">>>>, <<"kernel32", <<"missing">>>> >> }

FixupBlocks ==
    << <<8, <<[kind |-> 3, offset |-> 1], [kind |-> 0, offset |-> 0]>>>>,
       <<16, <<[kind |-> 3, offset |-> 2], [kind |-> 3, offset |-> 3]>>>> >>

Names(table) == [i \in DOMAIN table |-> [j \in DOMAIN table[i][2] |-> <<"name", table[i][2][j]>>]]
Terminated(entries) == Append(entries, Zero)
Concatenated(seqs) == FoldLeft(LAMBDA a, b : a \o b, <<>>, seqs)
NameTables(table) == [i \in DOMAIN table |-> Terminated(Names(table)[i])]

FixupCells ==
    Concatenated([i \in DOMAIN FixupBlocks |->
        <<Word(FixupBlocks[i][1]), Word(2 + Len(FixupBlocks[i][2]))>>
        \o [j \in DOMAIN FixupBlocks[i][2] |-> <<"fixup", FixupBlocks[i][2][j]>>]])

Template == << <<"data", 1>>, <<"data", 2>> >>
Callback(i) == <<"callback", i>>

(* The tables of a section at an address, and where each begins.            *)
Made(address, table, separate, tls) ==
    LET names == Concatenated(NameTables(table))
        lookup == address
        first == IF separate THEN lookup + Len(names) ELSE lookup
        fixups == first + Len(names)
        template == fixups + Len(FixupCells)
        index == template + Len(Template)
        array == index + 1
        before(i) == Len(Concatenated(SubSeq(NameTables(table), 1, i - 1)))
    IN [cells |-> names \o (IF separate THEN names ELSE <<>>) \o FixupCells
                  \o (IF tls THEN Template \o <<Word(7), Callback(1), Callback(2), Zero>> ELSE <<>>),
        descriptors |-> [i \in DOMAIN table |->
            [module |-> table[i][1], first |-> first + before(i),
             original |-> IF separate THEN lookup + before(i) ELSE 0]],
        imports |-> Concatenated([i \in DOMAIN table |-> [j \in DOMAIN table[i][2] |->
            [module |-> table[i][1], name |-> table[i][2][j], iat |-> first + before(i) + j - 1]]]),
        relocations |-> [rva |-> fixups, size |-> Len(FixupCells)],
        tls |-> IF tls THEN [start |-> template, end |-> index, zeros |-> 1, index |-> index,
                             callbacks |-> array] ELSE NoTls]

Code == << <<"code", 1>>, <<"code", 2>>, <<"code", 3>> >>
Section(address, virtual, cells, pointer, permissions) ==
    [address |-> address, virtual |-> virtual, raw |-> Len(cells), pointer |-> pointer,
     permissions |-> permissions]
Fixed == << [rva |-> 9, kind |-> 3], [rva |-> 18, kind |-> 3], [rva |-> 19, kind |-> 3] >>

After(section) == AlignUp(section.address + Max({section.virtual, section.raw}))
Size(cells, virtual) ==
    CASE virtual = "none" -> 0 [] virtual = "more" -> Len(cells) + 3
      [] virtual = "less" -> Len(cells) - 1

CodeSection(address, virtual, pointer) ==
    Section(address, Size(Code, virtual), Code, pointer, {"read", "execute"})
TableSection(address, virtual, cells, writable) ==
    Section(address, Size(cells, virtual), cells, HeaderCells,
            IF writable THEN {"read", "write"} ELSE {"read"})

(* The first section is where shift says, the code may be it; the tables    *)
(* are made for the address they get.                                       *)
Start(shift) == PageCells + shift
TablesAt(codeFirst, layout) ==
    IF codeFirst THEN After(CodeSection(Start(layout.shift), layout.virtual, 0))
    ELSE Start(layout.shift)

SectionTable(made, address, codeFirst, layout) ==
    LET pointer == HeaderCells + Len(made.cells)
        tables == TableSection(address, layout.virtual, made.cells, layout.writable)
    IN IF codeFirst THEN <<CodeSection(Start(layout.shift), layout.virtual, pointer), tables>>
       ELSE <<tables, CodeSection(After(tables), layout.virtual, pointer)>>

Image(made, sections) ==
    LET cells == << <<"header", 1>>, <<"header", 2>> >> \o made.cells \o Code
    IN [headers |-> HeaderCells,
        size |-> Max({s.address + Max({s.virtual, s.raw}) : s \in Range(sections)}),
        sections |-> sections,
        file |-> [offset \in 0..(Len(cells) - 1) |-> cells[offset + 1]],
        descriptors |-> made.descriptors, relocations |-> made.relocations, tls |-> made.tls,
        wants |-> [imports |-> made.imports, fixups |-> Fixed,
                   block |-> Append(Template, Zero),
                   callbacks |-> IF made.tls = NoTls THEN <<>> ELSE <<Callback(1), Callback(2)>>]]

Layout(shift, virtual, writable) == [shift |-> shift, virtual |-> virtual, writable |-> writable]
Layouts == {Layout(0, "none", TRUE), Layout(0, "more", FALSE), Layout(0, "less", FALSE),
           Layout(5, "more", TRUE), Layout(5, "none", FALSE)}

ImagesWith(codeFirst, layout) ==
    UNION {{Image(made, SectionTable(made, address, codeFirst, layout)) :
              made \in {Made(address, table, separate, tls) :
                          table \in ImportTables, separate \in BOOLEAN, tls \in BOOLEAN}} :
           address \in {TablesAt(codeFirst, layout)}}

MCImages == UNION {ImagesWith(codeFirst, layout) : codeFirst \in BOOLEAN, layout \in Layouts}

MCModules == <<"kernel32", "other">>
MCNames == <<"A", "B">>
MCUndecorate == [name \in {"_A@4"} |-> "A"]
MCOrdinals == [name \in {"#2"} |-> 2]
MCRegistries ==
    { {Key("kernel32", "A"), Key("kernel32", "B"), Key("other", "A"), Key("other", "#2")},
      {Key("kernel32", "B"), Key("other", "A"), Key("other", "B")} }
=============================================================================
