-------------------------------- MODULE PeImage --------------------------------
(***************************************************************************)
(* What the parser reads in a PE file (vnrt-pe): imports, base relocations  *)
(* and the TLS directory, found at addresses relative to the image (RVAs)   *)
(* by way of the section table.                                             *)
(*                                                                          *)
(* A file is a function from its offsets to cells; a cell stands for the    *)
(* bytes of one entry of a table, and both headers of a relocation block.   *)
(*                                                                          *)
(* Definitions headed "Wrong:" are faulty variants of the definition that   *)
(* follows them; nothing uses them but the tests of the properties.         *)
(***************************************************************************)
EXTENDS Integers, Sequences, SequencesExt, FiniteSetsExt

Zero == <<"zero", 0>>
Word(n) == <<"word", n>>
NoTls == [start |-> 0, end |-> 0, zeros |-> 0, index |-> 0, callbacks |-> 0]
Unmapped == [offset |-> 0, available |-> 0]

(* A section holds what the file has of it.                                 *)
Holds(section, rva) == rva \in section.address..(section.address + section.raw - 1)

(* file_span_for_rva: the first section that holds the address.             *)
FileSpan(image, rva) ==
    LET holders == {i \in DOMAIN image.sections : Holds(image.sections[i], rva)} IN
    CASE rva < image.headers -> [offset |-> rva, available |-> image.headers - rva]
      [] rva >= image.headers /\ holders = {} -> Unmapped
      [] OTHER ->
            LET section == image.sections[Min(holders)]
                delta == rva - section.address
            IN [offset |-> section.pointer + delta, available |-> section.raw - delta]

InFile(image, rva, size) ==
    LET span == FileSpan(image, rva)
    IN size <= span.available /\ span.offset + size - 1 \in DOMAIN image.file

At(image, rva) == image.file[FileSpan(image, rva).offset]

-----------------------------------------------------------------------------
(* parse_import_thunks: the entries of a lookup table up to its zero.       *)
Lookup(descriptor) == IF descriptor.original = 0 THEN descriptor.first ELSE descriptor.original

EndOfTable(image, table) ==
    CHOOSE end \in table..(table + image.size) :
        /\ At(image, end) = Zero
        /\ \A rva \in table..(end - 1) : At(image, rva) # Zero

TableEnds(image, table) ==
    \E end \in table..(table + image.size) :
        /\ \A rva \in table..end : InFile(image, rva, 1)
        /\ At(image, end) = Zero

(* The thunk that the entry of a lookup table at an address is for.         *)
ImportThunk(image, descriptor, entry) ==
    [module |-> descriptor.module, name |-> At(image, entry)[2],
     iat |-> descriptor.first + entry - Lookup(descriptor)]

ImportThunks(image, descriptor) ==
    LET table == Lookup(descriptor)
        thunk == [entry \in table..(EndOfTable(image, table) - 1) |->
                      ImportThunk(image, descriptor, entry)]
    IN [i \in 1..Cardinality(DOMAIN thunk) |-> thunk[table + i - 1]]

(* parse_imports.                                                           *)
Imports(image) ==
    FlattenSeq([i \in DOMAIN image.descriptors |-> ImportThunks(image, image.descriptors[i])])

ImportsParse(image) ==
    \A descriptor \in Range(image.descriptors) :
        descriptor.first # 0 /\ TableEnds(image, Lookup(descriptor))

-----------------------------------------------------------------------------
(* parse_relocations.  A block is its page, its size and its entries; those *)
(* of kind 0 fill it up.                                                    *)
BlockHeader == 2

Entries(image, block) == [i \in 1..(At(image, block + 1)[2] - BlockHeader) |->
                              At(image, block + BlockHeader + i - 1)[2]]

(* Wrong: the entries that fill a block up are fixups of its first word.    *)
FixupsOfAll(image, block) ==
    LET entries == Entries(image, block)
    IN [i \in DOMAIN entries |->
            [rva |-> At(image, block)[2] + entries[i].offset, kind |-> entries[i].kind]]

Fixups(image, block) ==
    LET entries == SelectSeq(Entries(image, block), LAMBDA entry : entry.kind # 0)
    IN [i \in DOMAIN entries |->
            [rva |-> At(image, block)[2] + entries[i].offset, kind |-> entries[i].kind]]

BlockFits(image, block, left) ==
    /\ left >= BlockHeader /\ InFile(image, block, BlockHeader)
    /\ At(image, block + 1)[2] \in BlockHeader..left
    /\ \A n \in BlockHeader..(At(image, block + 1)[2] - 1) : InFile(image, block + n, 1)

Blocks(image) ==
    LET table == image.relocations
        from[consumed \in 0..table.size] ==
            IF consumed = table.size THEN <<>>
            ELSE IF ~BlockFits(image, table.rva + consumed, table.size - consumed)
            THEN <<0>>
            ELSE <<table.rva + consumed>>
                 \o from[consumed + At(image, table.rva + consumed + 1)[2]]
    IN from[0]

Relocations(image) ==
    LET fixups == [block \in 0..(image.size - 1) |-> Fixups(image, block)]
        blocks == Blocks(image)
    IN FlattenSeq([i \in DOMAIN blocks |-> fixups[blocks[i]]])

RelocationsParse(image) == 0 \notin Range(Blocks(image))

(* parse_tls_directory.                                                     *)
TlsParses(image) == image.tls.end >= image.tls.start

(* parse.                                                                   *)
Parses(image) == ImportsParse(image) /\ RelocationsParse(image) /\ TlsParses(image)
=============================================================================
