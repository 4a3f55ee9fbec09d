-------------------------------- MODULE Loader --------------------------------
(***************************************************************************)
(* How a process comes to life: the image is mapped, its imports are bound  *)
(* to host thunks, the modules of the host get images with export tables,   *)
(* the static TLS block is made and the image is protected (Runtime::load); *)
(* then its TLS callbacks run and its entry point.  A guest finds an API by *)
(* its import table, by the export table of a module and by GetProcAddress. *)
(*                                                                          *)
(* Addresses are RVAs of the image, in cells, or numbers of thunks.  An     *)
(* image is what a linker makes (MCLoader).                                 *)
(*                                                                          *)
(* Definitions headed "Wrong:" are faulty variants of the definition that   *)
(* follows them; nothing uses them but the tests of the properties.         *)
(***************************************************************************)
EXTENDS PeImage, Functions

CONSTANTS
    Images,
    Registries,     \* sets of registered keys
    ModuleList,     \* of the host, sorted
    NameList,       \* of APIs, sorted
    Undecorate,     \* from decorated names to names
    OrdinalOf,      \* from names that are ordinals to numbers
    PageCells,
    ThunkSlots,     \* in the region of the host thunks
    TlsRoom,        \* for the static TLS block
    MaxCallbacks,   \* MAX_TLS_CALLBACKS
    MaxSteps        \* bound: on the steps of the guest

VARIABLES
    image, registry,
    phase,          \* the step of load that is next, "running" or "failed"
    memory,         \* contents of the image
    access,         \* permissions of its pages
    thunks,         \* import_thunks
    exports,        \* export tables of the modules of the host
    block,          \* the static TLS block of the main thread
    callbacks,      \* pending_tls_callbacks
    ran,            \* history: the callbacks, and the entry point, entered
    given,          \* history: addresses given by GetProcAddress or the host
    steps

vars == <<image, registry, phase, memory, access, thunks, exports, block, callbacks,
          ran, given, steps>>

(* The entries of the import tables of an image, each by its descriptor and *)
(* its place in the table, and the import that it is for.                   *)
ImportEntries(linked) ==
    {e \in (DOMAIN linked.descriptors) \X (0..linked.size) :
        \A place \in 0..e[2] :
            At(linked, Lookup(linked.descriptors[e[1]]) + place) # Zero}

EntryImport(linked, e) ==
    LET descriptor == linked.descriptors[e[1]]
    IN [module |-> descriptor.module, name |-> At(linked, Lookup(descriptor) + e[2])[2],
        iat |-> descriptor.first + e[2]]

(* A linker makes an entry for every import, and no other, and gives every  *)
(* import and the TLS index a place of its own.                             *)
ImportsLinked(linked) ==
    /\ linked.size \in Nat
    /\ linked.descriptors \in Seq([module : STRING, first : Nat, original : Nat])
    /\ linked.wants.imports \in Seq([module : STRING, name : STRING, iat : Nat])
    /\ Range(linked.wants.imports) = {EntryImport(linked, e) : e \in ImportEntries(linked)}
    /\ \A d, e \in ImportEntries(linked) :
          EntryImport(linked, d).iat = EntryImport(linked, e).iat => d = e
    /\ linked.tls # NoTls =>
          \A e \in ImportEntries(linked) : EntryImport(linked, e).iat # linked.tls.index

(* Ordinals are numbers of 16 bits, but zero.                               *)
MaxOrdinal == 65535
LoaderAssumption ==
    /\ ThunkSlots \in Nat
    /\ ModuleList \in Seq(STRING) /\ "" \notin Range(ModuleList)
    /\ NameList \in Seq(STRING)
    /\ OrdinalOf \in [DOMAIN OrdinalOf -> 1..MaxOrdinal]
    /\ \A linked \in Images : ImportsLinked(linked)

Key(module, name) == [module |-> module, name |-> name]
Hole == Key("", "")
EntryPoint == <<"entry", 0>>
Thunk(address) == <<"thunk", address>>
ReadOnly == {"read"}
All == {"read", "write", "execute"}
AlignUp(cells) == ((cells + PageCells - 1) \div PageCells) * PageCells
Mapped == AlignUp(image.size)
Page(rva) == rva \div PageCells

(* ApiRegistry::resolve.                                                    *)
Handler(key) ==
    IF key \in registry THEN key
    ELSE IF key.name \in DOMAIN Undecorate /\ Key(key.module, Undecorate[key.name]) \in registry
    THEN Key(key.module, Undecorate[key.name])
    ELSE Hole

Init ==
    /\ image \in Images /\ registry \in Registries
    /\ phase = "map"
    /\ memory = <<>> /\ access = <<>>
    /\ thunks = <<>> /\ exports = <<>>
    /\ block = <<>> /\ callbacks = <<>>
    /\ ran = <<>> /\ given = {} /\ steps = 0

Fails == phase' = "failed" /\ UNCHANGED <<memory, access, thunks, exports, block, callbacks>>

-----------------------------------------------------------------------------
(* map_image.                                                               *)

(* Wrong: pages get the permissions of their section at once.               *)
MappedPermissionsOfSections(page) ==
    LET sections == {s \in Range(image.sections) : Page(s.address) <= page}
    IN IF sections = {} THEN ReadOnly
       ELSE (CHOOSE s \in sections : \A t \in sections : t.address <= s.address).permissions

MappedPermissions(page) == All

(* copy_section.  A later section overwrites an earlier one.                *)
Copied(rva) ==
    LET over == {i \in DOMAIN image.sections : Holds(image.sections[i], rva)} IN
    IF over # {} THEN LET section == image.sections[Max(over)]
                      IN image.file[section.pointer + rva - section.address]
    ELSE IF rva < image.headers THEN image.file[rva] ELSE Zero

SectionsFit ==
    \A s \in Range(image.sections) :
        /\ s.address + s.raw <= Mapped
        /\ s.raw = 0 \/ s.pointer + s.raw - 1 \in DOMAIN image.file

MapImage ==
    /\ phase = "map"
    /\ IF ~Parses(image) \/ Mapped = 0 \/ ~SectionsFit THEN Fails
       ELSE /\ memory' = [rva \in 0..(Mapped - 1) |-> Copied(rva)]
            /\ access' = [page \in 0..(Page(Mapped) - 1) |-> MappedPermissions(page)]
            /\ phase' = "bind"
            /\ UNCHANGED <<thunks, exports, block, callbacks>>
    /\ UNCHANGED <<image, registry, ran, given, steps>>

Writable(rva) == rva \in DOMAIN memory /\ "write" \in access[Page(rva)]

(* bind_imports: a thunk for every import, the same API or not.             *)
BindImports ==
    /\ phase = "bind"
    /\ LET imports == Imports(image) IN
       IF \E i \in DOMAIN imports : ~Writable(imports[i].iat) THEN Fails
       ELSE /\ thunks' = [a \in 0..(Len(imports) - 1) |->
                              Key(imports[a + 1].module, imports[a + 1].name)]
            /\ memory' = [rva \in DOMAIN memory |->
                    LET here == {i \in DOMAIN imports : imports[i].iat = rva}
                    IN IF here = {} THEN memory[rva] ELSE Thunk(Max(here) - 1)]
            /\ phase' = "modules"
            /\ UNCHANGED <<access, exports, block, callbacks>>
    /\ UNCHANGED <<image, registry, ran, given, steps>>

-----------------------------------------------------------------------------
(* Thunks for APIs.  The table is a hash table: of several thunks for a key *)
(* it may find any.                                                         *)

(* Wrong: the number of thunks, as if there were no holes.                  *)
NextFreeOfDense(table) == Cardinality(DOMAIN table)

(* next_free_host_thunk; ThunkSlots if there is none.                       *)
NextFree(table) == Min((0..ThunkSlots) \ DOMAIN table)

ThunksFor(table, key) == {a \in DOMAIN table : table[a] = key}

(* Wrong: a new thunk, whatever there is.                                   *)
ThunkForAnew(table, key, last) == NextFree(table)

ThunkFor(table, key, last) ==
    LET found == ThunksFor(table, key)
    IN IF found = {} THEN NextFree(table) ELSE IF last THEN Max(found) ELSE Min(found)

WithThunk(table, address, key) ==
    [a \in DOMAIN table \cup {address} |-> IF a = address THEN key ELSE table[a]]

-----------------------------------------------------------------------------
(* initialize_host_module_image: ordinals have their places in the function *)
(* table, names the remaining ones.                                         *)
Ordinals(module) == {key \in registry : key.module = module /\ key.name \in DOMAIN OrdinalOf}

OrdinalSlots(module) ==
    LET keys == Ordinals(module)
        count == Max({0} \cup {OrdinalOf[key.name] : key \in keys})
    IN [i \in 1..count |->
            IF \E key \in keys : OrdinalOf[key.name] = i
            THEN CHOOSE key \in keys : OrdinalOf[key.name] = i ELSE Hole]

NamedExports(module) ==
    FoldLeft(LAMBDA names, name : IF Key(module, name) \in registry THEN Append(names, name)
                                  ELSE names,
             <<>>, NameList)

Place(slots, key) ==
    LET holes == {i \in DOMAIN slots : slots[i] = Hole}
    IN IF holes = {} THEN Append(slots, key) ELSE [slots EXCEPT ![Min(holes)] = key]

FunctionSlots(module) ==
    FoldLeft(LAMBDA slots, name : Place(slots, Key(module, name)),
             OrdinalSlots(module), NamedExports(module))

(* The name table leads to the function table.                              *)
NamedSlots(module) ==
    LET names == NamedExports(module) slots == FunctionSlots(module) IN
    [n \in DOMAIN names |->
        [name |-> names[n], index |-> CHOOSE i \in DOMAIN slots : slots[i] = Key(module, names[n])]]

(* Thunks of the functions, holes have none.                                *)
Export(made, key, last) ==
    IF key = Hole THEN [made EXCEPT !.functions = Append(@, -1)]
    ELSE LET address == ThunkFor(made.thunks, key, last)
         IN [thunks |-> WithThunk(made.thunks, address, key),
             functions |-> Append(made.functions, address)]

ModuleImage(table, module, last) ==
    FoldLeft(LAMBDA made, key : Export(made, key, last),
             [thunks |-> table, functions |-> <<>>], FunctionSlots(module))

(* initialize_host_modules.                                                 *)
WithModule(made, module, last) ==
    LET new == ModuleImage(made.thunks, module, last)
    IN [thunks |-> new.thunks,
        exports |-> Append(made.exports, [functions |-> new.functions,
                                          names |-> NamedSlots(module)])]

Modules(table, last) ==
    FoldLeft(LAMBDA made, module : WithModule(made, module, last),
             [thunks |-> table, exports |-> <<>>], ModuleList)

InitializeHostModules ==
    /\ phase = "modules"
    /\ \E last \in BOOLEAN :
          LET made == Modules(thunks, last) IN
          IF ThunkSlots \in DOMAIN made.thunks THEN Fails
          ELSE /\ thunks' = made.thunks /\ exports' = made.exports
               /\ phase' = "tls"
               /\ UNCHANGED <<memory, access, block, callbacks>>
    /\ UNCHANGED <<image, registry, ran, given, steps>>

-----------------------------------------------------------------------------
(* Wrong: the zero at the end is one of them.                               *)
CallbacksAtWithZero(array) ==
    LET count == CHOOSE n \in 0..MaxCallbacks :
            /\ n = MaxCallbacks \/ memory[array + n] = Zero
            /\ \A m \in 0..(n - 1) : memory[array + m] # Zero
    IN [i \in 1..(IF count = MaxCallbacks THEN count - 1 ELSE count + 1) |->
            IF i > count THEN Zero ELSE memory[array + i - 1]]

(* read_tls_callbacks: up to the first zero, read before any of them runs.  *)
CallbacksAt(array) ==
    LET count == CHOOSE n \in 0..MaxCallbacks :
            /\ n = MaxCallbacks \/ memory[array + n] = Zero
            /\ \A m \in 0..(n - 1) : memory[array + m] # Zero
    IN [i \in 1..count |-> memory[array + i - 1]]

(* Wrong: the block is the template.                                        *)
BlockWithoutZeros(tls) == [i \in 1..(tls.end - tls.start) |-> memory[tls.start + i - 1]]

Block(tls) ==
    [i \in 1..(tls.end - tls.start + tls.zeros) |->
        IF i <= tls.end - tls.start THEN memory[tls.start + i - 1] ELSE Zero]

(* initialize_static_tls.                                                   *)
InitializeStaticTls ==
    /\ phase = "tls"
    /\ LET tls == image.tls IN
       IF tls = NoTls THEN /\ phase' = "protect"
                           /\ UNCHANGED <<memory, access, thunks, exports, block, callbacks>>
       ELSE IF \/ tls.index = 0 \/ ~Writable(tls.index)
               \/ tls.end - tls.start + tls.zeros > TlsRoom
               \/ tls.callbacks # 0 /\ Len(CallbacksAt(tls.callbacks)) = MaxCallbacks
       THEN Fails
       ELSE /\ block' = Block(tls)
            /\ memory' = [memory EXCEPT ![tls.index] = Word(0)]
            /\ callbacks' = IF tls.callbacks = 0 THEN <<>> ELSE CallbacksAt(tls.callbacks)
            /\ phase' = "protect"
            /\ UNCHANGED <<access, thunks, exports>>
    /\ UNCHANGED <<image, registry, ran, given, steps>>

(* Wrong: a section has the pages its memory needs, from its first one.     *)
PagesOfMemory(section) ==
    Page(section.address)..(Page(section.address) + AlignUp(section.virtual) \div PageCells - 1)

(* The pages of a section, of the larger of its two sizes.                  *)
PagesOf(section) ==
    LET size == Max({section.virtual, section.raw})
        delta == section.address % PageCells
    IN Page(section.address)..(Page(section.address) + AlignUp(delta + size) \div PageCells - 1)

(* protect_image: the last section a page belongs to decides.               *)
ProtectImage ==
    /\ phase = "protect"
    /\ IF \E s \in Range(image.sections) : ~(PagesOf(s) \subseteq DOMAIN access) THEN Fails
       ELSE /\ access' = [page \in DOMAIN access |->
                  LET owners == {i \in DOMAIN image.sections : page \in PagesOf(image.sections[i])}
                  IN IF owners = {} THEN ReadOnly ELSE image.sections[Max(owners)].permissions]
            /\ phase' = "enter"
            /\ UNCHANGED <<memory, thunks, exports, block, callbacks>>
    /\ UNCHANGED <<image, registry, ran, given, steps>>

-----------------------------------------------------------------------------
(* Wrong: the entry point follows the first callback.                       *)
NextToRunFirstOnly == IF callbacks # <<>> /\ ran = <<>> THEN Head(callbacks) ELSE EntryPoint

NextToRun == IF callbacks # <<>> THEN Head(callbacks) ELSE EntryPoint

Runs ==
    /\ ran' = Append(ran, NextToRun)
    /\ callbacks' = IF callbacks = <<>> THEN <<>> ELSE Tail(callbacks)

(* The end of load_with_config.                                             *)
Enter ==
    /\ phase = "enter"
    /\ phase' = "running"
    /\ Runs
    /\ UNCHANGED <<image, registry, memory, access, thunks, exports, block, given, steps>>

(* advance_tls_callbacks, when a callback returns.                          *)
AdvanceTlsCallbacks ==
    /\ phase = "running" /\ Last(ran) # EntryPoint
    /\ Runs
    /\ UNCHANGED <<image, registry, phase, memory, access, thunks, exports, block, given, steps>>

(* resolve_host_api; a full region ends the run.                            *)
GetProcAddress(module, name) ==
    LET key == Key(module, name) IN
    /\ phase = "running" /\ steps < MaxSteps
    /\ steps' = steps + 1
    /\ \E last \in BOOLEAN :
          IF Handler(key) = Hole THEN UNCHANGED <<phase, thunks, given>>
          ELSE LET address == ThunkFor(thunks, key, last) IN
               IF address = ThunkSlots THEN phase' = "failed" /\ UNCHANGED <<thunks, given>>
               ELSE /\ thunks' = WithThunk(thunks, address, key)
                    /\ given' = given \cup {[address |-> address, key |-> key, by |-> "guest"]}
                    /\ UNCHANGED phase
    /\ UNCHANGED <<image, registry, memory, access, exports, block, callbacks, ran>>

(* The host puts an API at an address of its own, which may leave a hole.   *)
RegisterImportThunk(address, key) ==
    /\ phase = "running" /\ steps < MaxSteps
    /\ address \in (0..(ThunkSlots - 1)) \ DOMAIN thunks
    /\ steps' = steps + 1
    /\ thunks' = WithThunk(thunks, address, key)
    /\ given' = given \cup {[address |-> address, key |-> key, by |-> "host"]}
    /\ UNCHANGED <<image, registry, phase, memory, access, exports, block, callbacks, ran>>

APINames == Range(NameList) \cup DOMAIN Undecorate \cup DOMAIN OrdinalOf

Next ==
    \/ MapImage
    \/ BindImports
    \/ InitializeHostModules
    \/ InitializeStaticTls
    \/ ProtectImage
    \/ Enter
    \/ AdvanceTlsCallbacks
    \/ \E module \in Range(ModuleList), name \in APINames : GetProcAddress(module, name)
    \/ \E address \in 0..(ThunkSlots - 1), key \in registry : RegisterImportThunk(address, key)

Spec == Init /\ [][Next]_vars

-----------------------------------------------------------------------------
Loaded == phase \in {"enter", "running"}

(* Every variable has its type.                                             *)
TypeOK ==
    /\ phase \in {"map", "bind", "modules", "tls", "protect", "enter", "running", "failed"}
    /\ \A page \in DOMAIN access : access[page] \subseteq All
    /\ DOMAIN thunks \subseteq Nat
    /\ Zero \notin Range(callbacks)
    /\ \A g \in given : g.address \in 0..(ThunkSlots - 1)

(* What a linker makes can be loaded, though its import table, its TLS      *)
(* index or its callbacks may lie in pages the image may not write (load:   *)
(* everything is written before protect_image).                             *)
WellFormedImagesLoad == phase = "failed" => thunks # <<>> /\ NextFree(thunks) = ThunkSlots

(* The parser reads the file where the guest finds the same cells in        *)
(* memory, and finds the fixups the linker has made (file_span_for_rva      *)
(* against copy_section; parse_relocations).                                *)
ParserSeesTheImage ==
    phase = "bind" =>
        /\ \A rva \in DOMAIN memory : InFile(image, rva, 1) => At(image, rva) = memory[rva]
        /\ Relocations(image) = image.wants.fixups

(* The addresses a guest may have of an API.                                *)
Imported(key) ==
    {memory[w.iat][2] : w \in {v \in Range(image.wants.imports) : Key(v.module, v.name) = key}}
Exported(key) ==
    UNION {{exports[m].functions[entry.index] :
              entry \in {n \in Range(exports[m].names) : n.name = key.name}} :
           m \in {i \in DOMAIN ModuleList : ModuleList[i] = key.module}}
Given(key) == {g.address : g \in {h \in given : h.key = key}}
Addresses(key) == Imported(key) \cup Exported(key) \cup Given(key)
Keys == {Key(module, name) : module \in Range(ModuleList), name \in APINames}

(* Whichever way the guest has got the address of an API, calling it calls  *)
(* that API, however many thunks have been made since                       *)
(* (bind_imports, initialize_host_module_image, next_free_host_thunk).      *)
AddressesLeadToTheirApi ==
    Loaded =>
        /\ \A w \in Range(image.wants.imports) : memory[w.iat][1] = "thunk"
        /\ \A key \in Keys : \A address \in Addresses(key) :
              address \in DOMAIN thunks /\ Handler(thunks[address]) = Handler(key)

(* An API has one address under a name, by import, export table and         *)
(* GetProcAddress, unless the image imports it twice or the host has put it *)
(* somewhere (resolve_host_api, initialize_host_module_image).              *)
OneAddressPerApi ==
    Loaded => \A key \in Keys :
        \/ Cardinality(Addresses(key)) <= 1
        \/ Cardinality(Imported(key)) > 1
        \/ \E g \in given : g.key = key /\ g.by = "host"

(* The static TLS block of the main thread is the template and its zeros,   *)
(* and the module finds it by index 0 (initialize_static_tls).              *)
TlsBlockIsTemplate ==
    (Loaded /\ image.tls # NoTls) =>
        /\ block = image.wants.block
        /\ memory[image.tls.index] = Word(0)

(* The guest may do with a cell of a section what the section allows, and   *)
(* no more (protect_image).                                                 *)
SectionsAsDeclared ==
    Loaded => \A s \in Range(image.sections) :
        \A rva \in s.address..(s.address + Max({s.virtual, s.raw}) - 1) :
            access[Page(rva)] = s.permissions

(* The TLS callbacks run one after the other, in the order of their array,  *)
(* and the entry point after the last of them (advance_tls_callbacks).      *)
CallbacksComeFirst ==
    ran # <<>> => LET order == Append(image.wants.callbacks, EntryPoint)
                  IN ran = SubSeq(order, 1, Len(ran))
=============================================================================
