-------------------------------- MODULE Gdi ---------------------------------
(***************************************************************************)
(* gdi32 over the tables of RuntimeHostContext (host_context.rs), beside    *)
(* the windows whose DCs it draws to: memory DCs, GDI objects, what is      *)
(* selected where, and the frames the host shows.  Of a GDI object only     *)
(* the handle is kept: what the calls do here depends on no more.           *)
(*                                                                          *)
(* Definitions headed "Wrong:" are faulty variants of the definition that   *)
(* follows them; nothing uses them but the tests of the properties.         *)
(***************************************************************************)
EXTENDS Windows

CONSTANTS MaxObjects, MaxMemoryDcs      \* bounds of a behaviour

ASSUME GdiAssumption == {MaxObjects, MaxMemoryDcs} \subseteq Nat

VARIABLES
    objects,        \* gdi_objects: the handles
    nextObject,     \* next_gdi_object
    memoryDcs,      \* memory_dcs
    nextMemoryDc,
    selected,       \* selected_gdi_objects: object by DC, one of any kind
    attributes,     \* gdi_dc_attributes: DCs with a colour or mode of their own
    shown,          \* window_frames: windows with a frame
    selectedLive    \* history: DCs whose object existed when it was selected

gdiVars == <<objects, nextObject, memoryDcs, nextMemoryDc, selected, attributes, shown,
             selectedLive>>
vars == <<windowsVars, gdiVars>>

Stock == 0                      \* a stock object, which is no gdi_object
Screen == <<"screen", 0>>       \* SCREEN_DC_HANDLE
DcOfWindow(n) == <<"window", n>>
MemoryDc(n) == <<"memory", n>>

WindowDcs == {DcOfWindow(table.dcs[w]) : w \in DOMAIN table.dcs}
SeenDcs == {Screen} \cup {DcOfWindow(n) : n \in 1..(next.dc - 1)}
              \cup {MemoryDc(n) : n \in 1..(nextMemoryDc - 1)}
SeenObjects == 1..(nextObject - 1)

IsGdiDc(dc) == dc = Screen \/ dc \in WindowDcs \/ dc \in memoryDcs

Init ==
    /\ WindowsInit
    /\ objects = {} /\ nextObject = 1
    /\ memoryDcs = {} /\ nextMemoryDc = 1
    /\ selected = NoFunction /\ attributes = {}
    /\ shown = {}
    /\ selectedLive = {}

CreateGdiObject ==
    /\ nextObject <= MaxObjects
    /\ objects' = objects \cup {nextObject}
    /\ nextObject' = nextObject + 1
    /\ UNCHANGED <<memoryDcs, nextMemoryDc, selected, attributes, shown, selectedLive>>

CreateBitmap == CreateGdiObject
CreateDibSection(dc) == IsGdiDc(dc) /\ CreateGdiObject
CreateFontIndirect == CreateGdiObject
ExtCreateRegion == CreateGdiObject
CreateRectRegion == CreateGdiObject
CreateCompatibleBitmap(dc) == IsGdiDc(dc) /\ CreateGdiObject

(* Wrong: only the DCs that still exist are asked.                          *)
IsSelectedInLiveDc(object) == \E dc \in DOMAIN selected : IsGdiDc(dc) /\ selected[dc] = object

IsSelected(object) == \E dc \in DOMAIN selected : selected[dc] = object

(* DeleteObject.  The pixels of a bitmap stay allocated.                    *)
DeleteGdiObject(object) ==
    /\ ~IsSelected(object)
    /\ objects' = objects \ {object}
    /\ UNCHANGED <<nextObject, memoryDcs, nextMemoryDc, selected, attributes, shown, selectedLive>>

CreateCompatibleDc(source) ==
    /\ nextMemoryDc <= MaxMemoryDcs
    /\ IsGdiDc(source)
    /\ memoryDcs' = memoryDcs \cup {MemoryDc(nextMemoryDc)}
    /\ nextMemoryDc' = nextMemoryDc + 1
    /\ UNCHANGED <<objects, nextObject, selected, attributes, shown, selectedLive>>

(* Wrong: what is selected stays selected.                                  *)
DeleteDcKeepsSelection(dc) ==
    /\ memoryDcs' = memoryDcs \ {dc}
    /\ attributes' = attributes \ {dc}
    /\ UNCHANGED <<objects, nextObject, nextMemoryDc, selected, shown, selectedLive>>

(* DeleteDC refuses the DC of a window, but resets it all the same.         *)
DeleteDc(dc) ==
    /\ memoryDcs' = memoryDcs \ {dc}
    /\ selected' = Drop(selected, dc)
    /\ selectedLive' = selectedLive \ {dc}
    /\ attributes' = attributes \ {dc}
    /\ UNCHANGED <<objects, nextObject, nextMemoryDc, shown>>

(* Any handle can be selected, that of a deleted object too.                *)
SelectObject(dc, object) ==
    /\ IsGdiDc(dc)
    /\ selected' = Put(selected, dc, object)
    /\ selectedLive' = IF object \in objects THEN selectedLive \cup {dc}
                       ELSE selectedLive \ {dc}
    /\ UNCHANGED <<objects, nextObject, memoryDcs, nextMemoryDc, attributes, shown>>

(* Wrong: the attribute of any DC is kept.                                  *)
SetDcAttributeUnchecked(dc) ==
    /\ attributes' = attributes \cup {dc}
    /\ UNCHANGED <<objects, nextObject, memoryDcs, nextMemoryDc, selected, shown,
                   selectedLive>>

SetDcAttribute(dc) ==
    /\ IsGdiDc(dc)
    /\ attributes' = attributes \cup {dc}
    /\ UNCHANGED <<objects, nextObject, memoryDcs, nextMemoryDc, selected, shown,
                   selectedLive>>

Show(dc) ==
    /\ shown' = shown \cup {w \in DOMAIN table.dcs : DcOfWindow(table.dcs[w]) = dc}
    /\ UNCHANGED <<objects, nextObject, memoryDcs, nextMemoryDc, selected, attributes,
                   selectedLive>>

(* An object that still exists is selected in the DC; whatever it is, its   *)
(* descriptor is long enough to be read as a bitmap's.                      *)
SelectedBitmap(dc) == dc \in DOMAIN selected /\ selected[dc] \in objects

(* BitBlt and StretchBlt show it if the destination is the DC of a window;  *)
(* when what is read is no picture, they fail and nothing changes.          *)
BitBlt(destination, source) ==
    /\ IsGdiDc(destination) /\ IsGdiDc(source)
    /\ SelectedBitmap(source)
    /\ Show(destination)

(* StretchDIBits and SetDIBitsToDevice.                                     *)
TransferDibToDc(dc) == IsGdiDc(dc) /\ Show(dc)

(* EnumFontFamiliesEx makes one callback; DIB reads and writes, TextOut and *)
(* the queries change nothing here.                                         *)
EnumFontFamilies(dc, procedure) ==
    /\ IsGdiDc(dc)
    /\ Suspend(FALSE, <<Callback(procedure, Null, "font")>>)
    /\ UNCHANGED <<gdiVars, classes, table, next, menus, messageVars, miscVars, historyVars>>

GdiChange ==
    \/ CreateBitmap \/ CreateFontIndirect \/ ExtCreateRegion \/ CreateRectRegion
    \/ \E dc \in SeenDcs : CreateDibSection(dc)
    \/ \E dc \in SeenDcs : CreateCompatibleBitmap(dc)
    \/ \E object \in SeenObjects : DeleteGdiObject(object)
    \/ \E dc \in SeenDcs : CreateCompatibleDc(dc)
    \/ \E dc \in SeenDcs : DeleteDc(dc)
    \/ \E dc \in SeenDcs, object \in {Stock} \cup SeenObjects : SelectObject(dc, object)
    \/ \E dc \in SeenDcs : SetDcAttribute(dc)
    \/ \E destination, source \in SeenDcs : BitBlt(destination, source)
    \/ \E dc \in SeenDcs : TransferDibToDc(dc)

GdiCall ==
    /\ left.gdi > 0
    /\ left' = [left EXCEPT !.gdi = @ - 1]
    /\ \/ GdiChange /\ UNCHANGED <<classes, table, next, menus, messageVars, miscVars, frames,
                                   historyVars>>
       \/ \E dc \in SeenDcs, procedure \in Procedures : EnumFontFamilies(dc, procedure)

Next == (WindowsNext /\ UNCHANGED gdiVars) \/ GdiCall

Spec == Init /\ [][Next]_vars

-----------------------------------------------------------------------------
(* Every variable has its type.                                             *)
TypeOK ==
    /\ WindowsTypeOK
    /\ objects \subseteq SeenObjects /\ memoryDcs \subseteq SeenDcs
    /\ DOMAIN selected \subseteq SeenDcs /\ attributes \subseteq SeenDcs
    /\ \A dc \in DOMAIN selected : selected[dc] \in {Stock} \cup SeenObjects
    /\ selectedLive \subseteq DOMAIN selected /\ shown \subseteq Handles

(* DeleteObject never takes an object from under a DC, so that what was     *)
(* selected while it existed can be drawn with; the DCs of destroyed        *)
(* windows count (delete_gdi_object), and hold their object for ever unless *)
(* DeleteDC, which fails, is called on them.                                *)
SelectedObjectsSurvive == \A dc \in selectedLive : selected[dc] \in objects

(* A memory DC that was deleted leaves neither a selection nor attributes   *)
(* behind, whatever is still called on its handle (delete_memory_dc).       *)
DeletedDcsLeaveNothing ==
    \A dc \in (DOMAIN selected \cup attributes) : dc[1] = "memory" => dc \in memoryDcs

(* Selections: of objects that exist, in DCs that exist.                    *)
SelectionsHold == SelectedObjectsSurvive /\ DeletedDcsLeaveNothing
=============================================================================
