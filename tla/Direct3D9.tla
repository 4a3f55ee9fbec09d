----------------------------- MODULE Direct3D9 ------------------------------
(***************************************************************************)
(* The COM objects of d3d9.dll (vnrt-d3d9), which live in guest memory, and *)
(* the textures of the host GPU behind them (vnrt-gfx-wgpu).  An object is  *)
(* a record of the words the methods read and write; of its vtable only the *)
(* kind is kept.  Pixels are the number of times they were written.         *)
(*                                                                          *)
(* The guest calls methods on objects it holds a reference to and releases  *)
(* no more references than it holds.  A call that fails with an error of    *)
(* the host ends the run and is no step here.                               *)
(*                                                                          *)
(* Definitions headed "Wrong:" are faulty variants of the definition that   *)
(* follows them; nothing uses them but the tests of the properties.         *)
(***************************************************************************)
EXTENDS Integers, FiniteSets

CONSTANTS
    MaxWord,        \* u32::MAX
    HalfWord,       \* 2^32: the id of a GPU texture is kept in two words
    MaxAllocation,  \* the most that VirtualAlloc has to give
    Sizes,          \* widths, heights and lengths that the guest asks for
    Display,        \* primary_display_size
    MaxObjects, MaxWrites, MaxReferences, MaxCalls      \* bounds of a behaviour

(* A word counts more references than the guest holds, and no allocation    *)
(* has as many bytes as there are addresses.                                *)
Direct3DAssumption ==
    /\ MaxWord \in Nat /\ HalfWord \in Nat \ {0}
    /\ MaxAllocation \in Nat /\ MaxAllocation < MaxWord
    /\ Sizes \subseteq 0..MaxWord
    /\ Display \in [width : 0..MaxWord, height : 0..MaxWord]
    /\ MaxObjects \in Nat /\ MaxReferences \in Nat \ {0} /\ MaxObjects + MaxReferences <= MaxWord
    /\ MaxWrites \in Nat

VARIABLES
    objects,        \* the objects ever made: nothing destroys one
    bits,           \* contents of the memory of each: number of writes
    hasGpu,         \* is there a host GPU device?
    textures,       \* its textures: packed length and contents
    held,           \* history: references the guest holds to each object,
    unlocked,       \*   contents of a texture when it was last unlocked,
    lock,           \*   the last LockBuffer that succeeded,
    call,           \*   last argument read and bytes of arguments removed,
    steps           \*   number of calls

vars == <<objects, bits, hasGpu, textures, held, unlocked, lock, call, steps>>

None == 0
Ids == DOMAIN objects
NextId == Cardinality(Ids) + 1
Held == {o \in Ids : held[o] > 0}
Of(kinds) == {o \in Held : objects[o].kind \in kinds}
Resources == {"texture", "surface", "vertex buffer", "index buffer"}

Least(m, n) == IF m < n THEN m ELSE n
Put(f, x, v) == [y \in DOMAIN f \cup {x} |-> IF y = x THEN v ELSE f[y]]

Init ==
    /\ objects = [o \in {} |-> 0] /\ bits = [o \in {} |-> 0] /\ held = [o \in {} |-> 0]
    /\ hasGpu \in BOOLEAN
    /\ textures = [t \in {} |-> 0] /\ unlocked = [o \in {} |-> 0]
    /\ lock = [first |-> 0, size |-> 0, length |-> 0]
    /\ call = [last |-> 0, cleanup |-> 4]
    /\ steps = 0

(* Every method ends so, having read its arguments up to the last one.      *)
finish(last, cleanup) == call' = [last |-> last, cleanup |-> cleanup]

-----------------------------------------------------------------------------
(* Reference counts.  A new object has one reference, which the guest gets. *)
ComObject(kind, parent) ==
    [kind |-> kind, count |-> 1, parent |-> parent, width |-> 0, height |-> 0, pitch |-> 0,
     bytes |-> 0, gpuLow |-> 0, gpuHigh |-> 0]

AddRefTo(o, table) == [table EXCEPT ![o].count = Least(@ + 1, MaxWord)]

(* The guest gets a reference to an object that exists.                     *)
HandOut(o) ==
    /\ held[o] < MaxReferences
    /\ objects' = AddRefTo(o, objects)
    /\ held' = [held EXCEPT ![o] = @ + 1]
    /\ UNCHANGED <<bits, textures, unlocked, lock>>

QueryInterface(o) == HandOut(o) /\ finish(2, 12)
AddRef(o) == HandOut(o) /\ finish(0, 4)

(* Wrong: a parent is handed out without a reference.                       *)
GetParentBorrowed(o) ==
    /\ held[objects[o].parent] < MaxReferences
    /\ held' = [held EXCEPT ![objects[o].parent] = @ + 1]
    /\ finish(1, 8)
    /\ UNCHANGED <<objects, bits, textures, unlocked, lock>>

(* GetDirect3D of a device and GetDevice of a resource.                     *)
GetParent(o) == HandOut(objects[o].parent) /\ finish(1, 8)

(* The surface of a texture is the texture.                                 *)
GetSurfaceLevel(o) == HandOut(o) /\ finish(2, 12)

(* At 0 the object stays, with its memory, its GPU texture, and the         *)
(* reference to its parent.                                                 *)
Release(o) ==
    /\ objects' = [objects EXCEPT ![o].count = IF @ = 0 THEN 0 ELSE @ - 1]
    /\ held' = [held EXCEPT ![o] = @ - 1]
    /\ finish(0, 4)
    /\ UNCHANGED <<bits, textures, unlocked, lock>>

-----------------------------------------------------------------------------
(* The GPU.  A texture is made for every description it accepts.            *)
NextTexture == Cardinality(DOMAIN textures) + 1         \* next_texture, from 1 up
PackedLength(width, height) == width * height * 4

CreateGpuTexture(width, height) ==
    textures' = Put(textures, NextTexture,
                    [length |-> PackedLength(width, height), contents |-> -1])

(* Anything but the whole texture is refused, and the refusal ignored.      *)
WriteGpuTexture(id, length, contents) ==
    textures' = IF id \in DOMAIN textures /\ textures[id].length = length
                THEN [textures EXCEPT ![id].contents = contents] ELSE textures

-----------------------------------------------------------------------------
(* Making objects.                                                          *)
AddObject(object, parent, references) ==
    /\ NextId <= MaxObjects
    /\ objects' = Put(IF references THEN AddRefTo(parent, objects) ELSE objects, NextId, object)
    /\ bits' = Put(bits, NextId, 0)
    /\ held' = Put(held, NextId, 1)

Direct3DCreate9 ==
    /\ NextId <= MaxObjects
    /\ objects' = Put(objects, NextId, ComObject("d3d9", None))
    /\ bits' = Put(bits, NextId, 0)
    /\ held' = Put(held, NextId, 1)
    /\ finish(0, 4)
    /\ UNCHANGED <<textures, unlocked, lock>>

(* The size comes from the parameters unless one of them is 0.              *)
PresentSize(width, height) ==
    IF width = 0 \/ height = 0 THEN Display ELSE [width |-> width, height |-> height]

CreateDevice(d3d, width, height) ==
    LET size == PresentSize(width, height) IN
    /\ AddObject([ComObject("device", d3d) EXCEPT !.width = size.width, !.height = size.height],
                 d3d, TRUE)
    /\ finish(6, 28)
    /\ UNCHANGED <<textures, unlocked, lock>>

(* Wrong: the product wraps around.                                         *)
SaturatingMulWraps(m, n) == (m * n) % (MaxWord + 1)

SaturatingMul(m, n) == Least(m * n, MaxWord)

(* A texture or surface of that size; its memory has to be available.       *)
Image(kind, device, width, height) ==
    LET pitch == SaturatingMul(width, 4) IN
    [ComObject(kind, device) EXCEPT !.width = width, !.height = height, !.pitch = pitch,
                                    !.bytes = SaturatingMul(pitch, height)]

(* Without a GPU, or if it fails, the two words stay 0.                     *)
CreateTexture(device, width, height) ==
    LET image == Image("texture", device, width, height)
        onGpu == [image EXCEPT !.gpuLow = NextTexture % HalfWord,
                               !.gpuHigh = NextTexture \div HalfWord]
    IN
    /\ width # 0 /\ height # 0 /\ image.bytes <= MaxAllocation
    /\ \/ hasGpu /\ CreateGpuTexture(width, height) /\ AddObject(onGpu, device, TRUE)
       \/ ~hasGpu /\ UNCHANGED textures /\ AddObject(image, device, TRUE)
    /\ unlocked' = Put(unlocked, NextId, -1)
    /\ finish(7, 32)
    /\ UNCHANGED lock

(* The words of a buffer have another meaning: width is its length.         *)
CreateBuffer(device, length, kind) ==
    /\ length # 0 /\ length <= MaxAllocation
    /\ AddObject([ComObject(kind, device) EXCEPT !.width = length], device, TRUE)
    /\ finish(5, 28)
    /\ UNCHANGED <<textures, unlocked, lock>>

(* A surface of its own at every call, which does not hold the device.      *)
GetBackBuffer(device) ==
    LET image == Image("surface", device, objects[device].width, objects[device].height) IN
    /\ image.bytes <= MaxAllocation
    /\ AddObject(image, device, FALSE)
    /\ finish(4, 20)
    /\ UNCHANGED <<textures, unlocked, lock>>

-----------------------------------------------------------------------------
(* Contents.  LockRect hands out the address of the bits; the guest writes  *)
(* them when it likes.                                                      *)
LockRect == finish(4, 20) /\ UNCHANGED <<objects, bits, textures, held, unlocked, lock>>

GuestWrites(o) ==
    /\ bits[o] < MaxWrites
    /\ bits' = [bits EXCEPT ![o] = @ + 1]
    /\ UNCHANGED <<objects, textures, held, unlocked, lock, call>>

(* Wrong: the id is what fits in one word.                                  *)
GpuTextureLow(o) == objects[o].gpuLow

GpuTexture(o) == objects[o].gpuLow + objects[o].gpuHigh * HalfWord

(* The bits of a texture, or surface, go to the GPU, locked or not.         *)
UnlockRect(o) ==
    /\ IF GpuTexture(o) # 0 /\ objects[o].bytes # 0
       THEN WriteGpuTexture(GpuTexture(o), objects[o].bytes, bits[o])
       ELSE UNCHANGED textures
    /\ unlocked' = Put(unlocked, o, bits[o])
    /\ finish(0, 8)
    /\ UNCHANGED <<objects, bits, held, lock>>

(* Wrong: the end of the range wraps around.                                *)
InBufferWraps(offset, size, length) ==
    offset <= length /\ (size = 0 \/ (offset + size) % (MaxWord + 1) <= length)

InBuffer(offset, size, length) ==
    offset <= length /\ (size = 0 \/ Least(offset + size, MaxWord) <= length)

(* A size of 0 means up to the end.                                         *)
LockBuffer(o, offset, size) ==
    LET length == objects[o].width IN
    /\ lock' = IF InBuffer(offset, size, length)
               THEN [first |-> offset, size |-> IF size = 0 THEN length - offset ELSE size,
                     length |-> length]
               ELSE lock
    /\ finish(4, 20)
    /\ UNCHANGED <<objects, bits, textures, held, unlocked>>

-----------------------------------------------------------------------------
(* Methods that only report, by the arguments they read.                    *)
Report(last, cleanup) ==
    finish(last, cleanup) /\ UNCHANGED <<objects, bits, textures, held, unlocked, lock>>

GetDisplayMode == Report(2, 12)         \* and GetAdapterDisplayMode
GetDeviceCaps9 == Report(3, 12)
GetDeviceCaps == Report(1, 8)
GetLevelDesc == Report(2, 12)
GetSurfaceDesc == Report(1, 8)

(* The methods that do nothing, by the bytes of arguments they remove; only *)
(* CreateTexture, Lock and the like are more than that.                     *)
FactoryStubs == {4 * n : n \in 1..7}
DeviceStubs == {4 * n : n \in 1..9}
ResourceStubs == {4, 8, 12, 16, 20}

Stub(o) ==
    \E cleanup \in CASE objects[o].kind = "d3d9" -> FactoryStubs
                     [] objects[o].kind = "device" -> DeviceStubs
                     [] OTHER -> ResourceStubs :
        Report(0, cleanup)

QueryMethod ==
    \/ \E o \in Held : Stub(o)
    \/ Of({"d3d9", "device"}) # {} /\ GetDisplayMode
    \/ Of({"d3d9"}) # {} /\ GetDeviceCaps9
    \/ Of({"device"}) # {} /\ GetDeviceCaps
    \/ Of({"texture"}) # {} /\ GetLevelDesc
    \/ Of({"texture", "surface"}) # {} /\ GetSurfaceDesc
    \/ Of({"texture", "surface"}) # {} /\ LockRect

Method ==
    \/ Direct3DCreate9
    \/ \E d3d \in Of({"d3d9"}), width, height \in Sizes \cup {0} : CreateDevice(d3d, width, height)
    \/ \E device \in Of({"device"}), width, height \in Sizes : CreateTexture(device, width, height)
    \/ \E device \in Of({"device"}), length \in Sizes, kind \in {"vertex buffer", "index buffer"} :
          CreateBuffer(device, length, kind)
    \/ \E device \in Of({"device"}) : GetBackBuffer(device)
    \/ \E o \in Held : QueryInterface(o)
    \/ \E o \in Held : AddRef(o)
    \/ \E o \in Held : Release(o)
    \/ \E o \in Of(Resources \cup {"device"}) : GetParent(o)
    \/ \E o \in Of({"texture"}) : GetSurfaceLevel(o)
    \/ \E o \in Of({"texture", "surface"}) : GuestWrites(o)
    \/ \E o \in Of({"texture", "surface"}) : UnlockRect(o)
    \/ \E o \in Of({"vertex buffer", "index buffer"}), offset, size \in Sizes \cup {0} :
          LockBuffer(o, offset, size)
    \/ QueryMethod

Next ==
    /\ steps < MaxCalls
    /\ steps' = steps + 1
    /\ UNCHANGED hasGpu
    /\ Method

Spec == Init /\ [][Next]_vars

-----------------------------------------------------------------------------
(* Every variable has its type.                                             *)
TypeOK ==
    /\ Ids = 1..(NextId - 1) /\ DOMAIN held = Ids /\ DOMAIN bits = Ids
    /\ \A o \in Ids :
          /\ objects[o].count \in 0..MaxWord /\ objects[o].parent \in 0..(o - 1)
          /\ held[o] \in 0..MaxReferences
          /\ {objects[o].width, objects[o].pitch, objects[o].bytes} \subseteq 0..MaxWord
    /\ \A t \in DOMAIN textures : textures[t].length \in Nat

(* The count of an object is the references the guest was given and has not *)
(* released, and one for each device, texture and buffer made from it:      *)
(* nothing the guest still uses reaches 0, whatever hands it out, and the   *)
(* parent of a live texture or buffer is alive (add_ref and its callers).   *)
Children(o) == {c \in Ids : objects[c].parent = o /\ objects[c].kind # "surface"}
CountsAddUp == \A o \in Ids : objects[o].count = held[o] + Cardinality(Children(o))

(* The bytes a texture uploads are as many as the GPU wants, whatever the   *)
(* size: an upload would be refused without a sign (unlock_rect).           *)
UploadsAreAccepted ==
    \A o \in Ids : GpuTexture(o) # 0 =>
        /\ GpuTexture(o) \in DOMAIN textures
        /\ textures[GpuTexture(o)].length = objects[o].bytes

(* The GPU shows of each texture what its bits were when it was last        *)
(* unlocked, and never those of another one (unlock_rect).                  *)
GpuShowsLastUnlock ==
    \A o \in Ids : (objects[o].kind = "texture" /\ hasGpu) =>
        textures[objects[o].gpuLow + objects[o].gpuHigh * HalfWord].contents = unlocked[o]

(* What LockBuffer gives out lies in the memory of the buffer.              *)
LockStaysInside == lock.first + lock.size <= lock.length

(* The count of an object is the references to it; the GPU gets as many     *)
(* bytes as it wants, and shows what was unlocked last; what LockBuffer     *)
(* gives out lies in the memory of the buffer.                              *)
ResourcesCoherent ==
    CountsAddUp /\ UploadsAreAccepted /\ GpuShowsLastUnlock /\ LockStaysInside

(* Does not hold, and is checked by no run:                                 *)
(* A method removes the arguments it has read: what set_stdcall_cleanup is  *)
(* told is "how many argument bytes the stdcall callee removes on return".  *)
(* GetDeviceCaps9 reads the argument at 12 and removes 12 bytes.            *)
CalleeRemovesItsArguments == 4 * (call.last + 1) <= call.cleanup
=============================================================================
