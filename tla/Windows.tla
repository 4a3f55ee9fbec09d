------------------------------ MODULE Windows -------------------------------
(***************************************************************************)
(* user32 over the tables of RuntimeHostContext (host_context.rs): window   *)
(* classes, windows and what is kept for them, the message queue that all   *)
(* threads share, menus, the clipboard, painting and dialogs.  The tables   *)
(* hold what the properties tell apart: that a title or a parent is stored, *)
(* not which.                                                               *)
(*                                                                          *)
(* A call whose handler asks for guest callbacks is suspended until they    *)
(* have returned (see RunLoop for the mechanism), and the procedures they   *)
(* enter make further calls: `frames` holds, for each suspended call, the   *)
(* callbacks that are left, the one that runs first.                        *)
(*                                                                          *)
(* Definitions headed "Wrong:" are faulty variants of the definition that   *)
(* follows them; nothing uses them but the tests of the properties.         *)
(***************************************************************************)
EXTENDS Integers, Sequences, FiniteSets, SequencesExt

CONSTANTS
    ClassNames, Lower(_),   \* names of classes, and to_ascii_lowercase
    Procedures,             \* window and dialog procedures of the guest
    Messages,               \* what it posts, and filters for
    NestDialogs,            \* may a dialog open inside another?
    MaxWindows, MaxMenus, MaxPosts, MaxFrames,  \* bounds of a behaviour, and
    Budgets                 \*   numbers of calls on windows and on GDI objects

ASSUME WindowsAssumption ==
    /\ {MaxWindows, MaxMenus, MaxPosts, MaxFrames} \subseteq Nat
    /\ Budgets \subseteq [windows: Nat, gdi: Nat]
    /\ NestDialogs \in BOOLEAN
    /\ \A name \in ClassNames : Lower(Lower(name)) = Lower(name)

(* Window handles count up from 1; every dialog has the one handle Dialog.  *)
Null == 0
Dialog == -1                    \* STARTUP_DIALOG_HANDLE
Broadcast == -2                 \* HWND_BROADCAST
Quit == "WM_QUIT"
Command == "WM_COMMAND"

VARIABLES
    classes,        \* window_classes: procedure and atom by lower-case name
    table,          \* the tables by window, see Tables
    next,           \* the next window, window DC and menu handle
    menus,          \* the live menus, and menu_children
    messages,       \* thread_messages
    held,           \* the MSG of the guest: the last message it got
    focused,        \* focused_window
    clipboard,      \* is it open, is there data?
    frames,         \* the suspended calls, the innermost last
    posted,         \* history: number of messages posted so far,
    delivered,      \*   numbers of those taken from the queue,
    born,           \*   value of posted when each window was made,
    dcOwner,        \*   window each window DC was made for,
    dropped,        \*   has the guest destroyed the handle of the open dialog?
    left            \* calls left, those of RegisterClass not counted

Tables == {"windows", "titles", "visible", "placements", "disabled", "longs", "classLongs",
           "regions", "invalidated", "menus", "dcs", "targets"}

messageVars == <<messages, held, posted, delivered>>
miscVars == <<focused, clipboard>>
historyVars == <<born, dcOwner, dropped>>
windowsVars == <<classes, table, next, menus, messageVars, miscVars, frames, historyVars, left>>

NoFunction == [x \in {} |-> 0]
Put(f, x, v) == [y \in DOMAIN f \cup {x} |-> IF y = x THEN v ELSE f[y]]
Drop(f, x) == [y \in DOMAIN f \ {x} |-> f[y]]

Ascending(S) == SetToSortSeq(S, <)

Windows == DOMAIN table.windows
IsWindow(w) == w \in Windows
Handles == 1..(next.window - 1)         \* those of windows a guest has seen
Given == {Dialog} \cup Handles          \* those it can give to a call
Store(name, w, v) == table' = [table EXCEPT ![name] = Put(@, w, v)]
Erase(name, w) == table' = [table EXCEPT ![name] = Drop(@, w)]

WindowsInit ==
    /\ classes = NoFunction
    /\ table = [name \in Tables |-> NoFunction]
    /\ next = [window |-> 1, dc |-> 1, menu |-> 1]
    /\ menus = [live |-> {}, children |-> NoFunction]
    /\ messages = <<>>
    /\ held = [window |-> Null, message |-> Command, number |-> 0]
    /\ focused = Null
    /\ clipboard = [open |-> FALSE, data |-> FALSE]
    /\ frames = <<>>
    /\ posted = 0 /\ delivered = {}
    /\ born = NoFunction /\ dcOwner = NoFunction /\ dropped = FALSE
    /\ left \in Budgets

-----------------------------------------------------------------------------
(* Suspended calls.  A call with no callbacks returns at once.              *)
Callback(procedure, window, message) ==
    [procedure |-> procedure, window |-> window, message |-> message]

Suspend(dialog, callbacks) ==
    /\ callbacks # <<>> => Len(frames) < MaxFrames
    /\ frames' = IF callbacks = <<>> THEN frames
                 ELSE Append(frames, [dialog |-> dialog, callbacks |-> callbacks])

(* The callback that runs returns; after the last one the call does.        *)
CallbackReturns ==
    /\ frames # <<>>
    /\ frames' = LET rest == Tail(Last(frames).callbacks) IN
                 IF rest = <<>> THEN Front(frames)
                 ELSE Append(Front(frames), [Last(frames) EXCEPT !.callbacks = rest])
    /\ UNCHANGED <<classes, table, next, menus, messageVars, miscVars, historyVars, left>>

-----------------------------------------------------------------------------
(* Classes and windows.                                                     *)
RegisterClass(name, procedure) ==
    /\ Lower(name) \notin DOMAIN classes
    /\ classes' = Put(classes, Lower(name), procedure)
    /\ UNCHANGED <<table, next, menus, messageVars, miscVars, frames, historyVars>>

(* Wrong: the lowest handle that is free is taken.                          *)
NewHandleLowest ==
    CHOOSE w \in 1..next.window : ~IsWindow(w) /\ \A v \in 1..(w - 1) : IsWindow(v)

NewHandle == next.window

(* Both callbacks are queued before the first runs.                         *)
CreateWindowEx(name, visible) ==
    LET w == NewHandle
        procedure == classes[Lower(name)]
        stored == {"windows", "titles", "placements", "longs", "targets"}
                    \cup (IF visible THEN {"visible", "invalidated"} ELSE {})
        value(t) == IF t = "targets" THEN procedure ELSE TRUE
    IN
    /\ Lower(name) \in DOMAIN classes
    /\ next.window <= MaxWindows
    /\ table' = [t \in Tables |-> IF t \in stored THEN Put(table[t], w, value(t)) ELSE table[t]]
    /\ next' = [next EXCEPT !.window = @ + 1]
    /\ born' = Put(born, w, posted)
    /\ Suspend(FALSE, <<Callback(procedure, w, "WM_NCCREATE"), Callback(procedure, w, "WM_CREATE")>>)
    /\ UNCHANGED <<classes, menus, messageVars, miscVars, dcOwner, dropped>>

(* Wrong: the window procedure stays registered.                            *)
RemoveWindowKeepsTarget(w) ==
    table' = [t \in Tables |-> IF t = "targets" THEN table[t] ELSE Drop(table[t], w)]

(* The focus, messages, children and clipboard are left as they are.  Any   *)
(* handle will do: that of a dialog has no window, but a procedure.         *)
RemoveWindow(w) == table' = [t \in Tables |-> Drop(table[t], w)]

DialogOpen == \E i \in 1..Len(frames) : frames[i].dialog

(* No message is sent to the window.                                        *)
DestroyWindow(w) ==
    /\ RemoveWindow(w)
    /\ dropped' = (dropped \/ (w = Dialog /\ DialogOpen))
    /\ UNCHANGED <<classes, next, menus, messageVars, miscVars, frames, born, dcOwner>>

(* Wrong: what is stored for a handle is not looked at.                     *)
StoreForAnyHandle(name, w, v) ==
    /\ Store(name, w, v)
    /\ UNCHANGED <<classes, next, menus, messageVars, miscVars, frames, historyVars>>

(* What most of the calls on a window come to.                              *)
StoreForWindow(name, w, v) ==
    /\ IsWindow(w)
    /\ Store(name, w, v)
    /\ UNCHANGED <<classes, next, menus, messageVars, miscVars, frames, historyVars>>

EraseForWindow(name, w) ==
    /\ IsWindow(w)
    /\ Erase(name, w)
    /\ UNCHANGED <<classes, next, menus, messageVars, miscVars, frames, historyVars>>

SetWindowText(w) == StoreForWindow("titles", w, TRUE)
MoveWindow(w) == StoreForWindow("placements", w, table.placements[w])
EnableWindow(w, enable) ==
    IF enable THEN EraseForWindow("disabled", w) ELSE StoreForWindow("disabled", w, TRUE)
InvalidateRect(w) == StoreForWindow("invalidated", w, TRUE)
ValidateRect(w) == EraseForWindow("invalidated", w)

(* Index -4 is the window procedure; the others, -8 for the parent among    *)
(* them, are plain values.                                                  *)
SetWindowLong(w, index, v) ==
    StoreForWindow(IF index = -4 THEN "targets" ELSE "longs", w, v)

(* The show command, and with it whether the window is visible.             *)
ShowWindow(w, show) ==
    /\ IsWindow(w)
    /\ table' = [table EXCEPT !.placements[w] = show,
                              !.visible = IF show THEN Put(@, w, TRUE) ELSE Drop(@, w)]
    /\ UNCHANGED <<classes, next, menus, messageVars, miscVars, frames, historyVars>>

(* The show command of the WINDOWPLACEMENT, and its rectangle.              *)
SetWindowPlacement(w, show) == ShowWindow(w, show)

(* SWP_SHOWWINDOW and SWP_HIDEWINDOW leave the show command alone.          *)
SetWindowPos(w, show) ==
    IF show THEN StoreForWindow("visible", w, TRUE) ELSE EraseForWindow("visible", w)

(* These two do not look whether there is such a window.                    *)
StoreUnchecked(name, w) ==
    /\ Store(name, w, TRUE)
    /\ UNCHANGED <<classes, next, menus, messageVars, miscVars, frames, historyVars>>

SetClassLong(w) == StoreUnchecked("classLongs", w)
SetWindowRgn(w) == StoreUnchecked("regions", w)

(* WM_SETTEXT and WM_CLOSE; the other messages change nothing.              *)
DefWindowProc(w, message) ==
    \/ message = "WM_SETTEXT" /\ SetWindowText(w)
    \/ message = "WM_CLOSE" /\ DestroyWindow(w)

(* SetFocus takes anything, SetActiveWindow a window or none.               *)
SetFocus(w) ==
    /\ focused' = w
    /\ UNCHANGED <<classes, table, next, menus, messageVars, clipboard, frames, historyVars>>

SetForegroundWindow(w) == IsWindow(w) /\ SetFocus(w)
SetActiveWindow(w) == (w = Null \/ IsWindow(w)) /\ SetFocus(w)

-----------------------------------------------------------------------------
(* Messages.  A filter is the set of what it lets through, {} for anything; *)
(* WM_QUIT passes every filter.  The window asked for is ignored.           *)
Post(window, message) ==
    /\ posted < MaxPosts
    /\ posted' = posted + 1
    /\ messages' = Append(messages, [window |-> window, message |-> message, number |-> posted + 1])

PostMessage(w, message) ==
    /\ w \in {Null, Broadcast} \/ IsWindow(w)
    /\ Post(w, message)
    /\ UNCHANGED <<classes, table, next, menus, held, delivered, miscVars, frames, historyVars>>

PostQuitMessage ==
    /\ Post(Null, Quit)
    /\ UNCHANGED <<classes, table, next, menus, held, delivered, miscVars, frames, historyVars>>

Matches(m, filter) == m.message = Quit \/ filter = {} \/ m.message \in filter

(* Wrong: the last message takes the place of the one removed.              *)
NextMessageSwaps(filter, remove) ==
    \E i \in 1..Len(messages) :
        /\ Matches(messages[i], filter)
        /\ \A j \in 1..(i - 1) : ~Matches(messages[j], filter)
        /\ held' = messages[i]
        /\ messages' = IF ~remove THEN messages ELSE
              Front([messages EXCEPT ![i] = Last(messages)])
        /\ delivered' = IF remove THEN delivered \cup {messages[i].number} ELSE delivered
        /\ UNCHANGED <<classes, table, next, menus, posted, miscVars, frames, historyVars>>

(* An empty queue is reported, not waited on.                               *)
NextMessage(filter, remove) ==
    \E i \in 1..Len(messages) :
        /\ Matches(messages[i], filter)
        /\ \A j \in 1..(i - 1) : ~Matches(messages[j], filter)
        /\ held' = messages[i]
        /\ messages' = IF remove THEN RemoveAt(messages, i) ELSE messages
        /\ delivered' = IF remove THEN delivered \cup {messages[i].number} ELSE delivered
        /\ UNCHANGED <<classes, table, next, menus, posted, miscVars, frames, historyVars>>

GetMessage(filter) == NextMessage(filter, TRUE)
PeekMessage(filter, remove) == NextMessage(filter, remove)

(* DispatchMessage on the MSG held, SendMessage and SendMessageTimeout on   *)
(* any window: without a procedure nothing is called.                       *)
CallTarget(w, message) ==
    /\ Suspend(FALSE, IF w \in DOMAIN table.targets
                      THEN <<Callback(table.targets[w], w, message)>> ELSE <<>>)
    /\ UNCHANGED <<classes, table, next, menus, messageVars, miscVars, historyVars>>

DispatchMessage == CallTarget(held.window, held.message)
SendMessage(w, message) == CallTarget(w, message)
SendMessageTimeout(w, message) == CallTarget(w, message)

(* The callbacks are for the windows of this moment.                        *)
EnumWindows(procedure) ==
    /\ Suspend(FALSE, [i \in 1..Cardinality(Windows) |->
                          Callback(procedure, Ascending(Windows)[i], "enumerated")])
    /\ UNCHANGED <<classes, table, next, menus, messageVars, miscVars, historyVars>>

-----------------------------------------------------------------------------
(* Painting.  No WM_PAINT is ever posted; UpdateWindow and RedrawWindow     *)
(* call the procedures of invalid windows.                                  *)
(* RedrawWindow on live windows, for each in this order: invalidate,        *)
(* validate, update.                                                        *)
RedrawWindow(which, invalidate, validate, update) ==
    LET invalid == IF validate THEN {}
                   ELSE IF invalidate THEN which
                   ELSE which \cap DOMAIN table.invalidated
        kept == (DOMAIN table.invalidated \ which) \cup invalid
        due == Ascending(invalid \cap DOMAIN table.targets)
    IN
    /\ table' = [table EXCEPT !.invalidated = [w \in kept |-> TRUE]]
    /\ Suspend(FALSE, IF ~update THEN <<>> ELSE
          [i \in 1..Len(due) |-> Callback(table.targets[due[i]], due[i], "WM_PAINT")])
    /\ UNCHANGED <<classes, next, menus, messageVars, miscVars, historyVars>>

UpdateWindow(w) ==
    /\ IsWindow(w)
    /\ RedrawWindow({w}, FALSE, FALSE, TRUE)

(* Wrong: the handle of a DC tells how many windows have one.               *)
NewWindowDcByCount == Cardinality(DOMAIN table.dcs) + 1

NewWindowDc == next.dc

(* The DC of a window is made on its first use; nothing takes it away but   *)
(* the end of the window.                                                   *)
WindowDc(w, invalidated) ==
    LET fresh == w \notin DOMAIN table.dcs IN
    /\ IsWindow(w)
    /\ table' = [table EXCEPT !.dcs = IF fresh THEN Put(@, w, NewWindowDc) ELSE @,
                              !.invalidated = invalidated]
    /\ next' = [next EXCEPT !.dc = IF fresh THEN @ + 1 ELSE @]
    /\ dcOwner' = IF fresh /\ NewWindowDc \notin DOMAIN dcOwner THEN Put(dcOwner, NewWindowDc, w)
                  ELSE dcOwner
    /\ UNCHANGED <<classes, menus, messageVars, miscVars, frames, born, dropped>>

GetDC(w) == WindowDc(w, table.invalidated)
BeginPaint(w) == WindowDc(w, Drop(table.invalidated, w))

-----------------------------------------------------------------------------
(* Dialogs.                                                                 *)
(* DialogBoxParamA: the accepting command is queued, WM_INITDIALOG called.  *)
DialogBox(procedure) ==
    /\ NestDialogs \/ ~DialogOpen
    /\ Store("targets", Dialog, procedure)
    /\ Post(Dialog, Command)
    /\ Suspend(TRUE, <<Callback(procedure, Dialog, "WM_INITDIALOG")>>)
    /\ dropped' = FALSE
    /\ UNCHANGED <<classes, next, menus, held, delivered, miscVars, born, dcOwner>>

(* Wrong: only the innermost call is given up, whatever it is.              *)
EndDialogPopsTop ==
    /\ DialogOpen
    /\ Erase("targets", Dialog)
    /\ frames' = Front(frames)
    /\ UNCHANGED <<classes, next, menus, messageVars, miscVars, historyVars>>

(* The call of the innermost dialog returns, those inside it are given up.  *)
EndDialog ==
    /\ \E i \in 1..Len(frames) :
          /\ frames[i].dialog
          /\ \A j \in (i + 1)..Len(frames) : ~frames[j].dialog
          /\ frames' = SubSeq(frames, 1, i - 1)
    /\ Erase("targets", Dialog)
    /\ UNCHANGED <<classes, next, menus, messageVars, miscVars, historyVars>>

-----------------------------------------------------------------------------
(* Menus and the clipboard.                                                 *)
CreateMenu ==
    /\ next.menu <= MaxMenus
    /\ next' = [next EXCEPT !.menu = @ + 1]
    /\ menus' = [menus EXCEPT !.live = @ \cup {next.menu}]
    /\ UNCHANGED <<classes, table, messageVars, miscVars, frames, historyVars>>

(* Wrong: the items of the menu are forgotten by nobody.                    *)
DestroyMenuKeepsItems(m) ==
    /\ menus' = [menus EXCEPT !.live = @ \ {m}]
    /\ UNCHANGED <<classes, table, next, messageVars, miscVars, frames, historyVars>>

(* Windows and other menus keep the handle.                                 *)
DestroyMenu(m) ==
    /\ menus' = [live |-> menus.live \ {m}, children |-> Drop(menus.children, m)]
    /\ UNCHANGED <<classes, table, next, messageVars, miscVars, frames, historyVars>>

(* Any submenu will do, 0 for an item without one.                          *)
InsertMenuItem(m, submenu, atEnd) ==
    /\ m \in menus.live
    /\ LET before == IF m \in DOMAIN menus.children THEN menus.children[m] ELSE <<>> IN
       menus' = [menus EXCEPT !.children =
                    Put(@, m, IF atEnd THEN Append(before, submenu) ELSE <<submenu>> \o before)]
    /\ UNCHANGED <<classes, table, next, messageVars, miscVars, frames, historyVars>>

SetMenu(w, m) ==
    IF m = 0 THEN EraseForWindow("menus", w)
    ELSE m \in menus.live /\ StoreForWindow("menus", w, m)

(* The data can be set and emptied whether the clipboard is open or not.    *)
ChangeClipboard(open, data) ==
    /\ clipboard' = [open |-> open, data |-> data]
    /\ UNCHANGED <<classes, table, next, menus, messageVars, focused, frames, historyVars>>

OpenClipboard == ~clipboard.open /\ ChangeClipboard(TRUE, clipboard.data)
CloseClipboard == clipboard.open /\ ChangeClipboard(FALSE, clipboard.data)
EmptyClipboard == ChangeClipboard(clipboard.open, FALSE)
SetClipboardData == ChangeClipboard(clipboard.open, TRUE)

-----------------------------------------------------------------------------
WindowCall ==
    \/ \E name \in ClassNames, visible \in BOOLEAN : CreateWindowEx(name, visible)
    \/ \E w \in Given : DestroyWindow(w)
    \/ \E w \in Given, message \in {"WM_SETTEXT", "WM_CLOSE"} : DefWindowProc(w, message)
    \/ \E w \in Handles : SetWindowText(w)
    \/ \E w \in Windows : MoveWindow(w)
    \/ \E w \in Handles, show \in BOOLEAN : ShowWindow(w, show)
    \/ \E w \in Handles, show \in BOOLEAN : SetWindowPlacement(w, show)
    \/ \E w \in Handles, show \in BOOLEAN : SetWindowPos(w, show)
    \/ \E w \in Handles, enable \in BOOLEAN : EnableWindow(w, enable)
    \/ \E w \in Handles, procedure \in Procedures : SetWindowLong(w, -4, procedure)
    \/ \E w \in Handles : SetWindowLong(w, -8, TRUE)
    \/ \E w \in Given : SetClassLong(w)
    \/ \E w \in Given : SetWindowRgn(w)
    \/ \E w \in Handles : InvalidateRect(w)
    \/ \E w \in Handles : ValidateRect(w)
    \/ \E w \in {Null} \cup Given : SetFocus(w)
    \/ \E w \in Handles : SetForegroundWindow(w)
    \/ \E w \in {Null} \cup Given : SetActiveWindow(w)

Filters == {{}} \cup {{m} : m \in Messages}

MessageCall ==
    \/ \E w \in {Null, Broadcast} \cup Handles, message \in Messages : PostMessage(w, message)
    \/ PostQuitMessage
    \/ \E filter \in Filters : GetMessage(filter)
    \/ \E filter \in Filters, remove \in BOOLEAN : PeekMessage(filter, remove)
    \/ DispatchMessage
    \/ \E w \in Given, message \in Messages : SendMessage(w, message)
    \/ \E w \in Given, message \in Messages : SendMessageTimeout(w, message)
    \/ \E procedure \in Procedures : EnumWindows(procedure)

PaintCall ==
    \/ \E which \in {Windows} \cup {{w} : w \in Windows}, i, v, u \in BOOLEAN :
          RedrawWindow(which, i, v, u)
    \/ \E w \in Handles : UpdateWindow(w)
    \/ \E w \in Handles : GetDC(w)
    \/ \E w \in Handles : BeginPaint(w)

DialogCall == EndDialog \/ \E procedure \in Procedures : DialogBox(procedure)

MenuCall ==
    \/ CreateMenu
    \/ \E m \in 1..(next.menu - 1) : DestroyMenu(m)
    \/ \E m \in menus.live, submenu \in 0..(next.menu - 1), atEnd \in BOOLEAN :
          InsertMenuItem(m, submenu, atEnd)
    \/ \E w \in Handles, m \in {0} \cup menus.live : SetMenu(w, m)
    \/ OpenClipboard \/ CloseClipboard \/ EmptyClipboard \/ SetClipboardData

WindowsCall ==
    /\ left.windows > 0
    /\ left' = [left EXCEPT !.windows = @ - 1]
    /\ WindowCall \/ MessageCall \/ PaintCall \/ DialogCall \/ MenuCall

WindowsNext ==
    \/ WindowsCall
    \/ CallbackReturns
    \/ \E name \in ClassNames, procedure \in Procedures :
          RegisterClass(name, procedure) /\ UNCHANGED left

-----------------------------------------------------------------------------
(* Every variable has its type.                                             *)
WindowsTypeOK ==
    /\ next \in [window: 1..(MaxWindows + 1), dc: 1..(MaxWindows + 1), menu: 1..(MaxMenus + 1)]
    /\ DOMAIN classes \subseteq {Lower(name) : name \in ClassNames}
    /\ DOMAIN table = Tables
    /\ \A t \in Tables : DOMAIN table[t] \subseteq Given
    /\ menus.live \subseteq 1..MaxMenus /\ DOMAIN menus.children \subseteq menus.live
    /\ Len(messages) <= posted /\ posted \in 0..MaxPosts
    /\ \A i \in 1..Len(frames) : frames[i].dialog \in BOOLEAN /\ frames[i].callbacks # <<>>
    /\ focused \in {Null} \cup Given

(* What is kept for windows is kept for live ones, whatever is called on    *)
(* stale handles from window procedures that still run (class longs and     *)
(* regions excepted); and a live window has what later calls rely on: a     *)
(* title, a placement and a procedure (remove_window, BeginPaint).          *)
TablesMatchWindows ==
    /\ \A t \in Tables \ {"classLongs", "regions", "targets"} : DOMAIN table[t] \subseteq Windows
    /\ DOMAIN table.targets \subseteq Windows \cup {Dialog}
    /\ \A t \in {"titles", "placements", "longs", "targets"} : Windows \subseteq DOMAIN table[t]

(* A message in the queue, or held by the guest, for a live window was      *)
(* posted to that very window, not to one that had its handle before.       *)
MessagesReachTheirWindow ==
    \A m \in Range(messages) \cup {held} : IsWindow(m.window) => born[m.window] < m.number

(* No message is lost, handed out twice or overtaken by one with the same   *)
(* filter, however filters, peeks and removals are mixed.                   *)
QueueInOrder ==
    /\ \A i, j \in 1..Len(messages) : i < j => messages[i].number < messages[j].number
    /\ delivered \cap {m.number : m \in Range(messages)} = {}
    /\ delivered \cup {m.number : m \in Range(messages)} = 1..posted

(* A DC handle is never the DC of two windows, at once or one after the     *)
(* other: what is drawn with the DC of a destroyed window goes nowhere.     *)
DcsBelongToOneWindow == \A w \in DOMAIN table.dcs : dcOwner[table.dcs[w]] = w

(* While a dialog is open its commands can be dispatched to its procedure,  *)
(* whatever is done to windows, unless the guest destroys the handle of the *)
(* dialog: remove_window asks for no window and takes the procedure.  (A    *)
(* guest that nests dialogs loses it with the inner EndDialog as well.)     *)
OpenDialogHasProcedure == DialogOpen /\ ~dropped => Dialog \in DOMAIN table.targets

(* The tables of the windows agree with each other, whatever procedures do  *)
(* to the windows of the calls they run in.                                 *)
WindowsCoherent == TablesMatchWindows /\ DcsBelongToOneWindow /\ OpenDialogHasProcedure

(* Messages arrive at the windows they were posted to, once and in order.   *)
MessagesArrive == MessagesReachTheirWindow /\ QueueInOrder
=============================================================================
