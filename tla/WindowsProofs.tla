--------------------------- MODULE WindowsProofs ----------------------------
(***************************************************************************)
(* Proofs about Windows and Gdi: what the tables, the message queue, the    *)
(* dialogs and the selections promise, for every number of windows, menus,  *)
(* messages, suspended calls and objects.                                   *)
(***************************************************************************)
EXTENDS Gdi, FiniteSetTheorems, SequenceTheorems, TLAPS

-----------------------------------------------------------------------------
(* The invariant, part by part: what keeps the tables of windows together,  *)
(* and with them the handles that have been given out ...                   *)
Tabled ==
    /\ DOMAIN table = Tables
    /\ TablesMatchWindows
    /\ Windows \subseteq Handles
    /\ DOMAIN table["classLongs"] \subseteq Given /\ DOMAIN table["regions"] \subseteq Given

Counted ==
    /\ next \in [window: 1..(MaxWindows + 1), dc: Nat \ {0}, menu: 1..(MaxMenus + 1)]
    /\ DOMAIN classes \subseteq {Lower(name) : name \in ClassNames}
    /\ focused \in {Null} \cup Given

(* ... each window DC has one owner, and a window that lives no other DC ... *)
Owned ==
    /\ DOMAIN dcOwner = 1..(next.dc - 1)
    /\ \A n \in DOMAIN dcOwner : dcOwner[n] \in Handles
    /\ \A n \in DOMAIN dcOwner : IsWindow(dcOwner[n]) =>
          dcOwner[n] \in DOMAIN table.dcs /\ table.dcs[dcOwner[n]] = n
    /\ \A w \in DOMAIN table.dcs : table.dcs[w] \in DOMAIN dcOwner /\ dcOwner[table.dcs[w]] = w
    /\ \A m, n \in DOMAIN dcOwner : dcOwner[m] = dcOwner[n] => m = n

(* ... a message is addressed to nobody, to all, to a dialog or to a window *)
(* that was there when it was posted ...                                    *)
Addressed(m) ==
    m.window \in {Null, Broadcast, Dialog} \/ (m.window \in Handles /\ born[m.window] < m.number)

Born ==
    /\ posted \in 0..MaxPosts
    /\ DOMAIN born = Handles
    /\ \A w \in Handles : born[w] \in 0..posted

Letters == [window: Int, message: Messages \cup {Quit, Command}, number: Nat]

Mailed ==
    /\ messages \in Seq(Letters) /\ held \in Letters
    /\ \A i \in 1..Len(messages) : Addressed(messages[i])
    /\ Addressed(held)

Queued ==
    /\ \A i, j \in 1..Len(messages) : i < j => messages[i].number < messages[j].number
    /\ \A i \in 1..Len(messages) : messages[i].number \notin delivered
    /\ \A i \in 1..Len(messages) : messages[i].number \in 1..posted
    /\ delivered \subseteq 1..posted
    /\ \A n \in 1..posted : n \in delivered \/ \E i \in 1..Len(messages) : messages[i].number = n

(* ... a suspended call has callbacks left, and the procedure of the one    *)
(* dialog that is open is known ...                                         *)
Frames(C) == [dialog: BOOLEAN, callbacks: C \ {<<>>}]

Framed == \E C : frames \in Seq(Frames(C))

OneDialog ==
    /\ \A i, j \in 1..Len(frames) : frames[i].dialog /\ frames[j].dialog => i = j
    /\ OpenDialogHasProcedure

(* ... and menus keep items only while they live.                           *)
Menued ==
    /\ DOMAIN menus = {"live", "children"}
    /\ menus.live \subseteq 1..(next.menu - 1)
    /\ DOMAIN menus.children \subseteq menus.live

WindowsInv ==
    /\ Tabled /\ Counted /\ Owned
    /\ Born /\ Mailed /\ Queued
    /\ Framed /\ (NestDialogs \/ OneDialog)
    /\ Menued

(* The GDI objects and DCs.                                                 *)
Drawn ==
    /\ nextObject \in Nat \ {0} /\ nextMemoryDc \in Nat \ {0}
    /\ objects \subseteq SeenObjects
    /\ memoryDcs \subseteq {MemoryDc(n) : n \in 1..(nextMemoryDc - 1)}
    /\ DOMAIN selected \subseteq SeenDcs /\ attributes \subseteq SeenDcs
    /\ \A dc \in DOMAIN selected : selected[dc] \in {Stock} \cup SeenObjects
    /\ selectedLive \subseteq DOMAIN selected
    /\ shown \subseteq Handles
    /\ SelectionsHold

Inv == WindowsInv /\ Drawn
-----------------------------------------------------------------------------
(* The tables.  What a call may do to them without harm to the rest: no     *)
(* window appears, and the dialog keeps its procedure.                      *)
Harmless ==
    /\ Windows' \subseteq Windows
    /\ Dialog \in DOMAIN table.targets => Dialog \in DOMAIN table'.targets

HandlesStay == next'.window = next.window /\ next'.dc = next.dc /\ dcOwner' = dcOwner

(* A table that holds the windows' own may be written for a live window;    *)
(* class longs and regions for any handle, and a procedure for the dialog.  *)
LEMMA StoreIsSound ==
    ASSUME Tabled, Owned, HandlesStay, NEW name \in Tables \ {"windows", "dcs"}, NEW w, NEW v,
           Store(name, w, v),
           \/ IsWindow(w)
           \/ w \in Given /\ name \in {"classLongs", "regions"}
           \/ w = Dialog /\ name = "targets"
    PROVE  Tabled' /\ Owned' /\ Harmless
<1>1. DOMAIN table' = Tables /\ \A t \in Tables :
         table'[t] = IF t = name THEN Put(table[t], w, v) ELSE table[t]
  BY DEF Store, Tabled
<1>2. \A t \in Tables : DOMAIN table'[t] = IF t = name THEN DOMAIN table[t] \cup {w}
                                           ELSE DOMAIN table[t]
  BY <1>1 DEF Put, Drop
<1>3. table'["windows"] = table["windows"] /\ table'["dcs"] = table["dcs"]
  BY <1>1 DEF Tables
<1>4. Windows' = Windows /\ Handles' = Handles
  BY <1>3 DEF Windows, Handles, HandlesStay
<1>5. Tabled'
  <2>1. \A t \in Tables \ {"classLongs", "regions", "targets"} : DOMAIN table'[t] \subseteq Windows
    BY <1>2 DEF Tabled, TablesMatchWindows, IsWindow, Tables, Handles, Dialog
  <2>2. DOMAIN table'["targets"] \subseteq Windows \cup {Dialog}
    BY <1>2 DEF Tabled, TablesMatchWindows, IsWindow, Tables, Handles, Dialog
  <2>3. \A t \in {"titles", "placements", "longs", "targets"} : Windows \subseteq DOMAIN table'[t]
    BY <1>2 DEF Tabled, TablesMatchWindows, Tables
  <2>4. DOMAIN table'["classLongs"] \subseteq Given /\ DOMAIN table'["regions"] \subseteq Given
    BY <1>2 DEF Tabled, IsWindow, Tables, Given
  <2> QED BY <1>1, <1>4, <2>1, <2>2, <2>3, <2>4 DEF Tabled, TablesMatchWindows, Given
<1>6. Owned'
  BY <1>3, <1>4 DEF Owned, IsWindow, HandlesStay
<1>7. Harmless
  BY <1>2, <1>4 DEF Harmless, Tables
<1> QED BY <1>5, <1>6, <1>7

(* What no window has to have may be taken from any handle, its procedure   *)
(* from the dialog.                                                         *)
LEMMA EraseIsSound ==
    ASSUME Tabled, Owned, HandlesStay, NEW name \in Tables, NEW w, Erase(name, w),
           \/ name \in {"visible", "disabled", "invalidated", "menus"}
           \/ name = "targets" /\ w = Dialog
    PROVE  Tabled' /\ Owned' /\ (w # Dialog => Harmless) /\ Windows' = Windows
<1>1. DOMAIN table' = Tables /\ \A t \in Tables :
         table'[t] = IF t = name THEN Drop(table[t], w) ELSE table[t]
  BY DEF Erase, Tabled
<1>2. \A t \in Tables : DOMAIN table'[t] = IF t = name THEN DOMAIN table[t] \ {w}
                                           ELSE DOMAIN table[t]
  BY <1>1 DEF Put, Drop
<1>3. table'["windows"] = table["windows"] /\ table'["dcs"] = table["dcs"]
  BY <1>1 DEF Tables
<1>4. Windows' = Windows /\ Handles' = Handles
  BY <1>3 DEF Windows, Handles, HandlesStay
<1>5. Dialog \notin Windows
  BY DEF Tabled, Handles, Dialog
<1>6. Tabled'
  BY <1>1, <1>2, <1>4, <1>5 DEF Tabled, TablesMatchWindows, Tables, Given
<1>7. Owned'
  BY <1>3, <1>4 DEF Owned, IsWindow, HandlesStay
<1>8. w # Dialog => Harmless
  BY <1>2, <1>4 DEF Harmless, Tables
<1> QED BY <1>4, <1>6, <1>7, <1>8

(* A handle takes all that is kept for it along: a window its tables, the   *)
(* handle of a dialog its procedure.                                        *)
LEMMA RemovalIsSound ==
    ASSUME Tabled, Owned, HandlesStay, NEW w \in Given, RemoveWindow(w)
    PROVE  Tabled' /\ Owned' /\ (w # Dialog => Harmless)
<1>1. DOMAIN table' = Tables /\ \A t \in Tables : table'[t] = Drop(table[t], w)
  BY DEF RemoveWindow
<1>2. \A t \in Tables : DOMAIN table'[t] = DOMAIN table[t] \ {w}
  BY <1>1 DEF Put, Drop
<1>3. Windows' = Windows \ {w} /\ Handles' = Handles
  BY <1>2 DEF Windows, Handles, HandlesStay, Tables
<1>4. Tabled'
  BY <1>1, <1>2, <1>3 DEF Tabled, TablesMatchWindows, Tables, Given
<1>5. /\ DOMAIN table'["dcs"] = DOMAIN table["dcs"] \ {w}
      /\ \A v \in DOMAIN table'["dcs"] : table'["dcs"][v] = table["dcs"][v]
  BY <1>1, <1>2 DEF Drop, Tables
<1>6. Owned'
  BY <1>3, <1>5 DEF Owned, IsWindow, HandlesStay
<1>7. w # Dialog => Harmless
  BY <1>2, <1>3 DEF Harmless, Tables
<1> QED BY <1>4, <1>6, <1>7

LEMMA ShowIsSound ==
    ASSUME Tabled, Owned, HandlesStay, NEW w, NEW show, IsWindow(w),
           table' = [table EXCEPT !.placements[w] = show,
                                  !.visible = IF show THEN Put(@, w, TRUE) ELSE Drop(@, w)]
    PROVE  Tabled' /\ Owned' /\ Harmless
<1>1. /\ DOMAIN table' = Tables
      /\ \A t \in Tables : CASE t = "placements" -> table'[t] = [table[t] EXCEPT ![w] = show]
           [] t = "visible" -> table'[t] = IF show THEN Put(table[t], w, TRUE) ELSE Drop(table[t], w)
           [] OTHER -> table'[t] = table[t]
  BY DEF Tabled, Tables
<1>2. /\ \A t \in Tables \ {"visible"} : DOMAIN table'[t] = DOMAIN table[t]
      /\ DOMAIN table'["visible"] \subseteq DOMAIN table["visible"] \cup {w}
  BY <1>1 DEF Put, Drop, Tables
<1>3. table'["windows"] = table["windows"] /\ table'["dcs"] = table["dcs"]
  BY <1>1 DEF Tables
<1>4. Windows' = Windows /\ Handles' = Handles
  BY <1>3 DEF Windows, Handles, HandlesStay
<1>5. Tabled'
  <2>1. w \in Windows
    BY DEF IsWindow
  <2>2. \A t \in Tables : DOMAIN table'[t] \subseteq DOMAIN table[t] \cup {w}
    BY <1>2
  <2>3. \A t \in Tables \ {"visible"} : DOMAIN table'[t] = DOMAIN table[t]
    BY <1>2
  <2>4. TablesMatchWindows'
    <3>1. \A t \in Tables \ {"classLongs", "regions", "targets"} : DOMAIN table[t] \subseteq Windows
      BY DEF Tabled, TablesMatchWindows
    <3>2. \A t \in Tables \ {"classLongs", "regions", "targets"} : DOMAIN table'[t] \subseteq Windows
      BY <2>1, <2>2, <3>1
    <3>3. \A t \in {"titles", "placements", "longs", "targets"} : DOMAIN table'[t] = DOMAIN table[t]
      BY <2>3 DEF Tables
    <3> QED BY <1>4, <3>2, <3>3 DEF Tabled, TablesMatchWindows
  <2>5. DOMAIN table'["classLongs"] = DOMAIN table["classLongs"]
        /\ DOMAIN table'["regions"] = DOMAIN table["regions"]
    BY <2>3 DEF Tables
  <2> QED BY <1>1, <1>4, <2>4, <2>5 DEF Tabled, Given
<1>6. Owned'
  BY <1>3, <1>4 DEF Owned, IsWindow, HandlesStay
<1>7. Harmless
  BY <1>2, <1>4 DEF Harmless, Tables
<1> QED BY <1>5, <1>6, <1>7

LEMMA RedrawIsSound ==
    ASSUME Tabled, Owned, HandlesStay, NEW kept \in SUBSET Windows,
           table' = [table EXCEPT !.invalidated = [w \in kept |-> TRUE]]
    PROVE  Tabled' /\ Owned' /\ Harmless
<1>1. DOMAIN table' = Tables /\ \A t \in Tables :
         table'[t] = IF t = "invalidated" THEN [w \in kept |-> TRUE] ELSE table[t]
  BY DEF Tabled, Tables
<1>2. \A t \in Tables : DOMAIN table'[t] = IF t = "invalidated" THEN kept ELSE DOMAIN table[t]
  BY <1>1
<1>3. table'["windows"] = table["windows"] /\ table'["dcs"] = table["dcs"]
  BY <1>1 DEF Tables
<1>4. Windows' = Windows /\ Handles' = Handles
  BY <1>3 DEF Windows, Handles, HandlesStay
<1>5. Tabled'
  BY <1>1, <1>2, <1>4 DEF Tabled, TablesMatchWindows, Tables, Given
<1>6. Owned'
  BY <1>3, <1>4 DEF Owned, IsWindow, HandlesStay
<1>7. Harmless
  BY <1>2, <1>4 DEF Harmless, Tables
<1> QED BY <1>5, <1>6, <1>7

(* The DC of a window that has none is new, and no window is its owner yet. *)
LEMMA DcIsSound ==
    ASSUME Tabled, Counted, Owned, NEW w, NEW invalidated, WindowDc(w, invalidated),
           DOMAIN invalidated \subseteq DOMAIN table.invalidated
    PROVE  /\ Tabled' /\ Owned' /\ Harmless
           /\ next'.window = next.window /\ next'.menu = next.menu
           /\ next'.dc \in {next.dc, next.dc + 1}
           /\ next' \in [window: 1..(MaxWindows + 1), dc: Nat \ {0}, menu: 1..(MaxMenus + 1)]
<1> DEFINE fresh == w \notin DOMAIN table["dcs"]
<1>1. /\ IsWindow(w)
      /\ DOMAIN table' = Tables
      /\ \A t \in Tables : CASE t = "invalidated" -> table'[t] = invalidated
           [] t = "dcs" -> table'[t] = IF fresh THEN Put(table[t], w, next.dc) ELSE table[t]
           [] OTHER -> table'[t] = table[t]
  BY DEF WindowDc, Tabled, Tables, NewWindowDc
<1>2. /\ next'.window = next.window /\ next'.menu = next.menu
      /\ next'.dc = IF fresh THEN next.dc + 1 ELSE next.dc
      /\ next' \in [window: 1..(MaxWindows + 1), dc: Nat \ {0}, menu: 1..(MaxMenus + 1)]
  BY DEF WindowDc, Counted
<1>3. dcOwner' = IF fresh THEN Put(dcOwner, next.dc, w) ELSE dcOwner
  BY DEF WindowDc, NewWindowDc, Owned, Counted
<1>4. /\ \A t \in Tables \ {"dcs"} : DOMAIN table'[t] \subseteq DOMAIN table[t]
      /\ \A t \in Tables \ {"dcs", "invalidated"} : DOMAIN table'[t] = DOMAIN table[t]
      /\ DOMAIN table'["dcs"] = DOMAIN table["dcs"] \cup {w}
      /\ \A v \in DOMAIN table'["dcs"] :
            table'["dcs"][v] = IF fresh /\ v = w THEN next.dc ELSE table["dcs"][v]
  BY <1>1 DEF Tables, Put
<1>5. Windows' = Windows /\ Handles' = Handles
  BY <1>2, <1>4 DEF Windows, Handles, Tables
<1>6. Tabled'
  BY <1>1, <1>4, <1>5 DEF Tabled, TablesMatchWindows, Tables, IsWindow, Given
<1>7. Owned'
  <2>1. CASE ~fresh
    BY <2>1, <1>2, <1>3, <1>4, <1>5 DEF Owned, IsWindow
  <2>2. CASE fresh
    <3>1. /\ DOMAIN dcOwner' = DOMAIN dcOwner \cup {next.dc}
          /\ \A n \in DOMAIN dcOwner' : dcOwner'[n] = IF n = next.dc THEN w ELSE dcOwner[n]
      BY <1>3, <2>2 DEF Put
    <3>2. next.dc \in Nat \ {0} /\ next.dc \notin DOMAIN dcOwner
      BY DEF Counted, Owned
    <3>3. DOMAIN dcOwner' = 1..(next'.dc - 1)
      BY <1>2, <2>2, <3>1, <3>2 DEF Owned
    <3>4. w \in Handles /\ \A n \in DOMAIN dcOwner : dcOwner[n] # w
      BY <1>1, <2>2 DEF Owned, Tabled, IsWindow
    <3>5. /\ \A n \in DOMAIN dcOwner' : dcOwner'[n] \in Handles
          /\ \A m, n \in DOMAIN dcOwner' : dcOwner'[m] = dcOwner'[n] => m = n
      BY <3>1, <3>2, <3>4 DEF Owned
    <3>6. \A n \in DOMAIN dcOwner' : IsWindow(dcOwner'[n]) =>
             dcOwner'[n] \in DOMAIN table'["dcs"] /\ table'["dcs"][dcOwner'[n]] = n
      BY <1>4, <2>2, <3>1, <3>2, <3>4 DEF Owned, IsWindow
    <3>7. \A v \in DOMAIN table'["dcs"] :
             table'["dcs"][v] \in DOMAIN dcOwner' /\ dcOwner'[table'["dcs"][v]] = v
      BY <1>4, <2>2, <3>1, <3>2, <3>4 DEF Owned
    <3> QED BY <1>5, <3>3, <3>5, <3>6, <3>7 DEF Owned, IsWindow
  <2> QED BY <2>1, <2>2
<1>8. Harmless
  BY <1>4, <1>5 DEF Harmless, Tables
<1> QED BY <1>2, <1>6, <1>7, <1>8

(* A new window has a handle no window had, so nothing is kept for it yet.  *)
LEMMA CreationIsSound ==
    ASSUME WindowsInv, NEW name \in ClassNames, NEW visible \in BOOLEAN,
           CreateWindowEx(name, visible)
    PROVE  /\ Tabled' /\ Owned' /\ Windows' = Windows \cup {next.window}
           /\ Dialog \in DOMAIN table.targets => Dialog \in DOMAIN table'.targets
           /\ next' \in [window: 1..(MaxWindows + 1), dc: Nat \ {0}, menu: 1..(MaxMenus + 1)]
           /\ next'.window = next.window + 1 /\ next'.menu = next.menu /\ next'.dc = next.dc
           /\ Handles' = Handles \cup {next.window} /\ next.window \notin Handles
<1> DEFINE stored == {"windows", "titles", "placements", "longs", "targets"}
                       \cup (IF visible THEN {"visible", "invalidated"} ELSE {})
           w == next.window
<1>1. /\ DOMAIN table' = Tables
      /\ \A t \in Tables : DOMAIN table'[t] = IF t \in stored THEN DOMAIN table[t] \cup {w}
                                              ELSE DOMAIN table[t]
      /\ table'["dcs"] = table["dcs"]
  BY DEF CreateWindowEx, NewHandle, Put, Tables
<1>2. /\ next' \in [window: 1..(MaxWindows + 1), dc: Nat \ {0}, menu: 1..(MaxMenus + 1)]
      /\ next'.window = w + 1 /\ next'.menu = next.menu /\ next'.dc = next.dc /\ dcOwner' = dcOwner
  BY WindowsAssumption DEF CreateWindowEx, WindowsInv, Counted
<1>3. Handles' = Handles \cup {w} /\ w \notin Handles
  BY <1>2 DEF Handles, WindowsInv, Counted
<1>4. Windows' = Windows \cup {w}
  BY <1>1 DEF Windows, Tables
<1>5. Tabled'
  BY <1>1, <1>3, <1>4 DEF Tabled, TablesMatchWindows, Tables, WindowsInv, Given
<1>6. Owned'
  BY <1>1, <1>2, <1>3, <1>4 DEF Owned, IsWindow, WindowsInv
<1>7. Dialog \in DOMAIN table.targets => Dialog \in DOMAIN table'.targets
  BY <1>1 DEF Tables
<1> QED BY <1>2, <1>3, <1>4, <1>5, <1>6, <1>7

-----------------------------------------------------------------------------
(* The messages.                                                            *)
PostOK == Born /\ Mailed /\ Queued

LEMMA MailStays ==
    ASSUME PostOK, UNCHANGED <<messageVars, born>>, next'.window = next.window
    PROVE  PostOK'
<1>1. Handles' = Handles
  BY DEF Handles
<1>2. \A m : Addressed(m) <=> Addressed(m)'
  BY <1>1 DEF Addressed
<1>3. Born'
  BY <1>1 DEF PostOK, Born, messageVars
<1>4. Mailed'
  BY <1>2 DEF PostOK, Mailed, messageVars
<1>5. Queued'
  BY DEF PostOK, Queued, messageVars
<1> QED BY <1>3, <1>4, <1>5 DEF PostOK

(* Messages that are under way are older than a window that is made now.    *)
LEMMA MailSurvivesCreation ==
    ASSUME PostOK, UNCHANGED messageVars, next'.window = next.window + 1,
           next.window \in Nat \ {0}, born' = Put(born, next.window, posted)
    PROVE  PostOK'
<1>1. Handles' = Handles \cup {next.window} /\ next.window \notin Handles
  BY DEF Handles
<1>2. \A w \in Handles' : born'[w] = IF w = next.window THEN posted ELSE born[w]
  BY <1>1 DEF Put, PostOK, Born
<1>3. \A m : Addressed(m) => Addressed(m)'
  BY <1>1, <1>2 DEF Addressed
<1>4. Born'
  BY <1>1, <1>2 DEF PostOK, Born, messageVars, Put
<1>5. Mailed'
  BY <1>3 DEF PostOK, Mailed, messageVars
<1>6. Queued'
  BY DEF PostOK, Queued, messageVars
<1> QED BY <1>4, <1>5, <1>6 DEF PostOK

LEMMA AppendFacts ==
    ASSUME NEW S, NEW s \in Seq(S), NEW x \in S
    PROVE  /\ Append(s, x) \in Seq(S) /\ Len(Append(s, x)) = Len(s) + 1
           /\ \A i \in 1..Len(s) : Append(s, x)[i] = s[i]
           /\ Append(s, x)[Len(s) + 1] = x
OBVIOUS

LEMMA PostIsSound ==
    ASSUME PostOK, UNCHANGED <<held, delivered, born>>, next'.window = next.window,
           NEW window, window \in {Null, Broadcast, Dialog} \cup Handles,
           NEW message \in Messages \cup {Quit, Command}, Post(window, message)
    PROVE  PostOK'
<1> DEFINE letter == [window |-> window, message |-> message, number |-> posted + 1]
           n == Len(messages)
<1>1. /\ posted < MaxPosts /\ posted' = posted + 1 /\ messages' = Append(messages, letter)
      /\ posted \in Nat /\ MaxPosts \in Nat
  BY WindowsAssumption DEF Post, PostOK, Born
<1>2. letter \in Letters
  BY <1>1 DEF Letters, Null, Broadcast, Dialog, Handles
<1>3. messages \in Seq(Letters) /\ n \in Nat
  BY DEF PostOK, Mailed
<1>4. /\ messages' \in Seq(Letters) /\ Len(messages') = n + 1
      /\ \A i \in 1..n : messages'[i] = messages[i]
      /\ messages'[n + 1] = letter
  BY <1>1, <1>2, <1>3, AppendFacts
<1>5. Handles' = Handles
  BY DEF Handles
<1>6. \A m : Addressed(m) <=> Addressed(m)'
  BY <1>5 DEF Addressed
<1>7. Addressed(letter)
  BY <1>1 DEF Addressed, PostOK, Born
<1>8. Born'
  BY <1>1, <1>5 DEF PostOK, Born
<1>9. \A i \in 1..(n + 1) : i \in 1..n \/ i = n + 1
  BY <1>3
<1>10. Mailed'
  BY <1>3, <1>4, <1>6, <1>7, <1>9 DEF PostOK, Mailed
<1>11. Queued'
  <2>1. letter.number = posted + 1 /\ posted' = posted + 1
    BY <1>1
  <2>2. \A i \in 1..n : messages'[i].number \in 1..posted /\ messages'[i].number \notin delivered
    BY <1>4 DEF PostOK, Queued
  <2>3. \A i, j \in 1..(n + 1) : i < j => messages'[i].number < messages'[j].number
    <3> SUFFICES ASSUME NEW i \in 1..(n + 1), NEW j \in 1..(n + 1), i < j
                 PROVE  messages'[i].number < messages'[j].number
      OBVIOUS
    <3>1. i \in 1..n
      BY <1>3
    <3>2. CASE j \in 1..n
      BY <3>1, <3>2, <1>4 DEF PostOK, Queued
    <3>3. CASE j = n + 1
      BY <3>1, <3>3, <2>1, <2>2, <1>1, <1>4
    <3> QED BY <3>2, <3>3, <1>9
  <2>4. /\ \A i \in 1..(n + 1) : messages'[i].number \in 1..(posted + 1)
        /\ \A i \in 1..(n + 1) : messages'[i].number \notin delivered
    <3>1. posted + 1 \notin delivered
      BY <1>1 DEF PostOK, Queued
    <3> QED BY <3>1, <2>1, <2>2, <1>1, <1>4, <1>9
  <2>5. delivered \subseteq 1..(posted + 1)
    BY <1>1 DEF PostOK, Queued
  <2>6. \A k \in 1..(posted + 1) : k \in delivered \/ \E i \in 1..(n + 1) : messages'[i].number = k
    <3> SUFFICES ASSUME NEW k \in 1..(posted + 1), k \notin delivered
                 PROVE  \E i \in 1..(n + 1) : messages'[i].number = k
      OBVIOUS
    <3>1. CASE k = posted + 1
      BY <3>1, <2>1, <1>3, <1>4
    <3>2. CASE k # posted + 1
      <4>1. PICK i \in 1..n : messages[i].number = k
        BY <3>2, <1>1 DEF PostOK, Queued
      <4> QED BY <4>1, <1>3, <1>4
    <3> QED BY <3>1, <3>2
  <2> QED BY <1>1, <1>4, <2>3, <2>4, <2>5, <2>6 DEF Queued
<1> QED BY <1>8, <1>10, <1>11 DEF PostOK

LEMMA RemoveAtFacts ==
    ASSUME NEW S, NEW s \in Seq(S), NEW i \in 1..Len(s)
    PROVE  /\ RemoveAt(s, i) \in Seq(S) /\ Len(RemoveAt(s, i)) = Len(s) - 1
           /\ \A j \in 1..(Len(s) - 1) : RemoveAt(s, i)[j] = IF j < i THEN s[j] ELSE s[j + 1]
<1> DEFINE a == SubSeq(s, 1, i - 1)
           b == SubSeq(s, i + 1, Len(s))
<1>1. RemoveAt(s, i) = a \o b
  BY DEF RemoveAt
<1>2. a \in Seq(S) /\ Len(a) = i - 1 /\ \A j \in 1..(i - 1) : a[j] = s[j]
  OBVIOUS
<1>3. b \in Seq(S) /\ Len(b) = Len(s) - i /\ \A j \in 1..(Len(s) - i) : b[j] = s[i + j]
  OBVIOUS
<1> HIDE DEF a, b
<1>4. a \o b \in Seq(S) /\ Len(a \o b) = Len(s) - 1
  <2>1. a \o b \in Seq(S) /\ Len(a \o b) = Len(a) + Len(b)
    BY <1>2, <1>3, ConcatProperties
  <2>2. Len(s) \in Nat /\ i \in Int
    OBVIOUS
  <2> QED BY <2>1, <2>2, <1>2, <1>3
<1>5. ASSUME NEW j \in 1..(Len(s) - 1)
      PROVE  (a \o b)[j] = IF j < i THEN s[j] ELSE s[j + 1]
  <2>1. CASE j < i
    BY <2>1, <1>2, <1>3
  <2>2. CASE ~(j < i)
    <3>1. (a \o b)[j] = b[j - (i - 1)]
      BY <2>2, <1>2, <1>3
    <3>2. j - (i - 1) \in 1..(Len(s) - i) /\ i + (j - (i - 1)) = j + 1
      BY <2>2
    <3> QED BY <2>2, <3>1, <3>2, <1>3
  <2> QED BY <2>1, <2>2
<1> QED BY <1>1, <1>4, <1>5

LEMMA NextMessageIsSound ==
    ASSUME PostOK, UNCHANGED <<posted, born>>, next'.window = next.window,
           NEW filter, NEW remove \in BOOLEAN, NextMessage(filter, remove)
    PROVE  PostOK'
<1> DEFINE n == Len(messages)
<1>1. PICK i \in 1..n :
         /\ held' = messages[i]
         /\ messages' = IF remove THEN RemoveAt(messages, i) ELSE messages
         /\ delivered' = IF remove THEN delivered \cup {messages[i].number} ELSE delivered
  BY DEF NextMessage
<1>2. Handles' = Handles
  BY DEF Handles
<1>3. \A m : Addressed(m) <=> Addressed(m)'
  BY <1>2 DEF Addressed
<1>4. Born'
  BY <1>2 DEF PostOK, Born
<1>5. messages \in Seq(Letters) /\ n \in Nat
  BY DEF PostOK, Mailed
<1>6. held' \in Letters /\ Addressed(held)'
  BY <1>1, <1>3, <1>5 DEF PostOK, Mailed
<1>7. CASE ~remove
  <2>1. Mailed'
    BY <1>1, <1>3, <1>6, <1>7 DEF PostOK, Mailed
  <2>2. Queued'
    BY <1>1, <1>7 DEF PostOK, Queued
  <2> QED BY <1>4, <2>1, <2>2 DEF PostOK
<1>8. CASE remove
  <2>1. /\ messages' \in Seq(Letters) /\ Len(messages') = n - 1
        /\ \A j \in 1..(n - 1) : messages'[j] = IF j < i THEN messages[j] ELSE messages[j + 1]
    BY <1>1, <1>5, <1>8, RemoveAtFacts
  <2>2. \A j \in 1..(n - 1) : j \in 1..n /\ j + 1 \in 1..n
    BY <1>5
  <2>3. Mailed'
    BY <2>1, <2>2, <1>3, <1>6 DEF PostOK, Mailed
  <2>4. delivered' = delivered \cup {messages[i].number} /\ messages[i].number \in 1..posted
    BY <1>1, <1>8 DEF PostOK, Queued
  <2>5. \A j \in 1..n : messages[j].number \in Nat
    BY DEF PostOK, Queued, Born
  <2>6. ASSUME NEW j \in 1..(n - 1), NEW k \in 1..(n - 1), j < k
        PROVE  messages'[j].number < messages'[k].number
    <3> DEFINE l == IF j < i THEN j ELSE j + 1
               m == IF k < i THEN k ELSE k + 1
    <3>1. l \in 1..n /\ m \in 1..n /\ l < m
      BY <2>6, <1>5
    <3>2. messages'[j] = messages[l] /\ messages'[k] = messages[m]
      BY <2>1
    <3>3. messages[l].number < messages[m].number
      BY <3>1 DEF PostOK, Queued
    <3> QED BY <3>2, <3>3
  <2>7. ASSUME NEW j \in 1..(n - 1)
        PROVE  messages'[j].number \notin delivered' /\ messages'[j].number \in 1..posted
    <3>1. PICK k \in 1..n : k # i /\ messages'[j] = messages[k]
      BY <2>1, <2>2
    <3>2. messages[k].number # messages[i].number
      BY <3>1, <2>5, <1>5 DEF PostOK, Queued
    <3> QED BY <3>1, <3>2, <2>4 DEF PostOK, Queued
  <2>8. ASSUME NEW k \in 1..posted, k \notin delivered'
        PROVE  \E j \in 1..(n - 1) : messages'[j].number = k
    <3>1. PICK l \in 1..n : messages[l].number = k
      BY <2>4, <2>8 DEF PostOK, Queued
    <3>2. l # i
      BY <2>4, <2>8, <3>1
    <3>3. CASE l < i
      <4>1. l \in 1..(n - 1)
        BY <3>3, <1>5
      <4> QED BY <4>1, <3>1, <3>3, <2>1
    <3>4. CASE l > i
      <4>1. l - 1 \in 1..(n - 1) /\ ~(l - 1 < i) /\ (l - 1) + 1 = l
        BY <3>4, <1>5
      <4> QED BY <4>1, <3>1, <2>1
    <3> QED BY <3>2, <3>3, <3>4
  <2>9. Queued'
    BY <2>1, <2>4, <2>6, <2>7, <2>8 DEF Queued, PostOK
  <2> QED BY <1>4, <2>3, <2>9 DEF PostOK
<1> QED BY <1>7, <1>8

-----------------------------------------------------------------------------
(* The suspended calls.                                                     *)
Dialogs == {i \in 1..Len(frames) : frames[i].dialog}

(* An open dialog keeps its procedure, or it is known that it does not.     *)
DialogStays ==
    \/ Dialogs = {} \/ dropped'
    \/ ~dropped /\ (Dialog \in DOMAIN table.targets => Dialog \in DOMAIN table'.targets)

LEMMA DialogsStay ==
    ASSUME OneDialog, Dialogs' \subseteq Dialogs, DialogStays
    PROVE  OneDialog'
<1>1. \A i, j \in Dialogs : i = j
  BY DEF OneDialog, Dialogs
<1>2. \A i, j \in Dialogs' : i = j
  BY <1>1
<1>3. Dialogs' # {} /\ ~dropped' => Dialog \in DOMAIN table'.targets
  BY DEF OneDialog, OpenDialogHasProcedure, DialogOpen, Dialogs, DialogStays
<1> QED BY <1>2, <1>3 DEF OneDialog, OpenDialogHasProcedure, DialogOpen, Dialogs

LEMMA SeqWidens ==
    ASSUME NEW C, NEW D, C \subseteq D, NEW s \in Seq(C)
    PROVE  s \in Seq(D)
OBVIOUS

LEMMA SuspendIsSound ==
    ASSUME Framed, NEW dialog \in BOOLEAN, NEW callbacks, Suspend(dialog, callbacks)
    PROVE  /\ Framed'
           /\ Dialogs' \subseteq Dialogs \cup {Len(frames) + 1}
           /\ ~dialog => Dialogs' \subseteq Dialogs
<1>1. PICK C : frames \in Seq(Frames(C))
  BY DEF Framed
<1>2. CASE callbacks = <<>>
  <2>1. frames' = frames
    BY <1>2 DEF Suspend
  <2> QED BY <2>1 DEF Framed, Dialogs
<1>3. CASE callbacks # <<>>
  <2> DEFINE frame == [dialog |-> dialog, callbacks |-> callbacks]
             D == C \cup {callbacks}
  <2>1. frames' = Append(frames, frame)
    BY <1>3 DEF Suspend
  <2>2. frame \in Frames(D) /\ Frames(C) \subseteq Frames(D)
    BY <1>3 DEF Frames
  <2>3. frames \in Seq(Frames(D))
    <3> HIDE DEF D
    <3> QED BY <1>1, <2>2, SeqWidens
  <2>4. /\ frames' \in Seq(Frames(D)) /\ Len(frames') = Len(frames) + 1
        /\ \A i \in 1..Len(frames) : frames'[i] = frames[i]
        /\ frames'[Len(frames) + 1] = frame
    <3> HIDE DEF frame, D
    <3> QED BY <2>1, <2>2, <2>3, AppendFacts
  <2>5. Framed'
    BY <2>4 DEF Framed
  <2>6. \A i \in 1..(Len(frames) + 1) : i \in 1..Len(frames) \/ i = Len(frames) + 1
    BY <1>1
  <2>7. frame.dialog = dialog
    OBVIOUS
  <2>8. /\ Dialogs' \subseteq Dialogs \cup {Len(frames) + 1}
        /\ ~dialog => Dialogs' \subseteq Dialogs
    <3> HIDE DEF frame, D
    <3> QED BY <2>4, <2>6, <2>7 DEF Dialogs
  <2> QED BY <2>5, <2>8
<1> QED BY <1>2, <1>3

LEMMA FrontLast ==
    ASSUME NEW S, NEW s \in Seq(S), s # <<>>
    PROVE  /\ Len(s) \in Nat \ {0} /\ Last(s) = s[Len(s)] /\ Last(s) \in S
           /\ Front(s) \in Seq(S) /\ Len(Front(s)) = Len(s) - 1
           /\ \A i \in 1..(Len(s) - 1) : Front(s)[i] = s[i]
<1>1. Len(s) \in Nat /\ Len(s) # 0
  BY EmptySeq
<1>2. Front(s) = SubSeq(s, 1, Len(s) - 1)
  BY DEF Front
<1>3. Last(s) = s[Len(s)] /\ Last(s) \in S
  BY <1>1 DEF Last
<1>4. /\ Front(s) \in Seq(S) /\ Len(Front(s)) = Len(s) - 1
      /\ \A i \in 1..(Len(s) - 1) : Front(s)[i] = s[i]
  <2>1. PICK n \in 1..Len(s) : n = Len(s)
    BY <1>1
  <2>2. Front(s) = SubSeq(s, 1, n - 1)
    BY <1>2, <2>1
  <2>3. Front(s) \in Seq(S) /\ Len(Front(s)) = n - 1 /\ \A i \in 1..(n - 1) : Front(s)[i] = s[i]
    BY <2>2
  <2> QED BY <2>1, <2>3
<1> QED BY <1>1, <1>3, <1>4

(* Whether a call is that of a dialog does not change while it is suspended.*)
LEMMA ReturnIsSound ==
    ASSUME Framed, CallbackReturns
    PROVE  Framed' /\ Dialogs' \subseteq Dialogs
<1>1. PICK C : frames \in Seq(Frames(C))
  BY DEF Framed
<1> DEFINE n == Len(frames)
           rest == Tail(Last(frames).callbacks)
           shorter == [Last(frames) EXCEPT !.callbacks = rest]
<1>2. /\ n \in Nat \ {0} /\ Last(frames) = frames[n] /\ Last(frames) \in Frames(C)
      /\ Front(frames) \in Seq(Frames(C)) /\ Len(Front(frames)) = n - 1
      /\ \A i \in 1..(n - 1) : Front(frames)[i] = frames[i]
  BY <1>1, FrontLast DEF CallbackReturns
<1>3. CASE rest = <<>>
  <2>1. frames' = Front(frames)
    BY <1>3 DEF CallbackReturns
  <2>2. Framed'
    BY <2>1, <1>2 DEF Framed
  <2>3. Dialogs' \subseteq Dialogs
    BY <2>1, <1>2 DEF Dialogs
  <2> QED BY <2>2, <2>3
<1>4. CASE rest # <<>>
  <2> DEFINE D == C \cup {rest}
  <2>1. frames' = Append(Front(frames), shorter)
    BY <1>4 DEF CallbackReturns
  <2>2. shorter \in Frames(D) /\ Frames(C) \subseteq Frames(D)
    BY <1>2, <1>4 DEF Frames
  <2>3. Front(frames) \in Seq(Frames(D))
    <3> HIDE DEF D
    <3> QED BY <1>2, <2>2, SeqWidens
  <2>4. shorter.dialog = frames[n].dialog
    BY <1>2 DEF Frames
  <2>5. /\ frames' \in Seq(Frames(D)) /\ Len(frames') = (n - 1) + 1
        /\ \A i \in 1..(n - 1) : frames'[i] = frames[i]
        /\ frames'[(n - 1) + 1] = shorter
    <3> HIDE DEF shorter, D
    <3> QED BY <2>1, <2>2, <2>3, <1>2, AppendFacts
  <2>6. Framed'
    BY <2>5 DEF Framed
  <2>7. \A i \in 1..n : i \in 1..(n - 1) \/ i = (n - 1) + 1
    BY <1>2
  <2>8. Dialogs' \subseteq Dialogs
    <3> HIDE DEF shorter, D
    <3> QED BY <2>4, <2>5, <2>7, <1>2 DEF Dialogs
  <2> QED BY <2>6, <2>8
<1> QED BY <1>3, <1>4

(* EndDialog gives up the call of the innermost dialog and those inside it. *)
LEMMA EndIsSound ==
    ASSUME Framed, EndDialog
    PROVE  /\ Framed'
           /\ \E i \in Dialogs : Dialogs' \subseteq Dialogs \ {i}
<1>1. PICK C : frames \in Seq(Frames(C))
  BY DEF Framed
<1>2. PICK i \in 1..Len(frames) : frames[i].dialog /\ frames' = SubSeq(frames, 1, i - 1)
  BY DEF EndDialog
<1>3. /\ frames' \in Seq(Frames(C)) /\ Len(frames') = i - 1
      /\ \A j \in 1..(i - 1) : frames'[j] = frames[j] /\ j \in 1..Len(frames) /\ j # i
  BY <1>1, <1>2
<1>4. Framed'
  BY <1>3 DEF Framed
<1>5. i \in Dialogs /\ Dialogs' \subseteq Dialogs \ {i}
  BY <1>2, <1>3 DEF Dialogs
<1> QED BY <1>4, <1>5

-----------------------------------------------------------------------------
(* Each call of the guest keeps the invariant, and takes no handle back.    *)
HandlesGrow == Handles \subseteq Handles' /\ next.dc <= next'.dc

Sound == WindowsInv' /\ HandlesGrow

(* Calls that change the tables and nothing else.                           *)
LEMMA TableCallIsSound ==
    ASSUME WindowsInv, Tabled', Owned', Harmless,
           UNCHANGED <<classes, next, menus, messageVars, miscVars, frames, historyVars>>
    PROVE  Sound
<1>1. PostOK'
  BY MailStays DEF WindowsInv, PostOK, historyVars
<1>2. Counted' /\ Menued' /\ HandlesGrow
  BY DEF WindowsInv, Counted, Menued, HandlesGrow, Given, Handles, miscVars
<1>3. Framed' /\ Dialogs' = Dialogs
  BY DEF WindowsInv, Framed, Dialogs
<1>4. NestDialogs \/ OneDialog'
  BY <1>3, DialogsStay DEF WindowsInv, Harmless, DialogStays, historyVars
<1> QED BY <1>1, <1>2, <1>3, <1>4 DEF Sound, WindowsInv, PostOK

LEMMA StoreForWindowIsSound ==
    ASSUME WindowsInv, NEW name \in Tables \ {"windows", "dcs"}, NEW w, NEW v,
           StoreForWindow(name, w, v)
    PROVE  Sound
<1>1. HandlesStay /\ IsWindow(w) /\ Store(name, w, v)
  BY DEF StoreForWindow, HandlesStay, historyVars
<1>2. Tabled' /\ Owned' /\ Harmless
  BY <1>1, StoreIsSound DEF WindowsInv
<1> QED BY <1>2, TableCallIsSound DEF StoreForWindow

LEMMA EraseForWindowIsSound ==
    ASSUME WindowsInv, NEW name \in {"visible", "disabled", "invalidated", "menus"}, NEW w,
           EraseForWindow(name, w)
    PROVE  Sound
<1>1. HandlesStay /\ IsWindow(w) /\ Erase(name, w)
  BY DEF EraseForWindow, HandlesStay, historyVars
<1>2. w # Dialog /\ name \in Tables
  BY <1>1 DEF WindowsInv, Tabled, IsWindow, Handles, Dialog, Tables
<1>3. Tabled' /\ Owned' /\ Harmless
  BY <1>1, <1>2, EraseIsSound DEF WindowsInv
<1> QED BY <1>3, TableCallIsSound DEF EraseForWindow

LEMMA StoreUncheckedIsSound ==
    ASSUME WindowsInv, NEW name \in {"classLongs", "regions"}, NEW w \in Given,
           StoreUnchecked(name, w)
    PROVE  Sound
<1>1. HandlesStay /\ Store(name, w, TRUE) /\ name \in Tables \ {"windows", "dcs"}
  BY DEF StoreUnchecked, HandlesStay, historyVars, Tables
<1>2. Tabled' /\ Owned' /\ Harmless
  BY <1>1, StoreIsSound DEF WindowsInv
<1> QED BY <1>2, TableCallIsSound DEF StoreUnchecked

LEMMA DestroyIsSound ==
    ASSUME WindowsInv, NEW w \in Given, DestroyWindow(w)
    PROVE  Sound
<1>1. HandlesStay /\ RemoveWindow(w) /\ born' = born
  BY DEF DestroyWindow, HandlesStay
<1>2. Tabled' /\ Owned' /\ (w # Dialog => Harmless)
  BY <1>1, RemovalIsSound DEF WindowsInv
<1>3. PostOK'
  BY <1>1, MailStays DEF WindowsInv, PostOK, HandlesStay, DestroyWindow
<1>4. Counted' /\ Menued' /\ HandlesGrow
  BY DEF WindowsInv, Counted, Menued, HandlesGrow, Given, Handles, miscVars, DestroyWindow
<1>5. Framed' /\ Dialogs' = Dialogs
  BY DEF WindowsInv, Framed, Dialogs, DestroyWindow
<1>6. DialogStays
  <2>1. CASE w = Dialog
    BY <2>1 DEF DestroyWindow, DialogStays, DialogOpen, Dialogs
  <2>2. CASE w # Dialog
    BY <2>2, <1>2 DEF DestroyWindow, Harmless, DialogStays
  <2> QED BY <2>1, <2>2
<1>7. NestDialogs \/ OneDialog'
  BY <1>5, <1>6, DialogsStay DEF WindowsInv
<1> QED BY <1>2, <1>3, <1>4, <1>5, <1>7 DEF Sound, WindowsInv, PostOK

LEMMA ShowWindowIsSound ==
    ASSUME WindowsInv, NEW w, NEW show, ShowWindow(w, show)
    PROVE  Sound
<1>1. HandlesStay
  BY DEF ShowWindow, HandlesStay, historyVars
<1>2. Tabled' /\ Owned' /\ Harmless
  BY <1>1, ShowIsSound DEF WindowsInv, ShowWindow
<1> QED BY <1>2, TableCallIsSound DEF ShowWindow

LEMMA FocusIsSound ==
    ASSUME WindowsInv, NEW w \in {Null} \cup Given, SetFocus(w)
    PROVE  Sound
<1>1. PostOK'
  BY MailStays DEF WindowsInv, PostOK, historyVars, SetFocus
<1>2. Tabled' /\ Owned' /\ Menued' /\ HandlesGrow
  BY DEF WindowsInv, Tabled, TablesMatchWindows, Windows, Owned, IsWindow, Menued, HandlesGrow,
         Given, Handles, SetFocus, historyVars, Counted
<1>3. Counted'
  BY DEF WindowsInv, Counted, Given, Handles, SetFocus
<1>4. Framed' /\ Dialogs' = Dialogs
  BY DEF WindowsInv, Framed, Dialogs, SetFocus
<1>5. NestDialogs \/ OneDialog'
  BY <1>4, DialogsStay DEF WindowsInv, SetFocus, DialogStays, historyVars
<1> QED BY <1>1, <1>2, <1>3, <1>4, <1>5 DEF Sound, WindowsInv, PostOK

LEMMA CreateWindowIsSound ==
    ASSUME WindowsInv, NEW name \in ClassNames, NEW visible \in BOOLEAN,
           CreateWindowEx(name, visible)
    PROVE  Sound
<1>1. /\ Tabled' /\ Owned' /\ Windows' = Windows \cup {next.window}
      /\ Dialog \in DOMAIN table.targets => Dialog \in DOMAIN table'.targets
      /\ next' \in [window: 1..(MaxWindows + 1), dc: Nat \ {0}, menu: 1..(MaxMenus + 1)]
      /\ next'.window = next.window + 1 /\ next'.menu = next.menu /\ next'.dc = next.dc
      /\ Handles' = Handles \cup {next.window}
  BY CreationIsSound
<1>2. PostOK'
  BY <1>1, MailSurvivesCreation DEF WindowsInv, PostOK, CreateWindowEx, NewHandle, Counted
<1>3. Counted' /\ Menued' /\ HandlesGrow
  BY <1>1 DEF WindowsInv, Counted, Menued, HandlesGrow, Given, CreateWindowEx, miscVars
<1>4. Framed' /\ Dialogs' \subseteq Dialogs
  BY SuspendIsSound DEF WindowsInv, CreateWindowEx
<1>5. NestDialogs \/ OneDialog'
  BY <1>1, <1>4, DialogsStay DEF WindowsInv, DialogStays, CreateWindowEx
<1> QED BY <1>1, <1>2, <1>3, <1>4, <1>5 DEF Sound, WindowsInv, PostOK

LEMMA WindowCallIsSound ==
    ASSUME WindowsInv, WindowCall
    PROVE  Sound
<1>1. ASSUME NEW name \in ClassNames, NEW visible \in BOOLEAN,
             CreateWindowEx(name, visible)
      PROVE  Sound
  BY <1>1, CreateWindowIsSound
<1>2. ASSUME NEW w \in Given, DestroyWindow(w)
      PROVE  Sound
  BY <1>2, DestroyIsSound
<1>3. ASSUME NEW w, SetWindowText(w)
      PROVE  Sound
  BY <1>3, StoreForWindowIsSound DEF SetWindowText, Tables
<1>4. ASSUME NEW w \in Given, NEW message, DefWindowProc(w, message)
      PROVE  Sound
  BY <1>2, <1>3, <1>4 DEF DefWindowProc
<1>5. ASSUME NEW w \in Windows, MoveWindow(w)
      PROVE  Sound
  BY <1>5, StoreForWindowIsSound DEF MoveWindow, Tables
<1>6. ASSUME NEW w \in Handles, NEW show \in BOOLEAN, ShowWindow(w, show)
      PROVE  Sound
  BY <1>6, ShowWindowIsSound
<1>7. ASSUME NEW w \in Handles, NEW show \in BOOLEAN, SetWindowPlacement(w, show)
      PROVE  Sound
  BY <1>6, <1>7 DEF SetWindowPlacement
<1>8. ASSUME NEW w \in Handles, NEW show \in BOOLEAN, SetWindowPos(w, show)
      PROVE  Sound
  BY <1>8, StoreForWindowIsSound, EraseForWindowIsSound DEF SetWindowPos, Tables
<1>9. ASSUME NEW w \in Handles, NEW enable \in BOOLEAN, EnableWindow(w, enable)
      PROVE  Sound
  BY <1>9, StoreForWindowIsSound, EraseForWindowIsSound DEF EnableWindow, Tables
<1>10. ASSUME NEW w \in Handles, NEW index, NEW v, SetWindowLong(w, index, v)
       PROVE  Sound
  BY <1>10, StoreForWindowIsSound DEF SetWindowLong, Tables
<1>11. ASSUME NEW w \in Given, SetClassLong(w) \/ SetWindowRgn(w)
       PROVE  Sound
  BY <1>11, StoreUncheckedIsSound DEF SetClassLong, SetWindowRgn
<1>12. ASSUME NEW w \in Handles, InvalidateRect(w)
       PROVE  Sound
  BY <1>12, StoreForWindowIsSound DEF InvalidateRect, Tables
<1>13. ASSUME NEW w \in Handles, ValidateRect(w)
       PROVE  Sound
  BY <1>13, EraseForWindowIsSound DEF ValidateRect
<1>14. ASSUME NEW w \in {Null} \cup Given,
              SetFocus(w) \/ SetForegroundWindow(w) \/ SetActiveWindow(w)
       PROVE  Sound
  BY <1>14, FocusIsSound DEF SetForegroundWindow, SetActiveWindow
<1> QED
  BY <1>1, <1>2, <1>3, <1>4, <1>5, <1>6, <1>7, <1>8, <1>9, <1>10, <1>11, <1>12, <1>13, <1>14
  DEF WindowCall, Given

(* Calls that leave the tables, the handles and the menus alone.            *)
LEMMA QuietCallIsSound ==
    ASSUME WindowsInv, PostOK', Framed', Dialogs' \subseteq Dialogs,
           UNCHANGED <<classes, table, next, menus, focused, dcOwner, dropped>>
    PROVE  Sound
<1>1. /\ Tabled' /\ Owned' /\ Counted' /\ Menued' /\ HandlesGrow
  BY DEF WindowsInv, Tabled, TablesMatchWindows, Windows, Owned, IsWindow, Counted, Menued,
         HandlesGrow, Given, Handles
<1>2. NestDialogs \/ OneDialog'
  BY DialogsStay DEF WindowsInv, DialogStays
<1> QED BY <1>1, <1>2 DEF Sound, WindowsInv, PostOK

LEMMA PostCallIsSound ==
    ASSUME WindowsInv, NEW window \in {Null, Broadcast} \cup Windows, NEW message \in Messages \cup {Quit},
           Post(window, message),
           UNCHANGED <<classes, table, next, menus, held, delivered, miscVars, frames, historyVars>>
    PROVE  Sound
<1>1. window \in {Null, Broadcast, Dialog} \cup Handles /\ message \in Messages \cup {Quit, Command}
  BY DEF WindowsInv, Tabled
<1>2. UNCHANGED <<held, delivered, born>> /\ next'.window = next.window
  BY DEF historyVars
<1>3. PostOK'
  BY <1>1, <1>2, PostIsSound DEF WindowsInv, PostOK
<1>4. Framed' /\ Dialogs' = Dialogs
  BY DEF WindowsInv, Framed, Dialogs
<1> QED BY <1>3, <1>4, QuietCallIsSound DEF miscVars, historyVars

LEMMA NextMessageCallIsSound ==
    ASSUME WindowsInv, NEW filter, NEW remove \in BOOLEAN, NextMessage(filter, remove)
    PROVE  Sound
<1>1. UNCHANGED <<classes, table, next, menus, posted, miscVars, frames, historyVars>>
  BY DEF NextMessage
<1>2. UNCHANGED <<posted, born>> /\ next'.window = next.window
  BY <1>1 DEF historyVars
<1>3. PostOK'
  BY <1>2, NextMessageIsSound DEF WindowsInv, PostOK
<1>4. Framed' /\ Dialogs' = Dialogs
  BY <1>1 DEF WindowsInv, Framed, Dialogs
<1> QED BY <1>1, <1>3, <1>4, QuietCallIsSound DEF miscVars, historyVars

LEMMA SuspendCallIsSound ==
    ASSUME WindowsInv, NEW callbacks, Suspend(FALSE, callbacks),
           UNCHANGED <<classes, table, next, menus, messageVars, miscVars, historyVars>>
    PROVE  Sound
<1>1. PostOK'
  BY MailStays DEF WindowsInv, PostOK, historyVars
<1>2. Framed' /\ Dialogs' \subseteq Dialogs
  BY SuspendIsSound DEF WindowsInv
<1> QED BY <1>1, <1>2, QuietCallIsSound DEF miscVars, historyVars

LEMMA MessageCallIsSound ==
    ASSUME WindowsInv, MessageCall
    PROVE  Sound
<1>1. ASSUME NEW w \in {Null, Broadcast} \cup Handles, NEW message \in Messages, PostMessage(w, message)
      PROVE  Sound
  BY <1>1, PostCallIsSound DEF PostMessage, IsWindow
<1>2. ASSUME PostQuitMessage
      PROVE  Sound
  BY <1>2, PostCallIsSound DEF PostQuitMessage
<1>3. ASSUME NEW filter, GetMessage(filter)
      PROVE  Sound
  BY <1>3, NextMessageCallIsSound DEF GetMessage
<1>4. ASSUME NEW filter, NEW remove \in BOOLEAN, PeekMessage(filter, remove)
      PROVE  Sound
  BY <1>4, NextMessageCallIsSound DEF PeekMessage
<1>5. ASSUME NEW w, NEW message, CallTarget(w, message)
      PROVE  Sound
  BY <1>5, SuspendCallIsSound DEF CallTarget
<1>6. ASSUME NEW procedure, EnumWindows(procedure)
      PROVE  Sound
  BY <1>6, SuspendCallIsSound DEF EnumWindows
<1> QED BY <1>1, <1>2, <1>3, <1>4, <1>5, <1>6
        DEF MessageCall, DispatchMessage, SendMessage, SendMessageTimeout

(* RedrawWindow leaves no window invalid that does not live.                *)
LEMMA RedrawCallIsSound ==
    ASSUME WindowsInv, NEW which \in SUBSET Windows,
           NEW invalidate, NEW validate, NEW update,
           RedrawWindow(which, invalidate, validate, update)
    PROVE  Sound
<1>1. PICK kept \in SUBSET Windows :
         table' = [table EXCEPT !.invalidated = [w \in kept |-> TRUE]]
  <2> DEFINE invalid == IF validate THEN {}
                        ELSE IF invalidate THEN which
                        ELSE which \cap DOMAIN table.invalidated
             kept == (DOMAIN table.invalidated \ which) \cup invalid
  <2>1. kept \in SUBSET Windows
    BY DEF WindowsInv, Tabled, TablesMatchWindows, Tables
  <2>2. table' = [table EXCEPT !.invalidated = [w \in kept |-> TRUE]]
    BY DEF RedrawWindow
  <2> QED BY <2>1, <2>2
<1>2. \E callbacks : Suspend(FALSE, callbacks)
  BY DEF RedrawWindow
<1>3. UNCHANGED <<classes, next, menus, messageVars, miscVars, historyVars>>
  BY DEF RedrawWindow
<1>4. Tabled' /\ Owned' /\ Harmless
  BY <1>1, <1>3, RedrawIsSound DEF WindowsInv, HandlesStay, historyVars
<1>5. PostOK'
  BY <1>3, MailStays DEF WindowsInv, PostOK, historyVars
<1>6. Counted' /\ Menued' /\ HandlesGrow
  BY <1>3 DEF WindowsInv, Counted, Menued, HandlesGrow, Given, Handles, miscVars
<1>7. Framed' /\ Dialogs' \subseteq Dialogs
  BY <1>2, SuspendIsSound DEF WindowsInv
<1>8. NestDialogs \/ OneDialog'
  BY <1>3, <1>4, <1>7, DialogsStay DEF WindowsInv, Harmless, DialogStays, historyVars
<1> QED BY <1>4, <1>5, <1>6, <1>7, <1>8 DEF Sound, WindowsInv, PostOK

LEMMA DcCallIsSound ==
    ASSUME WindowsInv, NEW w, NEW invalidated, WindowDc(w, invalidated),
           DOMAIN invalidated \subseteq DOMAIN table.invalidated
    PROVE  Sound
<1>1. /\ Tabled' /\ Owned' /\ Harmless
      /\ next'.window = next.window /\ next'.menu = next.menu
      /\ next'.dc \in {next.dc, next.dc + 1}
      /\ next' \in [window: 1..(MaxWindows + 1), dc: Nat \ {0}, menu: 1..(MaxMenus + 1)]
  BY DcIsSound DEF WindowsInv
<1>2. UNCHANGED <<classes, menus, messageVars, miscVars, frames, born, dropped>>
  BY DEF WindowDc
<1>3. PostOK'
  BY <1>1, <1>2, MailStays DEF WindowsInv, PostOK
<1>4. Counted' /\ Menued' /\ HandlesGrow
  BY <1>1, <1>2 DEF WindowsInv, Counted, Menued, HandlesGrow, Given, Handles, miscVars
<1>5. Framed' /\ Dialogs' = Dialogs
  BY <1>2 DEF WindowsInv, Framed, Dialogs
<1>6. NestDialogs \/ OneDialog'
  BY <1>1, <1>2, <1>5, DialogsStay DEF WindowsInv, Harmless, DialogStays
<1> QED BY <1>1, <1>3, <1>4, <1>5, <1>6 DEF Sound, WindowsInv, PostOK

LEMMA PaintCallIsSound ==
    ASSUME WindowsInv, PaintCall
    PROVE  Sound
<1>1. ASSUME NEW which \in {Windows} \cup {{w} : w \in Windows}, NEW i, NEW v, NEW u,
             RedrawWindow(which, i, v, u)
      PROVE  Sound
  BY <1>1, RedrawCallIsSound
<1>2. ASSUME NEW w \in Handles, UpdateWindow(w)
      PROVE  Sound
  BY <1>2, RedrawCallIsSound DEF UpdateWindow, IsWindow
<1>3. ASSUME NEW w \in Handles, GetDC(w)
      PROVE  Sound
  BY <1>3, DcCallIsSound DEF GetDC
<1>4. ASSUME NEW w \in Handles, BeginPaint(w)
      PROVE  Sound
  <2>1. DOMAIN Drop(table.invalidated, w) \subseteq DOMAIN table.invalidated
    BY DEF Drop
  <2> QED BY <2>1, <1>4, DcCallIsSound DEF BeginPaint
<1> QED BY <1>1, <1>2, <1>3, <1>4 DEF PaintCall

(* A dialog that may not be nested is the only one.                         *)
LEMMA DialogBoxIsSound ==
    ASSUME WindowsInv, NEW procedure, DialogBox(procedure)
    PROVE  Sound
<1>1. UNCHANGED <<classes, next, menus, held, delivered, miscVars, born, dcOwner>>
  BY DEF DialogBox
<1>2. Tabled' /\ Owned' /\ Harmless
  BY <1>1, StoreIsSound DEF DialogBox, WindowsInv, HandlesStay, Tables
<1>3. PostOK'
  <2>1. UNCHANGED <<held, delivered, born>> /\ next'.window = next.window
    BY <1>1
  <2>2. Post(Dialog, Command) /\ Command \in Messages \cup {Quit, Command}
    BY DEF DialogBox
  <2>3. Dialog \in {Null, Broadcast, Dialog} \cup Handles
    OBVIOUS
  <2> QED BY <2>1, <2>2, <2>3, PostIsSound DEF WindowsInv, PostOK
<1>4. Counted' /\ Menued' /\ HandlesGrow
  BY <1>1 DEF WindowsInv, Counted, Menued, HandlesGrow, Given, Handles, miscVars
<1>5. Framed' /\ Dialogs' \subseteq Dialogs \cup {Len(frames) + 1}
  <2>1. \E callbacks : Suspend(TRUE, callbacks)
    BY DEF DialogBox
  <2> QED BY <2>1, SuspendIsSound DEF WindowsInv
<1>6. ASSUME ~NestDialogs
      PROVE  OneDialog'
  <2>1. Dialogs = {}
    BY <1>6 DEF DialogBox, DialogOpen, Dialogs
  <2>2. Dialog \in DOMAIN table'.targets
    BY DEF DialogBox, Store, Put, WindowsInv, Tabled, Tables
  <2>3. \A i, j \in Dialogs' : i = j
    BY <2>1, <1>5
  <2> QED BY <2>2, <2>3 DEF OneDialog, OpenDialogHasProcedure, Dialogs
<1> QED BY <1>2, <1>3, <1>4, <1>5, <1>6 DEF Sound, WindowsInv, PostOK

LEMMA EndDialogIsSound ==
    ASSUME WindowsInv, EndDialog
    PROVE  Sound
<1>1. UNCHANGED <<classes, next, menus, messageVars, miscVars, historyVars>>
  BY DEF EndDialog
<1>2. Tabled' /\ Owned'
  BY <1>1, EraseIsSound DEF EndDialog, WindowsInv, HandlesStay, historyVars, Tables
<1>3. PostOK'
  BY <1>1, MailStays DEF WindowsInv, PostOK, historyVars
<1>4. Counted' /\ Menued' /\ HandlesGrow
  BY <1>1 DEF WindowsInv, Counted, Menued, HandlesGrow, Given, Handles, miscVars
<1>5. Framed' /\ \E i \in Dialogs : Dialogs' \subseteq Dialogs \ {i}
  BY EndIsSound DEF WindowsInv
<1>6. ASSUME OneDialog
      PROVE  OneDialog'
  <2>1. \A i, j \in Dialogs : i = j
    BY <1>6 DEF OneDialog, Dialogs
  <2>2. Dialogs' = {}
    BY <2>1, <1>5
  <2> QED BY <2>2 DEF OneDialog, OpenDialogHasProcedure, DialogOpen, Dialogs
<1> QED BY <1>2, <1>3, <1>4, <1>5, <1>6 DEF Sound, WindowsInv, PostOK

LEMMA CallbackReturnIsSound ==
    ASSUME WindowsInv, CallbackReturns
    PROVE  Sound
<1>1. UNCHANGED <<classes, table, next, menus, messageVars, miscVars, historyVars>>
  BY DEF CallbackReturns
<1>2. PostOK'
  BY <1>1, MailStays DEF WindowsInv, PostOK, historyVars
<1>3. Framed' /\ Dialogs' \subseteq Dialogs
  BY ReturnIsSound DEF WindowsInv
<1> QED BY <1>1, <1>2, <1>3, QuietCallIsSound DEF miscVars, historyVars

-----------------------------------------------------------------------------
(* Menus, the clipboard and classes touch what no other call does.          *)
Elsewhere == UNCHANGED <<table, messageVars, frames, historyVars>>

LEMMA ElsewhereIsSound ==
    ASSUME WindowsInv, Elsewhere, Counted', Menued', next'.window = next.window,
           next'.dc = next.dc
    PROVE  Sound
<1>1. PostOK'
  BY MailStays DEF WindowsInv, PostOK, Elsewhere, historyVars
<1>2. /\ Tabled' /\ Owned' /\ HandlesGrow
  BY DEF WindowsInv, Tabled, TablesMatchWindows, Windows, Owned, IsWindow, HandlesGrow, Given,
         Handles, Elsewhere, historyVars, Counted
<1>3. Framed' /\ Dialogs' = Dialogs
  BY DEF WindowsInv, Framed, Dialogs, Elsewhere
<1>4. NestDialogs \/ OneDialog'
  BY <1>3, DialogsStay DEF WindowsInv, Elsewhere, DialogStays, historyVars
<1> QED BY <1>1, <1>2, <1>3, <1>4 DEF Sound, WindowsInv, PostOK

LEMMA MenuCallIsSound ==
    ASSUME WindowsInv, MenuCall
    PROVE  Sound
<1>1. ASSUME CreateMenu
      PROVE  Sound
  <2>1. /\ next' \in [window: 1..(MaxWindows + 1), dc: Nat \ {0}, menu: 1..(MaxMenus + 1)]
        /\ next'.window = next.window /\ next'.dc = next.dc /\ next'.menu = next.menu + 1
    BY <1>1, WindowsAssumption DEF CreateMenu, WindowsInv, Counted
  <2>2. Counted'
    BY <1>1, <2>1 DEF CreateMenu, WindowsInv, Counted, Given, Handles, miscVars
  <2>3. /\ menus'.live = menus.live \cup {next.menu} /\ menus'.children = menus.children
        /\ DOMAIN menus' = DOMAIN menus
    BY <1>1 DEF CreateMenu, WindowsInv, Menued
  <2>4. Menued'
    BY <2>1, <2>3 DEF WindowsInv, Menued, Counted
  <2>5. Elsewhere
    BY <1>1 DEF CreateMenu, Elsewhere
  <2> QED BY <2>1, <2>2, <2>4, <2>5, ElsewhereIsSound
<1>2. ASSUME NEW m, DestroyMenu(m)
      PROVE  Sound
  <2>1. Counted' /\ Elsewhere /\ next' = next
    BY <1>2 DEF DestroyMenu, WindowsInv, Counted, Given, Handles, miscVars, Elsewhere
  <2>2. Menued'
    BY <1>2 DEF DestroyMenu, WindowsInv, Menued, Drop
  <2> QED BY <2>1, <2>2, ElsewhereIsSound
<1>3. ASSUME NEW m \in menus.live, NEW submenu, NEW atEnd, InsertMenuItem(m, submenu, atEnd)
      PROVE  Sound
  <2>1. Counted' /\ Elsewhere /\ next' = next
    BY <1>3 DEF InsertMenuItem, WindowsInv, Counted, Given, Handles, miscVars, Elsewhere
  <2>2. PICK items : menus' = [menus EXCEPT !.children = Put(@, m, items)]
    BY <1>3 DEF InsertMenuItem
  <2>3. Menued'
    BY <2>1, <2>2 DEF WindowsInv, Menued, Put
  <2> QED BY <2>1, <2>3, ElsewhereIsSound
<1>4. ASSUME NEW w \in Handles, NEW m, SetMenu(w, m)
      PROVE  Sound
  BY <1>4, StoreForWindowIsSound, EraseForWindowIsSound DEF SetMenu, Tables
<1>5. ASSUME NEW open, NEW data, ChangeClipboard(open, data)
      PROVE  Sound
  <2>1. Counted' /\ Menued' /\ Elsewhere /\ next' = next
    BY <1>5 DEF ChangeClipboard, WindowsInv, Counted, Menued, Given, Handles, Elsewhere
  <2> QED BY <2>1, ElsewhereIsSound
<1> QED BY <1>1, <1>2, <1>3, <1>4, <1>5
        DEF MenuCall, OpenClipboard, CloseClipboard, EmptyClipboard, SetClipboardData

LEMMA RegisterClassIsSound ==
    ASSUME WindowsInv, NEW name \in ClassNames, NEW procedure, RegisterClass(name, procedure)
    PROVE  Sound
<1>1. DOMAIN classes' = DOMAIN classes \cup {Lower(name)}
  BY DEF RegisterClass, Put
<1>2. Counted' /\ Menued' /\ Elsewhere /\ next' = next
  BY <1>1 DEF RegisterClass, WindowsInv, Counted, Menued, Given, Handles, miscVars, Elsewhere
<1> QED BY <1>2, ElsewhereIsSound

LEMMA WindowsNextIsSound ==
    ASSUME WindowsInv, WindowsNext
    PROVE  Sound
<1>1. ASSUME DialogCall
      PROVE  Sound
  BY <1>1, DialogBoxIsSound, EndDialogIsSound DEF DialogCall
<1>2. ASSUME WindowsCall
      PROVE  Sound
  BY <1>1, <1>2, WindowCallIsSound, MessageCallIsSound, PaintCallIsSound, MenuCallIsSound
  DEF WindowsCall
<1> QED BY <1>2, CallbackReturnIsSound, RegisterClassIsSound DEF WindowsNext

-----------------------------------------------------------------------------
(* What the invariant says of the properties.                               *)
LEMMA InitIsSound ==
    ASSUME Init
    PROVE  Inv
<1>1. DOMAIN NoFunction = {}
  BY DEF NoFunction
<1>2. next = [window |-> 1, dc |-> 1, menu |-> 1] /\ Handles = {}
  BY DEF Init, WindowsInit, Given, Handles
<1>3. DOMAIN table = Tables /\ \A t \in Tables : DOMAIN table[t] = {}
  BY <1>1 DEF Init, WindowsInit
<1>4. Windows = {}
  BY <1>3 DEF Windows, Tables
<1>5. Tabled
  BY <1>3, <1>4 DEF Tabled, TablesMatchWindows, Tables
<1>6. Counted
  BY <1>1, <1>2, WindowsAssumption DEF Counted, Init, WindowsInit
<1>7. Owned
  BY <1>1, <1>2, <1>3 DEF Owned, Init, WindowsInit, Tables
<1>8. Born
  BY <1>1, <1>2, WindowsAssumption DEF Born, Init, WindowsInit
<1>9. messages = <<>> /\ Len(messages) = 0 /\ frames = <<>> /\ Len(frames) = 0
  BY DEF Init, WindowsInit
<1>10. Mailed
  BY <1>9 DEF Mailed, Init, WindowsInit, Letters, Addressed, Null, Command
<1>11. Queued
  BY <1>9 DEF Queued, Init, WindowsInit
<1>12. Framed /\ OneDialog
  BY <1>9 DEF Framed, OneDialog, OpenDialogHasProcedure, DialogOpen
<1>13. Menued
  BY <1>1 DEF Menued, Init, WindowsInit
<1>14. Drawn
  BY <1>1 DEF Drawn, Init, SelectionsHold, SelectedObjectsSurvive, DeletedDcsLeaveNothing
<1> QED BY <1>5, <1>6, <1>7, <1>8, <1>10, <1>11, <1>12, <1>13, <1>14 DEF Inv, WindowsInv

LEMMA Interval ==
    ASSUME NEW n \in Nat
    PROVE  IsFiniteSet(1..n) /\ Cardinality(1..n) = n
<1>1. 1 \in Int /\ n \in Int
  OBVIOUS
<1>2. IsFiniteSet(1..n) /\ Cardinality(1..n) = IF 1 > n THEN 0 ELSE n - 1 + 1
  BY <1>1, FS_Interval
<1> QED BY <1>2

LEMMA OneToOne ==
    ASSUME NEW m \in Nat, NEW n \in Nat, NEW f,
           \A i \in 1..m : f[i] \in 1..n,
           \A i, j \in 1..m : f[i] = f[j] => i = j
    PROVE  m <= n
<1> DEFINE g == [i \in 1..m |-> f[i]]
<1>1. g \in Injection(1..m, 1..n)
  BY DEF Injection, IsInjective
<1>2. Cardinality(1..m) <= Cardinality(1..n)
  <2> HIDE DEF g
  <2> QED BY <1>1, Interval, FS_Injection
<1> QED BY <1>2, Interval

(* No more window DCs than windows have been made, each window made one.    *)
LEMMA DcsAreFew ==
    ASSUME WindowsInv
    PROVE  next.dc <= next.window
<1>1. next.dc \in Nat \ {0} /\ next.window \in Nat \ {0}
  BY DEF WindowsInv, Counted
<1>2. next.dc - 1 \in Nat /\ next.window - 1 \in Nat
  BY <1>1
<1>3. \A n \in 1..(next.dc - 1) : dcOwner[n] \in 1..(next.window - 1)
  BY DEF WindowsInv, Owned, Handles
<1>4. \A m, n \in 1..(next.dc - 1) : dcOwner[m] = dcOwner[n] => m = n
  BY DEF WindowsInv, Owned
<1>5. next.dc - 1 <= next.window - 1
  BY <1>2, <1>3, <1>4, OneToOne
<1> QED BY <1>1, <1>5

LEMMA QueueIsShort ==
    ASSUME WindowsInv
    PROVE  Len(messages) <= posted
<1> DEFINE number == [i \in 1..Len(messages) |-> messages[i].number]
<1>1. Len(messages) \in Nat /\ posted \in Nat
  BY DEF WindowsInv, Mailed, Born
<1>2. \A i \in 1..Len(messages) : number[i] \in 1..posted
  BY DEF WindowsInv, Queued
<1>3. \A i, j \in 1..Len(messages) : number[i] = number[j] => i = j
  <2> SUFFICES ASSUME NEW i \in 1..Len(messages), NEW j \in 1..Len(messages), i # j
               PROVE  number[i] # number[j]
    OBVIOUS
  <2>1. i < j \/ j < i
    BY <1>1
  <2> QED BY <2>1, <1>1, <1>2 DEF WindowsInv, Queued
<1> HIDE DEF number
<1> QED BY <1>1, <1>2, <1>3, OneToOne

LEMMA TypesFollow ==
    ASSUME Inv
    PROVE  TypeOK
<1>1. next \in [window: 1..(MaxWindows + 1), dc: 1..(MaxWindows + 1), menu: 1..(MaxMenus + 1)]
  <2>1. next \in [window: 1..(MaxWindows + 1), dc: Nat \ {0}, menu: 1..(MaxMenus + 1)]
    BY DEF Inv, WindowsInv, Counted
  <2>2. next.dc <= next.window
    BY DcsAreFew DEF Inv
  <2> QED BY <2>1, <2>2, WindowsAssumption
<1>2. DOMAIN classes \subseteq {Lower(name) : name \in ClassNames} /\ focused \in {Null} \cup Given
  BY DEF Inv, WindowsInv, Counted
<1>3. DOMAIN table = Tables /\ \A t \in Tables : DOMAIN table[t] \subseteq Given
  <2>1. DOMAIN table = Tables
    BY DEF Inv, WindowsInv, Tabled
  <2>2. \A t \in Tables \ {"classLongs", "regions"} : DOMAIN table[t] \subseteq {Dialog} \cup Windows
    BY DEF Inv, WindowsInv, Tabled, TablesMatchWindows
  <2> QED BY <2>1, <2>2 DEF Inv, WindowsInv, Tabled, Given
<1>4. menus.live \subseteq 1..MaxMenus /\ DOMAIN menus.children \subseteq menus.live
  BY <1>1, WindowsAssumption DEF Inv, WindowsInv, Menued
<1>5. Len(messages) <= posted /\ posted \in 0..MaxPosts
  BY QueueIsShort DEF Inv, WindowsInv, Born
<1>6. \A i \in 1..Len(frames) : frames[i].dialog \in BOOLEAN /\ frames[i].callbacks # <<>>
  <2>1. PICK C : frames \in Seq(Frames(C))
    BY DEF Inv, WindowsInv, Framed
  <2>2. \A i \in 1..Len(frames) : frames[i] \in Frames(C)
    BY <2>1
  <2>3. \A frame \in Frames(C) : frame.dialog \in BOOLEAN /\ frame.callbacks # <<>>
    BY DEF Frames
  <2> QED BY <2>2, <2>3
<1>7. WindowsTypeOK
  BY <1>1, <1>2, <1>3, <1>4, <1>5, <1>6 DEF WindowsTypeOK
<1>8. memoryDcs \subseteq SeenDcs
  BY DEF Inv, Drawn, SeenDcs
<1> QED BY <1>7, <1>8 DEF TypeOK, Inv, Drawn

LEMMA MessagesFollow ==
    ASSUME Inv
    PROVE  MessagesArrive
<1>1. messages \in Seq(Letters)
  BY DEF Inv, WindowsInv, Mailed
<1>2. Range(messages) = {messages[i] : i \in 1..Len(messages)}
  BY <1>1 DEF Range
<1>3. {Null, Broadcast, Dialog} \cap Windows = {} /\ Windows \subseteq Handles
  BY DEF Inv, WindowsInv, Tabled, Handles, Null, Broadcast, Dialog
<1>4. MessagesReachTheirWindow
  <2>1. \A m : Addressed(m) /\ IsWindow(m.window) => born[m.window] < m.number
    BY <1>3 DEF Addressed, IsWindow
  <2>2. \A m \in Range(messages) \cup {held} : Addressed(m)
    BY <1>2 DEF Inv, WindowsInv, Mailed
  <2> QED BY <2>1, <2>2 DEF MessagesReachTheirWindow
<1>5. QueueInOrder
  <2> DEFINE numbers == {m.number : m \in Range(messages)}
  <2>1. numbers = {messages[i].number : i \in 1..Len(messages)}
    BY <1>2
  <2>2. \A i, j \in 1..Len(messages) : i < j => messages[i].number < messages[j].number
    BY DEF Inv, WindowsInv, Queued
  <2>3. delivered \cap numbers = {}
    BY <2>1 DEF Inv, WindowsInv, Queued
  <2>4. delivered \cup numbers = 1..posted
    BY <2>1 DEF Inv, WindowsInv, Queued
  <2> QED BY <2>2, <2>3, <2>4 DEF QueueInOrder
<1> QED BY <1>4, <1>5 DEF MessagesArrive

-----------------------------------------------------------------------------
(* GDI.  A step of the windows takes no DC and no handle away.              *)
LEMMA DrawingStays ==
    ASSUME Drawn, WindowsInv, HandlesGrow, next'.dc \in Nat, UNCHANGED gdiVars
    PROVE  Drawn'
<1>1. Handles \subseteq Handles'
  BY DEF HandlesGrow
<1>2. 1..(next.dc - 1) \subseteq 1..(next'.dc - 1)
  BY DEF HandlesGrow, WindowsInv, Counted
<1>3. SeenDcs \subseteq SeenDcs'
  BY <1>2 DEF SeenDcs, gdiVars
<1>4. SeenObjects' = SeenObjects
  BY DEF SeenObjects, gdiVars
<1>5. SelectionsHold'
  BY DEF Drawn, SelectionsHold, SelectedObjectsSurvive, DeletedDcsLeaveNothing, gdiVars
<1> QED BY <1>1, <1>3, <1>4, <1>5 DEF Drawn, gdiVars

LEMMA LiveDcsAreSeen ==
    ASSUME Inv, NEW dc, IsGdiDc(dc)
    PROVE  dc \in SeenDcs /\ (dc[1] = "memory" => dc \in memoryDcs)
<1>1. CASE dc = Screen
  BY <1>1 DEF SeenDcs, Screen
<1>2. CASE dc \in WindowDcs
  <2>1. PICK w \in DOMAIN table.dcs : dc = DcOfWindow(table.dcs[w])
    BY <1>2 DEF WindowDcs
  <2>2. table.dcs[w] \in 1..(next.dc - 1)
    BY <2>1 DEF Inv, WindowsInv, Owned
  <2> QED BY <2>1, <2>2 DEF SeenDcs, DcOfWindow
<1>3. CASE dc \in memoryDcs
  BY <1>3 DEF Inv, Drawn, SeenDcs
<1> QED BY <1>1, <1>2, <1>3 DEF IsGdiDc

LEMMA GdiChangeIsSound ==
    ASSUME Inv, GdiChange, UNCHANGED <<table, next>>
    PROVE  Drawn'
<1> USE DEF Inv
<1>1. Handles' = Handles
  BY DEF Handles
<1>2. SelectedObjectsSurvive /\ DeletedDcsLeaveNothing
  BY DEF Drawn, SelectionsHold
<1>3. ASSUME CreateGdiObject
      PROVE  Drawn'
  <2>1. /\ objects' = objects \cup {nextObject} /\ nextObject' = nextObject + 1
        /\ nextObject \in Nat \ {0}
    BY <1>3 DEF CreateGdiObject, Drawn
  <2>2. SeenObjects' = SeenObjects \cup {nextObject} /\ SeenDcs' = SeenDcs
    BY <1>3, <2>1 DEF SeenObjects, SeenDcs, CreateGdiObject
  <2>3. SelectionsHold'
    BY <1>2, <1>3, <2>1
    DEF SelectionsHold, SelectedObjectsSurvive, DeletedDcsLeaveNothing, CreateGdiObject
  <2> QED BY <1>1, <1>3, <2>1, <2>2, <2>3 DEF Drawn, CreateGdiObject
<1>4. ASSUME NEW object, DeleteGdiObject(object)
      PROVE  Drawn'
  <2>1. objects' = objects \ {object}
    BY <1>4 DEF DeleteGdiObject
  <2>2. SeenObjects' = SeenObjects /\ SeenDcs' = SeenDcs
    BY <1>4 DEF SeenObjects, SeenDcs, DeleteGdiObject
  <2>3. \A dc \in selectedLive : selected[dc] # object
    BY <1>4 DEF DeleteGdiObject, IsSelected, Drawn
  <2>4. SelectionsHold'
    BY <1>2, <1>4, <2>1, <2>3
    DEF SelectionsHold, SelectedObjectsSurvive, DeletedDcsLeaveNothing, DeleteGdiObject
  <2> QED BY <1>1, <1>4, <2>1, <2>2, <2>4 DEF Drawn, DeleteGdiObject
<1>5. ASSUME NEW source, CreateCompatibleDc(source)
      PROVE  Drawn'
  <2>1. /\ memoryDcs' = memoryDcs \cup {MemoryDc(nextMemoryDc)} /\ nextMemoryDc' = nextMemoryDc + 1
        /\ nextMemoryDc \in Nat \ {0}
    BY <1>5 DEF CreateCompatibleDc, Drawn
  <2>2. memoryDcs' \subseteq {MemoryDc(n) : n \in 1..(nextMemoryDc' - 1)}
    BY <2>1 DEF Drawn
  <2>3. SeenObjects' = SeenObjects /\ SeenDcs \subseteq SeenDcs'
    BY <1>5, <2>1 DEF SeenObjects, SeenDcs, CreateCompatibleDc
  <2>4. SelectionsHold'
    BY <1>2, <1>5, <2>1
    DEF SelectionsHold, SelectedObjectsSurvive, DeletedDcsLeaveNothing, CreateCompatibleDc
  <2> QED BY <1>1, <1>5, <2>1, <2>2, <2>3, <2>4 DEF Drawn, CreateCompatibleDc
<1>6. ASSUME NEW dc, DeleteDc(dc)
      PROVE  Drawn'
  <2>1. /\ DOMAIN selected' = DOMAIN selected \ {dc}
        /\ \A d \in DOMAIN selected' : selected'[d] = selected[d]
    BY <1>6 DEF DeleteDc, Drop
  <2>2. SeenObjects' = SeenObjects /\ SeenDcs' = SeenDcs
    BY <1>6 DEF SeenObjects, SeenDcs, DeleteDc
  <2>3. SelectionsHold'
    BY <1>2, <1>6, <2>1
    DEF SelectionsHold, SelectedObjectsSurvive, DeletedDcsLeaveNothing, DeleteDc, Drawn
  <2> QED BY <1>1, <1>6, <2>1, <2>2, <2>3 DEF Drawn, DeleteDc
<1>7. ASSUME NEW dc, NEW object \in {Stock} \cup SeenObjects, SelectObject(dc, object)
      PROVE  Drawn'
  <2>1. /\ DOMAIN selected' = DOMAIN selected \cup {dc}
        /\ \A d \in DOMAIN selected' : selected'[d] = IF d = dc THEN object ELSE selected[d]
    BY <1>7 DEF SelectObject, Put
  <2>2. SeenObjects' = SeenObjects /\ SeenDcs' = SeenDcs
    BY <1>7 DEF SeenObjects, SeenDcs, SelectObject
  <2>3. dc \in SeenDcs /\ (dc[1] = "memory" => dc \in memoryDcs)
    BY <1>7, LiveDcsAreSeen DEF SelectObject
  <2>4. SelectionsHold'
    BY <1>2, <1>7, <2>1, <2>3
    DEF SelectionsHold, SelectedObjectsSurvive, DeletedDcsLeaveNothing, SelectObject, Drawn
  <2> QED BY <1>1, <1>7, <2>1, <2>2, <2>3, <2>4 DEF Drawn, SelectObject
<1>8. ASSUME NEW dc, SetDcAttribute(dc)
      PROVE  Drawn'
  <2>1. SeenObjects' = SeenObjects /\ SeenDcs' = SeenDcs
    BY <1>8 DEF SeenObjects, SeenDcs, SetDcAttribute
  <2>2. dc \in SeenDcs /\ (dc[1] = "memory" => dc \in memoryDcs)
    BY <1>8, LiveDcsAreSeen DEF SetDcAttribute
  <2>3. SelectionsHold'
    BY <1>2, <1>8, <2>2
    DEF SelectionsHold, SelectedObjectsSurvive, DeletedDcsLeaveNothing, SetDcAttribute
  <2> QED BY <1>1, <1>8, <2>1, <2>2, <2>3 DEF Drawn, SetDcAttribute
<1>9. ASSUME NEW dc, Show(dc)
      PROVE  Drawn'
  <2>1. SeenObjects' = SeenObjects /\ SeenDcs' = SeenDcs
    BY <1>9 DEF SeenObjects, SeenDcs, Show
  <2>2. DOMAIN table.dcs \subseteq Handles
    BY DEF WindowsInv, Tabled, TablesMatchWindows, Tables
  <2>3. SelectionsHold'
    BY <1>2, <1>9 DEF SelectionsHold, SelectedObjectsSurvive, DeletedDcsLeaveNothing, Show
  <2> QED BY <1>1, <1>9, <2>1, <2>2, <2>3 DEF Drawn, Show
<1> QED
  BY <1>3, <1>4, <1>5, <1>6, <1>7, <1>8, <1>9
  DEF GdiChange, CreateBitmap, CreateFontIndirect, ExtCreateRegion, CreateRectRegion,
      CreateDibSection, CreateCompatibleBitmap, BitBlt, TransferDibToDc

LEMMA NextIsSound ==
    ASSUME Inv, [Next]_vars
    PROVE  Inv'
<1>1. CASE WindowsNext /\ UNCHANGED gdiVars
  <2>1. WindowsInv' /\ HandlesGrow
    BY <1>1, WindowsNextIsSound DEF Inv, Sound
  <2>2. next'.dc \in Nat
    BY <2>1 DEF WindowsInv, Counted
  <2> QED BY <1>1, <2>1, <2>2, DrawingStays DEF Inv
<1>2. CASE GdiCall
  <2>1. CASE GdiChange /\ UNCHANGED <<classes, table, next, menus, messageVars, miscVars, frames,
                                      historyVars>>
    <3>1. Drawn'
      BY <2>1, GdiChangeIsSound
    <3>2. PostOK'
      BY <2>1, MailStays DEF Inv, WindowsInv, PostOK, historyVars
    <3>3. Framed' /\ Dialogs' = Dialogs
      BY <2>1 DEF Inv, WindowsInv, Framed, Dialogs
    <3>4. Sound
      BY <2>1, <3>2, <3>3, QuietCallIsSound DEF Inv, miscVars, historyVars
    <3> QED BY <3>1, <3>4 DEF Inv, Sound
  <2>2. ASSUME NEW dc, NEW procedure, EnumFontFamilies(dc, procedure)
        PROVE  Inv'
    <3>1. Sound
      BY <2>2, SuspendCallIsSound DEF EnumFontFamilies, Inv
    <3>2. Drawn'
      BY <2>2, <3>1, DrawingStays DEF EnumFontFamilies, Inv, Sound, WindowsInv, Counted
    <3> QED BY <3>1, <3>2 DEF Inv, Sound
  <2> QED BY <1>2, <2>1, <2>2 DEF GdiCall
<1>3. CASE UNCHANGED vars
  <2>1. PostOK'
    BY <1>3, MailStays DEF Inv, WindowsInv, PostOK, vars, windowsVars, historyVars
  <2>2. Framed' /\ Dialogs' = Dialogs
    BY <1>3 DEF Inv, WindowsInv, Framed, Dialogs, vars, windowsVars
  <2>3. Sound
    BY <1>3, <2>1, <2>2, QuietCallIsSound DEF Inv, vars, windowsVars, miscVars, historyVars
  <2>4. Drawn'
    BY <1>3, <2>3, DrawingStays DEF Inv, Sound, vars, windowsVars, WindowsInv, Counted
  <2> QED BY <2>3, <2>4 DEF Inv, Sound
<1> QED BY <1>1, <1>2, <1>3 DEF Next

LEMMA InvHolds == Spec => []Inv
<1>1. Init => Inv
  BY InitIsSound
<1>2. Inv /\ [Next]_vars => Inv'
  BY NextIsSound
<1> QED BY <1>1, <1>2, PTL DEF Spec

-----------------------------------------------------------------------------
(* Every variable of the windows and of GDI keeps its type.                 *)
THEOREM TypeCorrect == Spec => []TypeOK
<1>1. Inv => TypeOK
  BY TypesFollow
<1> QED BY <1>1, InvHolds, PTL

(* What is kept for windows is kept for live ones, each window DC has one   *)
(* owner for ever, and, where dialogs do not nest, the commands of an open  *)
(* dialog reach its procedure until the guest itself destroys the handle of *)
(* the dialog (remove_window, window_dc, EndDialog).                        *)
THEOREM WindowsStayCoherent ==
    ASSUME ~NestDialogs
    PROVE  Spec => []WindowsCoherent
<1>1. Inv => WindowsCoherent
  BY DEF Inv, WindowsInv, Tabled, Owned, OneDialog, WindowsCoherent, DcsBelongToOneWindow
<1> QED BY <1>1, InvHolds, PTL

(* Nested dialogs do not disturb the tables or the DCs.                     *)
THEOREM TablesStayCoherent == Spec => [](TablesMatchWindows /\ DcsBelongToOneWindow)
<1>1. Inv => TablesMatchWindows /\ DcsBelongToOneWindow
  BY DEF Inv, WindowsInv, Tabled, Owned, DcsBelongToOneWindow
<1> QED BY <1>1, InvHolds, PTL

(* Messages arrive at the windows they were posted to, once and in order,   *)
(* with any filters and any number of windows made and destroyed meanwhile. *)
THEOREM MessagesDoArrive == Spec => []MessagesArrive
<1>1. Inv => MessagesArrive
  BY MessagesFollow
<1> QED BY <1>1, InvHolds, PTL

(* What was selected while it existed still exists, and a memory DC that    *)
(* was deleted leaves nothing behind (delete_gdi_object, delete_memory_dc). *)
THEOREM SelectionsAlwaysHold == Spec => []SelectionsHold
<1>1. Inv => SelectionsHold
  BY DEF Inv, Drawn
<1> QED BY <1>1, InvHolds, PTL
=============================================================================
