------------------------------ MODULE Inventory ------------------------------
(***************************************************************************)
(* The inventory and the container view of the game screen                 *)
(* (src/ui/screens/game_screen.zig), which two threads write.              *)
(*                                                                         *)
(* The window thread runs map.update, which opens and closes the view of   *)
(* the container the player stands on, and the callbacks of the item       *)
(* slots, which move items at once on the screen and ask the server to do  *)
(* the same.  The network thread writes the items the server reports into  *)
(* the map's objects and into the same slots.  The lock the callbacks hold *)
(* is not taken by the code that handles the server's packets.             *)
(*                                                                         *)
(* Slots 1..Inv are the player's, slots Inv+1..Inv+Box the container's.    *)
(***************************************************************************)
EXTENDS Naturals, Sequences, FiniteSets

CONSTANTS
  Inv,          \* the number of inventory slots (20 in the code)
  Backpack,     \* the first slot of the backpack (12 in the code)
  HasBackpack,  \* whether the player has one
  Box,          \* the number of slots of a container (8 in the code)
  Containers,   \* the objects of class container
  Portal,       \* an interactive object of another class
  Me,           \* the local player
  Items,        \* the items the game knows
  Consumables,  \* those that are used up
  EquipSlot,    \* the slot each item can be worn in, or Outside
  Empty,        \* -1: no item
  None,         \* -1: no object
  Outside,      \* 255: no slot
  InitialItems, \* what each holder holds at first
  MaxClicks,    \* bound: how many times the player clicks
  MaxChanges    \* bound: how many changes others make to containers

\* The named objects are different ones, and so are the slots that exist and
\* those that do not.  A backpack that is closed is empty.
ASSUME InventoryAssumption ==
  /\ Inv \in Nat /\ Box \in Nat /\ Backpack \in Nat /\ HasBackpack \in BOOLEAN
  /\ {Portal, Me, None} \cap Containers = {} /\ Portal # Me /\ Portal # None /\ Me # None
  /\ {None, Outside} \cap (1 .. Inv + Box) = {} /\ None # Outside
  /\ Empty \notin Items /\ Consumables \subseteq Items
  /\ EquipSlot \in [Items -> (1 .. Inv) \cup {Outside}]
  /\ DOMAIN InitialItems = Containers \cup {Me}
  /\ InitialItems[Me] \in [1 .. Inv -> Items \cup {Empty}]
  /\ \A h \in Containers : InitialItems[h] \in [Inv + 1 .. Inv + Box -> Items \cup {Empty}]
  /\ ~HasBackpack => \A s \in 1 .. Inv : s >= Backpack => InitialItems[Me][s] = Empty
  /\ MaxClicks \in Nat /\ MaxChanges \in Nat

VARIABLES
  interactive_id,     \* map.interactive_id: the object the player stands on
  container_id,       \* GameScreen.container_id: whose items the view shows
  container_visible,  \* GameScreen.container_visible
  shown,              \* the _item of each slot on the screen
  held,               \* the inventory of each object of the map
  drag,               \* the slot whose item is being dragged
  win,                \* where the window thread is, and what it has read
  net,                \* where the network thread is, and the stat it handles
  c2s,                \* requests on their way to the server
  s2c,                \* stats on their way to the client
  server,             \* the items as the server has them
  causes,             \* history: what went wrong that may leave the view stale
  clicks, changes,    \* counters for the bounds
  panicked            \* whether a slot index was out of range

inventoryVars == <<interactive_id, container_id, container_visible, shown, held, drag,
          win, net, c2s, s2c, server, causes, clicks, changes, panicked>>

screen == <<interactive_id, container_id, container_visible>>
wires  == <<c2s, s2c, server, changes>>

InvSlots == 1 .. Inv
BoxSlots == Inv + 1 .. Inv + Box
Slots    == InvSlots \cup BoxSlots
Held     == Items \cup {Empty}
Holders  == Containers \cup {Me}
SlotsOf(h) == IF h = Me THEN InvSlots ELSE BoxSlots
Causes   == {"missed", "late", "overlap", "refused"}

\* A request names an object and the item in a slot of it; a swap names two.
ItemAt(h, s, i) == [holder |-> h, slot |-> s, item |-> i]
Request(kind, from, to) ==
  [kind |-> kind, from |-> from, to |-> to, view |-> container_id]
Nowhere == ItemAt(None, Outside, Empty)

Idle == [at |-> "idle"]

InventoryInit ==
  /\ interactive_id = None /\ container_id = None /\ container_visible = FALSE
  /\ server = InitialItems /\ held = InitialItems
  /\ shown = [s \in Slots |-> IF s \in InvSlots THEN InitialItems[Me][s] ELSE Empty]
  /\ drag = None /\ win = Idle /\ net = Idle
  /\ c2s = <<>> /\ s2c = <<>>
  /\ causes = {} /\ clicks = 0 /\ changes = 0 /\ panicked = FALSE

-----------------------------------------------------------------------------
(* The window thread: map.update.                                          *)

\* A frame begins by forgetting the interactive object.
UpdateBegins ==
  /\ win = Idle
  /\ interactive_id' = None
  /\ win' = [at |-> "update"]
  /\ UNCHANGED <<container_id, container_visible, shown, held, drag, net, wires,
                 causes, clicks, panicked>>

UpdateFindsOnce(o) ==
  /\ win.at = "update"
  /\ interactive_id' = o
  /\ win' = IF o = Portal THEN Idle
            ELSE IF container_id # None THEN [at |-> "open", id |-> o]
            ELSE [at |-> "load", id |-> o, items |-> held[o]]
  /\ UNCHANGED <<container_id, container_visible, shown, held, drag, net, wires,
                 causes, clicks, panicked>>

\* The first interactive object near the player is published; which one is
\* first changes as the entities are sorted anew every frame.
UpdateFinds(o) ==
  /\ win.at = "update"
  /\ interactive_id' = o
  /\ win' = IF o = Portal THEN Idle
            ELSE IF o = container_id THEN [at |-> "open", id |-> o]
            ELSE [at |-> "load", id |-> o, items |-> held[o]]
  /\ UNCHANGED <<container_id, container_visible, shown, held, drag, net, wires,
                 causes, clicks, panicked>>

\* History: what a view that is filled anew does not suffer from.
Refilled == causes \ {"missed", "late"}

\* The items read from a container that was not shown are put in the view.
UpdateLoads ==
  /\ win.at = "load"
  /\ shown' = [s \in Slots |-> IF s \in BoxSlots THEN win.items[s] ELSE shown[s]]
  /\ win' = [at |-> "open", id |-> win.id]
  /\ causes' = Refilled
  /\ UNCHANGED <<screen, held, drag, net, wires, clicks, panicked>>

\* Mutant: the container on view stays the first.
UpdateOpensFirst ==
  /\ win.at = "open"
  /\ container_id' = IF container_id = None THEN win.id ELSE container_id
  /\ container_visible' = TRUE
  /\ win' = Idle
  /\ UNCHANGED <<interactive_id, shown, held, drag, net, wires, causes, clicks,
                 panicked>>

UpdateOpens ==
  /\ win.at = "open"
  /\ container_id' = win.id
  /\ container_visible' = TRUE
  /\ win' = Idle
  /\ UNCHANGED <<interactive_id, shown, held, drag, net, wires, causes, clicks,
                 panicked>>

\* Nothing interactive is near: the view is emptied and closed.
UpdateCloses ==
  /\ win.at = "update"
  /\ shown' = IF container_id = None THEN shown
              ELSE [s \in Slots |-> IF s \in BoxSlots THEN Empty ELSE shown[s]]
  /\ causes' = IF container_id = None THEN causes ELSE Refilled
  /\ container_id' = None
  /\ container_visible' = FALSE
  /\ win' = Idle
  /\ UNCHANGED <<interactive_id, held, drag, net, wires, clicks, panicked>>

-----------------------------------------------------------------------------
(* The window thread: the callbacks of the slots.                          *)

\* Where the mouse is: the slots of a closed view are not there.
findSlotId(s) ==
  IF s \in InvSlots \/ (s \in BoxSlots /\ container_visible) THEN s ELSE Outside

\* The player's slots that are empty; the search does not know the backpack.
nextAvailableSlot ==
  LET free == {s \in InvSlots : shown[s] = Empty}
  IN  IF free = {} THEN Outside ELSE CHOOSE s \in free : \A t \in free : s <= t

Send(request) == c2s' = Append(c2s, request)

\* What swapSlots calls the object of a slot.
NameOf(s) == IF s \in BoxSlots THEN interactive_id ELSE Me

\* swapSlots takes the items of both slots; what it does with them, and with
\* what request it ends, are the next steps.  No slot at all as the first one
\* is an index out of range.
swapSlots(from, to) ==
  /\ panicked' = (from = Outside)
  /\ win' = IF from = Outside THEN Idle
            ELSE IF to = Outside THEN [at |-> "drop", from |-> from]
            ELSE [at |-> "swap", from |-> from, to |-> to,
                  first |-> shown[from], second |-> shown[to]]

Click(s) ==
  /\ win = Idle /\ clicks < MaxClicks
  /\ shown[s] # Empty
  /\ clicks' = clicks + 1

\* Nothing but the click itself has happened.
JustClicked == UNCHANGED <<screen, shown, held, net, s2c, server, causes, changes>>

itemDragBegin(s) ==
  /\ Click(s) /\ drag = None
  /\ drag' = s
  /\ JustClicked /\ UNCHANGED <<win, c2s, panicked>>

\* The item is let go over the slot s, or over none.
itemDragEnd(s) ==
  /\ win = Idle /\ drag # None
  /\ drag' = None
  /\ LET from == findSlotId(drag)
         to   == findSlotId(s)
     IN  IF from = to THEN UNCHANGED <<win, panicked>> ELSE swapSlots(from, to)
  /\ UNCHANGED <<screen, shown, held, net, wires, causes, clicks>>

UseItem(h, s, i) == Send(Request("use", ItemAt(h, s, i), Nowhere))

\* A double click, or a number key for a slot of the player's: a potion is
\* drunk, an item of the container taken, another item worn.  The keys work
\* while the mouse drags.
itemDoubleClick(s) ==
  /\ drag = None \/ s \in InvSlots
  /\ Click(s) /\ JustClicked /\ UNCHANGED drag
  /\ LET from == findSlotId(s)
         item == shown[s]
         to   == IF from \in BoxSlots THEN nextAvailableSlot ELSE EquipSlot[item]
     IN  IF item \in Consumables /\ from \notin BoxSlots
         THEN UseItem(Me, from, item) /\ UNCHANGED <<win, panicked>>
         ELSE /\ UNCHANGED c2s
              /\ IF from \notin BoxSlots /\ to \in {Outside, from}
                 THEN UNCHANGED <<win, panicked>>
                 ELSE swapSlots(from, to)

\* A click with shift down uses a consumable, of the container too.
itemShiftClick(s) ==
  /\ shown[s] \in Consumables
  /\ Click(s) /\ drag = None /\ JustClicked /\ UNCHANGED <<drag, win, panicked>>
  /\ LET from == findSlotId(s)
     IN  UseItem(IF from \in BoxSlots THEN container_id ELSE Me, from, shown[s])

\* Without a backpack its slots take nothing: the first item is put back.
SwapRefused ==
  /\ win.at = "swap"
  /\ win.to \in InvSlots /\ win.to >= Backpack /\ ~HasBackpack
  /\ shown' = [shown EXCEPT ![win.from] = win.first]
  /\ win' = Idle
  /\ UNCHANGED <<screen, held, drag, net, wires, causes, clicks, panicked>>

\* Mutant: nobody looks for a backpack.
SwapFirstUnchecked ==
  /\ win.at = "swap"
  /\ shown' = [shown EXCEPT ![win.from] = win.second]
  /\ win' = [win EXCEPT !.at = "swapped"]
  /\ UNCHANGED <<screen, held, drag, net, wires, causes, clicks, panicked>>

SwapFirst ==
  /\ win.at = "swap"
  /\ win.to \in BoxSlots \/ win.to < Backpack \/ HasBackpack
  /\ shown' = [shown EXCEPT ![win.from] = win.second]
  /\ win' = [win EXCEPT !.at = "swapped"]
  /\ UNCHANGED <<screen, held, drag, net, wires, causes, clicks, panicked>>

\* The second slot is written and the server asked for the same.
SwapSecond ==
  /\ win.at = "swapped"
  /\ shown' = [shown EXCEPT ![win.to] = win.first]
  /\ Send(Request("swap", ItemAt(NameOf(win.from), win.from, win.first),
                          ItemAt(NameOf(win.to), win.to, win.second)))
  /\ win' = Idle
  /\ UNCHANGED <<screen, held, drag, net, s2c, server, changes, causes, clicks,
                 panicked>>

\* A drop empties the slot first, and then takes the item it names from it.
DropClears ==
  /\ win.at = "drop"
  /\ shown' = [shown EXCEPT ![win.from] = Empty]
  /\ win' = [win EXCEPT !.at = "dropped"]
  /\ UNCHANGED <<screen, held, drag, net, wires, causes, clicks, panicked>>

DropSends ==
  /\ win.at = "dropped"
  /\ Send(Request("drop", ItemAt(NameOf(win.from), win.from, shown[win.from]), Nowhere))
  /\ win' = Idle
  /\ UNCHANGED <<screen, shown, held, drag, net, s2c, server, changes, causes,
                 clicks, panicked>>

-----------------------------------------------------------------------------
(* The network thread: parsePlrStatData and parseObjStatData.              *)

\* The item is stored in the object it belongs to.
StatStored ==
  /\ net = Idle /\ s2c # <<>>
  /\ LET stat == Head(s2c)
     IN  /\ held' = [held EXCEPT ![stat.holder][stat.slot] = stat.item]
         /\ net' = [at |-> "stored", stat |-> stat]
  /\ s2c' = Tail(s2c)
  /\ UNCHANGED <<screen, shown, drag, win, c2s, server, changes, causes, clicks,
                 panicked>>

\* Whose items the view shows or is about to show.
Viewed == IF win.at \in {"load", "open"} THEN win.id ELSE container_id

\* The item of a container is shown only if the player stands on it now.
StatChecked ==
  /\ net.at = "stored"
  /\ LET mine == net.stat.holder \in {Me, interactive_id}
     IN  /\ net' = IF mine THEN [net EXCEPT !.at = "checked"] ELSE Idle
         /\ causes' = IF ~mine /\ net.stat.holder = Viewed
                      THEN causes \cup {"missed"} ELSE causes
  /\ UNCHANGED <<screen, shown, held, drag, win, wires, clicks, panicked>>

\* History: the window thread has read slot s and is about to write it.
AboutToWrite(s) ==
  \/ win.at = "load" /\ s \in BoxSlots
  \/ win.at = "swap" /\ s = win.from

StatShown ==
  /\ net.at = "checked"
  /\ shown' = [shown EXCEPT ![net.stat.slot] = net.stat.item]
  /\ net' = Idle
  /\ causes' = causes
       \cup (IF net.stat.holder \notin {Me, Viewed} THEN {"late"} ELSE {})
       \cup (IF AboutToWrite(net.stat.slot) THEN {"overlap"} ELSE {})
  /\ UNCHANGED <<screen, held, drag, win, wires, clicks, panicked>>

-----------------------------------------------------------------------------
(* The server: it does what it is asked if the items named are there, and  *)
(* reports the slots that changed.                                         *)

Has(place) ==
  /\ place.holder \in Holders
  /\ place.slot \in SlotsOf(place.holder)
  /\ place.item = server[place.holder][place.slot]

Report(places) == s2c' = s2c \o places

Put(place, i) == ItemAt(place.holder, place.slot, i)

ServerSwaps ==
  /\ c2s # <<>> /\ Head(c2s).kind = "swap"
  /\ LET r == Head(c2s) IN
       /\ Has(r.from) /\ Has(r.to)
       /\ server' = [server EXCEPT ![r.from.holder][r.from.slot] = r.to.item,
                                   ![r.to.holder][r.to.slot] = r.from.item]
       /\ Report(<<Put(r.from, r.to.item), Put(r.to, r.from.item)>>)
  /\ c2s' = Tail(c2s)
  /\ UNCHANGED <<screen, shown, held, drag, win, net, changes, causes, clicks, panicked>>

\* An item that is dropped or used leaves its slot.
ServerTakes ==
  /\ c2s # <<>> /\ Head(c2s).kind \in {"drop", "use"}
  /\ LET r == Head(c2s) IN
       /\ Has(r.from) /\ r.from.item # Empty
       /\ server' = [server EXCEPT ![r.from.holder][r.from.slot] = Empty]
       /\ Report(<<Put(r.from, Empty)>>)
  /\ c2s' = Tail(c2s)
  /\ UNCHANGED <<screen, shown, held, drag, win, net, changes, causes, clicks, panicked>>

\* Its refusal, inv_result, is read and changes nothing in the client.
ServerRefuses ==
  /\ c2s # <<>>
  /\ LET r == Head(c2s) IN
       \/ ~Has(r.from)
       \/ r.kind = "swap" /\ ~Has(r.to)
       \/ r.kind # "swap" /\ r.from.item = Empty
  /\ c2s' = Tail(c2s)
  /\ causes' = causes \cup {"refused"}
  /\ UNCHANGED <<screen, shown, held, drag, win, net, s2c, server, changes, clicks, panicked>>

\* Somebody else takes something out of a container, or puts something in.
OthersChange(h, s, i) ==
  /\ changes < MaxChanges
  /\ server[h][s] # i
  /\ server' = [server EXCEPT ![h][s] = i]
  /\ Report(<<ItemAt(h, s, i)>>)
  /\ changes' = changes + 1
  /\ UNCHANGED <<screen, shown, held, drag, win, net, c2s, causes, clicks, panicked>>

-----------------------------------------------------------------------------
Update ==
  \/ UpdateBegins \/ UpdateLoads \/ UpdateOpens \/ UpdateCloses
  \/ \E o \in Containers \cup {Portal} : UpdateFinds(o)

Callback ==
  \/ \E s \in Slots : itemDragBegin(s) \/ itemDoubleClick(s) \/ itemShiftClick(s)
  \/ \E s \in Slots \cup {Outside} : itemDragEnd(s)
  \/ SwapRefused \/ SwapFirst \/ SwapSecond \/ DropClears \/ DropSends

Stat == StatStored \/ StatChecked \/ StatShown

Server ==
  \/ ServerSwaps \/ ServerTakes \/ ServerRefuses
  \/ \E h \in Containers, s \in BoxSlots, i \in Held : OthersChange(h, s, i)

InventoryNext == ~panicked /\ (Update \/ Callback \/ Stat \/ Server)

InventorySpec == InventoryInit /\ [][InventoryNext]_inventoryVars

-----------------------------------------------------------------------------
Places == [holder : Holders \cup {Portal, None}, slot : Slots \cup {Outside}, item : Held]
Requests == [kind : {"use", "swap", "drop"}, from : Places, to : Places,
             view : Containers \cup {None}]

\* Every variable stays in its range.
InventoryTypeOK ==
  /\ interactive_id \in Containers \cup {Portal, None}
  /\ container_id \in Containers \cup {None}
  /\ container_visible \in BOOLEAN
  /\ shown \in [Slots -> Held]
  /\ \A h \in Holders : held[h] \in [SlotsOf(h) -> Held]
                      /\ server[h] \in [SlotsOf(h) -> Held]
  /\ drag \in Slots \cup {None}
  /\ win.at \in {"idle", "update", "load", "open", "swap", "swapped", "drop", "dropped"}
  /\ net.at \in {"idle", "stored", "checked"}
  /\ \A i \in DOMAIN c2s : c2s[i] \in Requests
  /\ \A i \in DOMAIN s2c : s2c[i] \in Places
  /\ causes \subseteq Causes
  /\ clicks \in 0 .. MaxClicks /\ changes \in 0 .. MaxChanges
  /\ panicked \in BOOLEAN

\* Nothing is being done, asked or told.
Settled == win = Idle /\ net = Idle /\ c2s = <<>> /\ s2c = <<>> /\ drag = None

\* The client moves items before the server has agreed and never compares
\* notes, but once everything asked and told has been handled the screen shows
\* what the server has, in the inventory and in the view.  It may not when a
\* stat of the container on view came while interactive_id did not name it (in
\* the middle of map.update, or behind a portal), when a stat was shown after
\* the view had changed, when a callback or a view being filled wrote over a
\* stat, or when the server refused a request.
SettledShowsServer ==
  Settled /\ causes = {} =>
    /\ \A s \in InvSlots : shown[s] = server[Me][s]
    /\ \A s \in BoxSlots :
         shown[s] = IF container_id = None THEN Empty ELSE server[container_id][s]

\* A request for an item of the view never names another container than the
\* one on view: swapSlots takes interactive_id for container_id, and the only
\* other object it can name is one that is no container.
NamesTheShown ==
  \A i \in DOMAIN c2s :
    {c2s[i].from.holder, c2s[i].to.holder} \subseteq {Me, Portal, c2s[i].view}
      \cup (IF c2s[i].kind = "swap" THEN {} ELSE {None})

\* A player without a backpack never sees an item in its slots, though the
\* search for a free slot and the mouse both find them.
ClosedSlotsStayEmpty ==
  ~HasBackpack => \A s \in InvSlots : s >= Backpack => shown[s] = Empty

\* The index of a slot is out of range only for an item of a view that is
\* closed: dragged when the player walked away, or shown too late.
PanicsOnlyWhenClosed == panicked => ~container_visible

\* The slots are those the player has: an index is out of range, or a slot
\* that is not his used, only in the cases above.
\* (game_screen.zig 21-89, 520-587)
SlotsSound == InventoryTypeOK /\ ClosedSlotsStayEmpty /\ PanicsOnlyWhenClosed

=============================================================================
