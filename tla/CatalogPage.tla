----------------------------- MODULE CatalogPage ------------------------------
(***************************************************************************)
(* The pages of the admin console that edit the catalog: trips, vehicles,  *)
(* routes and stops (web/app/admin), with the resolvers and the procedures *)
(* of Trip Service behind them.                                            *)
(*                                                                         *)
(* A page fetches its list once and then keeps it up by hand: the handler  *)
(* of a click puts its result into the list it saw when it was clicked.    *)
(* While a handler runs the buttons are disabled.  A request has a         *)
(* deadline; it may be executed after the page has given up or is gone.    *)
(* Other administrators edit the same rows.                                *)
(*                                                                         *)
(* A row is its fields (one value) and its state: the status of a trip,    *)
(* the number of seats of a vehicle.  Routes and stops are plain.  An      *)
(* update overwrites the fields and, of a vehicle, the number of seats;    *)
(* the number is refused when it is not that of the vehicle's layout.      *)
(***************************************************************************)
EXTENDS Naturals

CONSTANTS
    Item,
    Field,       \* the values of the fields
    Slot,        \* requests in flight (bound)
    MaxClicks,   \* clicks of this and edits of other administrators (bound)
    Unborn, Deleted,   \* what a row is before and after it is stored
    None

VARIABLES
    kind,      \* which page this is
    row,       \* the table in PostgreSQL
    laid,      \* the vehicles that have a layout, vehicle_seats
    list,      \* trips, vehicles, routes or stops of the page
    page,
    work,      \* the request in each slot, and the handler that waits for it
    touched,   \* for the properties: rows changed behind the page's back
    clicks

vars == <<kind, row, laid, list, page, work, touched, clicks>>

Kinds == {"trips", "vehicles", "plain"}

Numbers == {"few", "many"}

States == {"DRAFT", "ACTIVE", "OTHER"} \cup Numbers

\* What the form sends as state: the number of seats typed in it, or left from the
\* row it was opened on.  A status is sent only of a new trip.
Typed == IF kind = "vehicles" THEN Numbers ELSE {"DRAFT"}

Row == [fields : Field, state : States]

MaybeItem == Item \cup {None}

Lists == [Item -> Row \cup {None}]

Ops == {"fetch", "create", "update", "delete", "status", "configure", "seats", "block"}

\* list: the list the handler was clicked with, or the one a fetch brings.
Work == [op : Ops, item : MaybeItem, row : Row \cup {None}, list : Lists,
         live : BOOLEAN, step : {"sent", "done", "refused"}]

\* form: the row being edited; map: whose seats are shown, tripSeats and
\* generatedSeats.
Page == [loaded : BOOLEAN, loading : BOOLEAN, form : MaybeItem, dialog : MaybeItem,
         map : MaybeItem]

RowsAreTold ==
    /\ Unborn # Deleted /\ {Unborn, Deleted, None} \cap Row = {}
    /\ None \notin Item /\ None \notin Work

TypeOK ==
    /\ kind \in Kinds
    /\ row \in [Item -> Row \cup {Unborn, Deleted}]
    /\ laid \in SUBSET Item
    /\ list \in Lists
    /\ page \in Page
    /\ work \in [Slot -> Work \cup {None}]
    /\ touched \in SUBSET Item
    /\ clicks \in 0..MaxClicks

Stored(i) == row[i] \notin {Unborn, Deleted}

Rows == [i \in Item |-> IF Stored(i) THEN row[i] ELSE None]

Empty == [i \in Item |-> None]

Mounted == [loaded |-> FALSE, loading |-> TRUE, form |-> None, dialog |-> None,
            map |-> None]

Request(op, i, r, l) ==
    [op |-> op, item |-> i, row |-> r, list |-> l, live |-> TRUE, step |-> "sent"]

Fetch == Request("fetch", None, None, Empty)

Init ==
    /\ kind \in Kinds
    /\ \E kept \in SUBSET Item, f \in Field, state \in Typed :
          /\ row = [i \in Item |-> IF i \in kept THEN [fields |-> f, state |-> state] ELSE Unborn]
          /\ laid \in IF kind = "vehicles" THEN SUBSET kept ELSE {{}}
    /\ list = Empty
    /\ page = Mounted
    /\ work = [x \in Slot |-> IF x = CHOOSE s \in Slot : TRUE THEN Fetch ELSE None]
    /\ touched = {}
    /\ clicks = 0

Counted == clicks < MaxClicks /\ clicks' = clicks + 1

------------------------------------------------------------------------------
(* Clicks *)

\* disabled={loading}
Ready == ~page.loading

\* The table and the form are hidden or covered by a dialog.
Table == Ready /\ page.dialog = None

Click(s, request) ==
    /\ Counted
    /\ work[s] = None
    /\ work' = [work EXCEPT ![s] = request]
    /\ page' = [page EXCEPT !.loading = TRUE]
    /\ UNCHANGED <<kind, row, laid, list, touched>>

Show(shown) ==
    /\ page' = shown
    /\ UNCHANGED <<kind, row, laid, list, work, touched>>

StartEdit(i) ==
    /\ Table /\ Counted
    /\ list[i] # None
    /\ Show([page EXCEPT !.form = i])

CancelEdit ==
    /\ page.form # None /\ Counted
    /\ Show([page EXCEPT !.form = None])

\* handleCreateOrUpdate; a new trip may be on sale at once.
Create(s, i, f) ==
    /\ Table
    /\ page.form = None
    /\ row[i] = Unborn
    /\ i \notin {work[x].item : x \in {y \in Slot : work[y] # None}}
    /\ \E state \in IF kind = "trips" THEN {"DRAFT", "ACTIVE"} ELSE Typed :
          Click(s, Request("create", i, [fields |-> f, state |-> state], list))

Update(s, f) ==
    /\ Table
    /\ page.form # None
    /\ \E state \in Typed :
          Click(s, Request("update", page.form, [fields |-> f, state |-> state], list))

\* handleDelete
Delete(s, i) ==
    /\ Table
    /\ list[i] # None
    /\ Click(s, Request("delete", i, None, list))

\* TRIP_STATUS_TRANSITIONS; "OTHER" has several statuses.
Allowed(from, to) ==
    \/ from = to
    \/ <<from, to>> \in {<<"DRAFT", "ACTIVE">>, <<"DRAFT", "OTHER">>, <<"ACTIVE", "OTHER">>}

\* handleUpdateStatus: the menu offers what is allowed from the listed status.
SetStatus(s, i, state) ==
    /\ kind = "trips" /\ Table
    /\ list[i] # None
    /\ Allowed(list[i].state, state)
    /\ Click(s, Request("status", i, [list[i] EXCEPT !.state = state], list))

\* handleOpenBlockSeats: the seats of the last trip stay until its own come.
OpenSeats(s, i) ==
    /\ kind = "trips" /\ Table
    /\ list[i] # None
    /\ Counted
    /\ work[s] = None
    /\ work' = [work EXCEPT ![s] = Request("seats", i, None, Empty)]
    /\ page' = [page EXCEPT !.loading = TRUE, !.dialog = i]
    /\ UNCHANGED <<kind, row, laid, list, touched>>

\* There are seats to select, or a grid to save.
SeatsShown == page.dialog # None /\ page.map # None

\* handleBlockSeatsSubmit: marks the blocked seats in the map it was clicked with.
BlockSeats(s) ==
    /\ kind = "trips" /\ Ready /\ SeatsShown
    /\ Click(s, Request("block", page.map, None, Empty))

\* The panel that configures seats, and its preview (generateSeatGrid).
OpenLayout(i) ==
    /\ kind = "vehicles" /\ Table /\ Counted
    /\ list[i] # None
    /\ Show([page EXCEPT !.dialog = i])

Preview ==
    /\ kind = "vehicles" /\ Ready /\ Counted
    /\ page.dialog # None
    /\ Show([page EXCEPT !.map = page.dialog])

\* handleSaveSeats
SaveLayout(s, number) ==
    /\ kind = "vehicles" /\ Ready /\ SeatsShown
    /\ list[page.dialog] # None
    /\ Click(s, Request("configure", page.dialog, [list[page.dialog] EXCEPT !.state = number], list))

\* The cross of the dialog keeps the seats it showed; Back drops the grid.
Closed == [page EXCEPT !.dialog = None, !.map = IF kind = "vehicles" THEN None ELSE @]

\* Both are enabled while a handler runs.
CloseDialog ==
    /\ page.dialog # None /\ Counted
    /\ Show(Closed)

Writes == {"create", "update", "delete", "status", "configure"}

\* A request nobody waits for any more; of a write the server may still have it.
Abandoned(w) ==
    IF w # None /\ w.op \in Writes /\ w.step = "sent"
    THEN [w EXCEPT !.live = FALSE, !.list = Empty] ELSE None

\* The administrator leaves the page, or reloads it, and is back: it fetches anew.
Revisit(s) ==
    /\ Counted
    /\ work[s] = None
    /\ work' = [x \in Slot |-> IF x = s THEN Fetch ELSE Abandoned(work[x])]
    /\ page' = Mounted
    /\ list' = Empty
    /\ UNCHANGED <<kind, row, laid, touched>>

------------------------------------------------------------------------------
(* Trip Service *)

\* The outcome on its way to the page, if it is still there.
Answer(s, w) == work' = [work EXCEPT ![s] = IF w.live THEN w ELSE None]

Refuse(s) == Answer(s, [work[s] EXCEPT !.step = "refused"]) /\ UNCHANGED <<row, laid, touched>>

\* What the page does itself it knows; what an abandoned request does it does not.
Behind(s) == IF work[s].live THEN touched ELSE touched \cup {work[s].item}

\* updateTrip, updateVehicle, ...: an edit writes the fields, of a vehicle also the
\* number of seats.
Edited(i, r) == IF kind = "vehicles" THEN r ELSE [row[i] EXCEPT !.fields = r.fields]

\* Mutant form: the number of seats is not compared with the layout.
EditAcceptedAny(i, r) == row[i] # None

\* updateVehicle refuses another number of seats than the layout has.
EditAccepted(i, r) == i \in laid => r.state = row[i].state

\* NOT_FOUND otherwise
Found(i) == Stored(i)

\* The row after the request, if it is accepted.
Executed(w) ==
    CASE w.op = "create" -> w.row
      [] w.op = "update" -> IF Stored(w.item) THEN Edited(w.item, w.row) ELSE w.row
      [] w.op = "delete" -> Deleted
      [] OTHER -> [row[w.item] EXCEPT !.state = w.row.state]

Accepted(w) ==
    CASE w.op = "create" -> TRUE
      [] w.op = "update" -> Found(w.item) /\ (Stored(w.item) => EditAccepted(w.item, w.row))
      [] w.op = "status" -> Stored(w.item) /\ Allowed(row[w.item].state, w.row.state)
      [] OTHER -> Stored(w.item)

\* configureVehicleSeats; deleting a vehicle deletes its layout.
LaidBy(w) ==
    CASE w.op = "configure" -> laid \cup {w.item}
      [] w.op = "delete" -> laid \ {w.item}
      [] OTHER -> laid

\* What the server lists
Listed(w) == [w EXCEPT !.step = "done", !.list = Rows]

\* The request is executed, or refused for this or another reason: references to
\* the row, the role of the caller.  Its reply carries the row.
Serve(s) ==
    LET w == work[s] IN
    /\ w # None /\ w.step = "sent"
    /\ \/ Refuse(s)
       \/ /\ w.op = "fetch"
          /\ Answer(s, Listed(w))
          /\ touched' = {}
          /\ UNCHANGED <<row, laid>>
       \/ /\ w.op \in {"seats", "block"}
          /\ Answer(s, [w EXCEPT !.step = "done"])
          /\ UNCHANGED <<row, laid, touched>>
       \/ /\ w.op \in Writes
          /\ Accepted(w)
          /\ row' = [row EXCEPT ![w.item] = Executed(w)]
          /\ laid' = LaidBy(w)
          /\ Answer(s, [w EXCEPT !.step = "done",
                                 !.row = IF w.op = "update" THEN row'[w.item] ELSE w.row])
          /\ touched' = Behind(s)
    /\ UNCHANGED <<kind, list, page, clicks>>

\* Another administrator, or a call in another tab.
OtherEdits(i) ==
    /\ Counted
    /\ Stored(i)
    /\ \/ row' = [row EXCEPT ![i] = Deleted] /\ laid' = laid \ {i}
       \/ \E f \in Field, state \in Typed :
             LET r == [fields |-> f, state |-> state] IN
             EditAccepted(i, r) /\ row' = [row EXCEPT ![i] = Edited(i, r)] /\ UNCHANGED laid
       \/ \E state \in States :
             /\ kind = "trips" /\ Allowed(row[i].state, state)
             /\ row' = [row EXCEPT ![i].state = state]
             /\ UNCHANGED laid
       \/ \E number \in Numbers :
             /\ kind = "vehicles"
             /\ row' = [row EXCEPT ![i].state = number]
             /\ laid' = laid \cup {i}
    /\ touched' = touched \cup {i}
    /\ UNCHANGED <<kind, list, page, work>>

------------------------------------------------------------------------------
(* Handlers *)

\* The list as the handler sets it over the one that is shown.
Relisted(w, shown) ==
    CASE w.op = "fetch" -> w.list
      [] w.op \in {"create", "update"} -> [w.list EXCEPT ![w.item] = w.row]
      [] w.op = "delete" -> [w.list EXCEPT ![w.item] = None]
      [] w.op \in {"status", "configure"} ->
            [w.list EXCEPT ![w.item] = [w.list[w.item] EXCEPT !.state = w.row.state]]
      [] OTHER -> shown

Succeeded(w) ==
    LET p == [page EXCEPT !.loading = FALSE] IN
    CASE w.op = "fetch" -> [p EXCEPT !.loaded = TRUE]
      [] w.op \in {"create", "update"} -> [p EXCEPT !.form = None]
      [] w.op = "configure" -> [p EXCEPT !.dialog = None, !.map = None]
      [] w.op \in {"seats", "block"} -> [p EXCEPT !.map = w.item]
      [] OTHER -> p

Failed(w) == [page EXCEPT !.loading = FALSE, !.map = IF w.op = "seats" THEN None ELSE @]

Reply(s) ==
    LET w == work[s] IN
    /\ w # None /\ w.step # "sent"
    /\ work' = [work EXCEPT ![s] = None]
    /\ IF w.step = "done" THEN list' = Relisted(w, list) /\ page' = Succeeded(w)
       ELSE page' = Failed(w) /\ UNCHANGED list
    /\ UNCHANGED <<kind, row, laid, touched, clicks>>

\* The page gives up; the request may yet be executed, or its reply is lost.
Deadline(s) ==
    LET w == work[s] IN
    /\ w # None /\ w.live
    /\ page' = Failed(w)
    /\ work' = [work EXCEPT ![s] = Abandoned(w)]
    /\ touched' = IF w.step = "done" /\ w.item # None THEN touched \cup {w.item} ELSE touched
    /\ UNCHANGED <<kind, row, laid, list, clicks>>

------------------------------------------------------------------------------
SlotStep(s) ==
    \/ \E i \in Item, f \in Field : Create(s, i, f)
    \/ \E f \in Field : Update(s, f)
    \/ \E i \in Item : Delete(s, i) \/ OpenSeats(s, i)
    \/ \E i \in Item, state \in States : SetStatus(s, i, state)
    \/ \E number \in Numbers : SaveLayout(s, number)
    \/ BlockSeats(s) \/ Revisit(s)
    \/ Serve(s) \/ Reply(s) \/ Deadline(s)

Next ==
    \/ \E s \in Slot : SlotStep(s)
    \/ \E i \in Item : StartEdit(i) \/ OpenLayout(i) \/ OtherEdits(i)
    \/ CancelEdit \/ Preview \/ CloseDialog

RequestEnds(s) == Reply(s) \/ Deadline(s)

\* Every request has a deadline.
Fairness == \A s \in Slot : WF_vars(RequestEnds(s))

Spec == Init /\ [][Next]_vars /\ Fairness

------------------------------------------------------------------------------
(* Properties *)

\* While no handler runs, the list a page keeps by hand is the table, except for
\* rows that others or requests the page gave up have changed since it was fetched.
ListTrue ==
    page.loaded /\ ~page.loading => \A i \in Item \ touched : list[i] = Rows[i]

\* A save changes neither the status of a trip nor the number of seats of a vehicle
\* that has a layout when the save is executed, however old the form: the form sends
\* no status, and a number that is not the layout's is refused.  The fields, and the
\* number of seats of a vehicle without layout, are overwritten whoever changed them
\* since.
StateStands ==
    \A s \in Slot, i \in Item :
        /\ work[s] # None /\ work'[s] # work[s]
        /\ work[s].op = "update" /\ work[s].step = "sent"
        /\ Stored(i) /\ Stored(i)'
        /\ kind = "vehicles" => i \in laid
        => row'[i].state = row[i].state

\* A row that was deleted does not come back, whichever form is still open for it
\* and whenever its request is executed.
DeletionStands == \A i \in Item : row[i] = Deleted => row'[i] = Deleted

\* While no handler runs, a dialog shows the seats of its own trip or vehicle, or
\* none, and so what is blocked or saved is what the administrator sees.
DialogShowsItsOwn ==
    page.dialog # None /\ ~page.loading => page.map \in {None, page.dialog}

Done(s) == work[s] # None /\ work[s].step = "done"

Live(s) == work[s] # None /\ work[s].live

\* The invariant behind these.  A request has what its operation needs.
WorkSound(w) ==
    /\ w.op \in {"create", "update", "status", "configure"} => w.row \in Row
    /\ w.op # "fetch" => w.item \in Item
    /\ w.op \in {"status", "configure"} /\ w.live => w.list[w.item] # None
    /\ w.step # "sent" \/ w.op \notin Writes => w.live

\* Of an item that is not born nobody knows but one request that creates it.
BirthSound ==
    /\ \A i \in Item : row[i] = Unborn =>
          /\ list[i] = None
          /\ i \notin {page.form, page.dialog, page.map}
          /\ \A s \in Slot : work[s] # None => work[s].list[i] = None
    /\ \A s \in Slot : work[s] # None /\ work[s].op # "fetch" /\ row[work[s].item] = Unborn =>
          work[s].op = "create" /\ work[s].step # "done"
    /\ \A s \in Slot : work[s] # None /\ work[s].op = "create" /\ work[s].step = "sent" =>
          /\ row[work[s].item] = Unborn
          /\ \A t \in Slot \ {s} : work[t] # None => work[t].item # work[s].item

\* At most one handler runs, while the page says so, on the list it was clicked with.
HandlerSound ==
    \A s \in Slot : Live(s) =>
        /\ page.loading
        /\ \A t \in Slot \ {s} : ~Live(t)
        /\ work[s].op = "fetch" => ~page.loaded
        /\ work[s].op \in Writes => work[s].list = list
        /\ kind = "trips" /\ page.dialog # None =>
              /\ work[s].op \in {"seats", "block"}
              /\ work[s].item = page.dialog
              /\ work[s].op = "block" => page.map = page.dialog

\* The list, or the one the handler that is done will set, is the table.
ListSound ==
    /\ page.loaded /\ (\A s \in Slot : ~Done(s)) => \A i \in Item \ touched : list[i] = Rows[i]
    /\ \A s \in Slot : Done(s) /\ (page.loaded \/ work[s].op = "fetch") =>
          \A i \in Item \ touched : Relisted(work[s], list)[i] = Rows[i]

DialogSound ==
    /\ \A s \in Slot : work[s] # None /\ work[s].op \in {"seats", "block"} => kind = "trips"
    /\ kind = "vehicles" => page.map \in {None, page.dialog}
    /\ kind = "plain" => page.dialog = None

CatalogInv ==
    /\ TypeOK
    /\ \A s \in Slot : work[s] # None => WorkSound(work[s])
    /\ BirthSound
    /\ HandlerSound
    /\ ListSound
    /\ DialogSound
    /\ DialogShowsItsOwn

\* That the page can be used again, whatever happens to a request: Waiting ~> ~Waiting.
Waiting == page.loading
==============================================================================
