-------------------------------- MODULE Tui --------------------------------
(***************************************************************************)
(* The terminal UI of internal/tui: one message at a time (a key, a new    *)
(* size, the tick that polls Merger.Snapshot, an event) against a list of  *)
(* devices that changes between any two of them.  Update is applied whole: *)
(* update, the search for the device that was selected, clampViewport.     *)
(* Rendered text is counted in lines.  A filter text is its length and a   *)
(* device's name the longest text that finds it: the texts that matter for *)
(* one device are those that only ever get longer ("a", "aa", ...).        *)
(***************************************************************************)
EXTENDS Integers, Sequences, FiniteSets

CONSTANTS
    Session,        \* kinds of sessions
    Bound,          \* session -> what may happen in it: [snapshots, sizes, keys,
                    \* the longest filter text (runes), arriving events (arrivals)]
    StripLines,     \* MAC is known -> lines of the strip below the table
    GridLines,      \* lines of the subnet grid
    EventCap        \* events kept (200 in the code)

NoMAC == 0
Tab   == {"devices", "services", "subnet", "events"}
Key   == {"esc", "enter", "backspace", "a", "ctrl+c", "q", "1", "2", "3", "4", "/", "r",
          "?", "up", "down", "pgup", "pgdown", "home", "end"}

\* MACs and addresses are numbered in the order the table sorts them.
Device == [mac : Nat, ips : SUBSET Nat, name : Nat]

\* What one snapshot holds (Merger: OneOwnerPerIP): a MAC once, an address once, and
\* without a MAC exactly one address.
WellFormed(list) ==
    /\ \A d, e \in list :
          d # e => d.ips \cap e.ips = {} /\ (d.mac # e.mac \/ d.mac = NoMAC)
    /\ \A d \in list : d.mac = NoMAC => \E i \in d.ips : d.ips = {i}

\* What Merger.Snapshot may return: sets of devices.
Snapshot == UNION {Bound[s].snapshots : s \in Session}

\* Terminal sizes, [height, wrap] records.
Size == UNION {Bound[s].sizes : s \in Session}

ASSUME InputAssumption ==
    /\ \A s \in Session :
          Bound[s].keys \subseteq Key /\ {Bound[s].runes, Bound[s].arrivals} \subseteq Nat
    /\ \A list \in Snapshot :
          list \subseteq Device /\ IsFiniteSet(list) /\ WellFormed(list)
ASSUME LinesAssumption ==
    /\ StripLines \in [BOOLEAN -> Nat \ {0}] /\ GridLines \in Nat \ {0}
    /\ \A s \in Size : s.height \in Nat /\ s.wrap \in Nat \ {0}
    /\ EventCap \in Nat \ {0}

VARIABLES
    m,          \* the Model
    arrived,    \* events that have arrived: they are numbered in that order
    request,    \* OnRescan was called: a request waits for the active worker
    session     \* what may happen; never changes

vars == <<m, arrived, request, session>>

Lesser(a, b)  == IF a < b THEN a ELSE b
Greater(a, b) == IF a > b THEN a ELSE b

----------------------------------------------------------------------------
(* The list of devices *)

\* By MAC, unknown ones first, then by address.
Before(d, e) ==
    \/ d.mac < e.mac
    \/ d.mac = e.mac /\ \E i \in d.ips : \A j \in e.ips : i < j

\* sortDevices.  Filtering keeps the order, so the Model holds each snapshot sorted.
Sorted == [list \in Snapshot |->
              [n \in 1..Cardinality(list) |->
                  CHOOSE d \in list : Cardinality({e \in list : Before(e, d)}) = n - 1]]

\* filterDevices: those that the filter finds, in their order.
Shown(u) ==
    LET among[n \in 0..Len(u.devices)] ==    \* the first n
            IF n = 0 THEN <<>>
            ELSE IF u.devices[n].name >= u.filter THEN Append(among[n - 1], u.devices[n])
            ELSE among[n - 1]
    IN  among[Len(u.devices)]

\* A known MAC is the identity of a device; without one its addresses are.
Identity(d) == [mac |-> d.mac, ips |-> d.ips]
Nothing     == [mac |-> NoMAC, ips |-> {}]

Selected(u) ==
    LET list == Shown(u)
    IN  IF u.row \in 0..(Len(list) - 1) THEN Identity(list[u.row + 1]) ELSE Nothing

Matches(id, next) ==
    IF id.mac # NoMAC THEN id.mac = next.mac ELSE id.ips \cap next.ips # {}

\* Mutant: only a MAC that was known already is followed.
RowsOfKnown(id, list) ==
    {n \in 0..(Len(list) - 1) : id.mac = list[n + 1].mac /\ Matches(id, Identity(list[n + 1]))}

\* The rows that may be the device; none when two known owners share its address.
RowsOf(id, list) ==
    LET matching == {n \in 0..(Len(list) - 1) : Matches(id, Identity(list[n + 1]))}
        anonymous == {n \in matching : list[n + 1].mac = NoMAC}
    IN  IF id.mac # NoMAC \/ Cardinality(matching) <= 1 THEN matching ELSE anonymous

----------------------------------------------------------------------------
(* Heights and lines *)

ContentHeight(u) ==
    Greater(0, u.size.height - 3 - (IF u.filterMode \/ u.filter > 0 THEN 2 ELSE 0))

\* The rows deviceLayout leaves to the table: headings and five devices come first.
Rows(u) ==
    LET list == Shown(u)
        rows == ContentHeight(u) - Lesser(2, Greater(0, ContentHeight(u) - 1))
        budget == rows - Lesser(5, Len(list))
        strip == StripLines[list[Lesser(u.row, Len(list) - 1) + 1].mac # NoMAC]
    IN  IF list = <<>> \/ budget < 3 THEN rows ELSE rows - (Lesser(strip, budget - 1) + 1)

\* Lines of the current tab's content, a line of text wrapped into u.size.wrap of them.
EventLines(u) == Greater(1, u.size.wrap * Len(u.events))

TabLines(u) ==
    CASE u.tab = "services" -> Greater(1, u.size.wrap * Len(u.devices))
      [] u.tab = "subnet"   -> u.size.wrap * GridLines
      [] u.tab = "events"   -> EventLines(u)
      [] OTHER              -> 1

\* Four lines of its own, and the strip without its heading.
DetailLines(u) ==
    LET list == Shown(u)
    IN  IF list = <<>> THEN 1
        ELSE u.size.wrap * (3 + StripLines[list[u.row + 1].mac # NoMAC])

DetailPage(u) == Greater(1, ContentHeight(u) - 2)

PageSize(u) == Greater(1, IF u.tab = "devices" THEN Rows(u) ELSE ContentHeight(u))

\* Mutant: the offset is moved one row short of a selection below the page.
StartOffByOne(u, rows, start) ==
    IF u.row < start THEN u.row
    ELSE IF u.row > start + rows THEN u.row - rows + 1 ELSE start

\* The first row of a page that shows the selected one.
Start(u, rows, start) ==
    IF u.row < start THEN u.row
    ELSE IF u.row >= start + rows THEN u.row - rows + 1 ELSE start

\* Mutant: an empty list leaves the cursor before its first row.
ClampedRowEmpty(u) == Lesser(Greater(0, u.row), Len(Shown(u)) - 1)

ClampedRow(u) == Greater(0, Lesser(u.row, Len(Shown(u)) - 1))

ClampedDetails(u) == Greater(0, Lesser(u.detailScroll, DetailLines(u) - DetailPage(u)))

\* clampViewport.
Clamped(v) ==
    LET u == [v EXCEPT !.row = ClampedRow(v)]
        rows == Greater(1, Rows(u))
        start == Lesser(u.scroll["devices"], Greater(0, Len(Shown(u)) - rows))
        last == Greater(0, TabLines(u) - ContentHeight(u))
    IN  [u EXCEPT
            !.scroll = [t \in Tab |->
                CASE t = "devices" -> Greater(0, Start(u, rows, start))
                  [] t = u.tab /\ t # "devices" -> Greater(0, Lesser(@[t], last))
                  [] OTHER -> @[t]],
            !.detailScroll = IF u.details THEN ClampedDetails(u) ELSE @]

----------------------------------------------------------------------------
(* Update *)

\* A snapshot, or another filter.
Searches(u, v, ticked) == ticked \/ u.filter # v.filter

\* Mutant: open details outlive their device.
LostKept(v) == v

\* A device that left the list does not stay open under another one's identity.
Lost(v) == [v EXCEPT !.details = FALSE]

\* What Update makes of v, the outcome of update, for the Model u.
Updated(u, v, ticked) ==
    LET previous == Selected(u)
        searched == Searches(u, v, ticked) /\ previous # Nothing
        rows == RowsOf(previous, Shown(v))
        lost == searched /\ rows = {}
        w == Clamped(IF ~searched THEN v
                     ELSE IF lost THEN Lost(v)
                     ELSE [v EXCEPT !.row = CHOOSE n \in rows : \A k \in rows : n <= k])
    IN  IF lost \/ ~Matches(previous, Selected(w)) THEN [w EXCEPT !.detailScroll = 0] ELSE w

Quit(u) == [u EXCEPT !.quitting = TRUE]

\* The keys that are text, to the filter.
Rune == {"a", "q", "1", "2", "3", "4", "/", "r", "?"}

FilterKey(u, k) ==
    CASE k = "ctrl+c"    -> Quit(u)
      [] k = "enter"     -> [u EXCEPT !.filterMode = FALSE]
      [] k = "esc"       -> [u EXCEPT !.filterMode = FALSE, !.filter = 0]
      [] k = "backspace" -> [u EXCEPT !.filter = Greater(0, @ - 1)]
      [] k \in Rune      -> [u EXCEPT !.filter = @ + 1]
      [] OTHER           -> u

\* The keys open details take for themselves.
IsDetailKey(k) == k \in {"esc", "enter", "up", "down", "pgup", "pgdown", "home", "end"}

DetailKey(u, k) ==
    CASE k \in {"esc", "enter"} -> [u EXCEPT !.details = FALSE]
      [] k = "up"     -> [u EXCEPT !.detailScroll = @ - 1]
      [] k = "down"   -> [u EXCEPT !.detailScroll = @ + 1]
      [] k = "pgup"   -> [u EXCEPT !.detailScroll = @ - DetailPage(u)]
      [] k = "pgdown" -> [u EXCEPT !.detailScroll = @ + DetailPage(u)]
      [] k = "home"   -> [u EXCEPT !.detailScroll = 0]
      [] OTHER        -> [u EXCEPT !.detailScroll = DetailLines(u)]

\* moveRow.
Moved(u, delta) ==
    IF u.tab = "devices" THEN [u EXCEPT !.row = @ + delta]
    ELSE [u EXCEPT !.scroll[u.tab] = @ + delta]

Opened(u, tab) == [u EXCEPT !.tab = tab, !.details = FALSE]

MainKey(u, k) ==
    CASE k = "esc"    -> IF u.filter > 0 THEN [u EXCEPT !.filter = 0] ELSE Quit(u)
      [] k \in {"q", "ctrl+c"} -> Quit(u)
      [] k = "1"      -> Opened(u, "devices")
      [] k = "2"      -> Opened(u, "services")
      [] k = "3"      -> Opened(u, "subnet")
      [] k = "4"      -> Opened(u, "events")
      [] k = "enter"  -> IF u.tab = "devices" /\ Shown(u) # <<>>
                         THEN [u EXCEPT !.details = TRUE, !.detailScroll = 0] ELSE u
      [] k = "/"      -> [u EXCEPT !.details = FALSE, !.filterMode = TRUE, !.filter = 0]
      [] k = "?"      -> [u EXCEPT !.help = TRUE]
      [] k = "up"     -> Moved(u, -1)
      [] k = "down"   -> Moved(u, 1)
      [] k = "pgup"   -> Moved(u, -PageSize(u))
      [] k = "pgdown" -> Moved(u, PageSize(u))
      [] k = "home"   -> [u EXCEPT !.row = IF u.tab = "devices" THEN 0 ELSE @,
                                   !.scroll[u.tab] = 0]
      [] k = "end"    -> IF u.tab = "devices" THEN [u EXCEPT !.row = Len(u.devices)]
                         ELSE [u EXCEPT !.scroll[u.tab] = TabLines(u)]
      [] OTHER        -> u

\* Who takes a key: the filter, the help overlay, open details, the tab.
Pressed(u, k) ==
    CASE u.filterMode -> FilterKey(u, k)
      [] ~u.filterMode /\ u.help -> [u EXCEPT !.help = FALSE]
      [] ~u.filterMode /\ ~u.help /\ u.details /\ u.tab = "devices" /\ IsDetailKey(k)
             -> DetailKey(u, k)
      [] OTHER -> MainKey(u, k)

----------------------------------------------------------------------------
(* Messages *)

Init ==
    /\ m = [tab |-> "devices", devices |-> <<>>, events |-> <<>>,
            size |-> [height |-> 24, wrap |-> 1],
            filter |-> 0, filterMode |-> FALSE, row |-> 0,
            scroll |-> [t \in Tab |-> 0], details |-> FALSE, detailScroll |-> 0,
            help |-> FALSE, quitting |-> FALSE]
    /\ arrived = 0 /\ request = FALSE
    /\ session \in Session

Press(k) ==
    /\ ~m.quitting
    /\ ~(k \in Rune /\ m.filterMode /\ m.filter = Bound[session].runes)
    /\ m' = Updated(m, Pressed(m, k), FALSE)
    /\ request' = (request \/ (k = "r" /\ ~m.filterMode /\ ~m.help))
    /\ UNCHANGED <<arrived, session>>

Resize(s) ==
    /\ ~m.quitting
    /\ m' = Updated(m, [m EXCEPT !.size = s], FALSE)
    /\ UNCHANGED <<arrived, request, session>>

\* What a later snapshot may be (AddressBook: addresses change their MAC, but neither
\* a MAC nor an address is ever forgotten, and no address loses its MAC).
Later(old, new) ==
    /\ \A d \in old : d.mac # NoMAC => \E e \in new : e.mac = d.mac
    /\ \A d \in old : \A i \in d.ips :
          \E e \in new : i \in e.ips /\ (d.mac # NoMAC => e.mac # NoMAC)

Tick(list) ==
    /\ ~m.quitting /\ Later({m.devices[n] : n \in DOMAIN m.devices}, list)
    /\ m' = Updated(m, [m EXCEPT !.devices = Sorted[list]], TRUE)
    /\ UNCHANGED <<arrived, request, session>>

\* Mutant: a reader of older events is not kept where they are.
ReaderFollows(u) == u

\* A reader of older events stays where they are.
ReaderStays(u) ==
    [u EXCEPT !.scroll["events"] = IF @ > 0 THEN @ + u.size.wrap ELSE @]

Event ==
    /\ ~m.quitting /\ arrived < Bound[session].arrivals
    /\ arrived' = arrived + 1
    /\ LET longer == <<arrived + 1>> \o m.events
       IN  m' = Updated(m, [ReaderStays(m) EXCEPT
                                !.events = SubSeq(longer, 1, Lesser(EventCap, Len(longer)))],
                        FALSE)
    /\ UNCHANGED <<request, session>>

\* The active worker receives the request.
SweepStarts == request /\ request' = FALSE /\ UNCHANGED <<m, arrived, session>>

\* Bubble Tea has stopped.
Over == m.quitting /\ UNCHANGED vars

Next ==
    \/ \E k \in Bound[session].keys : Press(k)
    \/ \E s \in Bound[session].sizes : Resize(s)
    \/ \E list \in Bound[session].snapshots : Tick(list)
    \/ Event
    \/ SweepStarts
    \/ Over

Spec == Init /\ [][Next]_vars

----------------------------------------------------------------------------
(* Properties *)

\* The Model has its types: offsets are never negative, the cursor is on the list.
TypeOK ==
    /\ m.tab \in Tab
    /\ m.devices \in {<<>>} \cup {Sorted[list] : list \in Snapshot}
    /\ m.events \in Seq(1..arrived) /\ Len(m.events) <= EventCap
    /\ m.size \in Size \cup {[height |-> 24, wrap |-> 1]}
    /\ m.filter \in 0..Bound[session].runes
    /\ \A flag \in {m.filterMode, m.details, m.help, m.quitting, request} : flag \in BOOLEAN
    /\ m.row \in 0..Greater(0, Len(Shown(m)) - 1)
    /\ m.scroll \in [Tab -> Nat] /\ m.detailScroll \in Nat
    /\ arrived \in 0..Bound[session].arrivals /\ session \in Session

\* viewport.go:43-44, devices.go:247 and :264: the selected row is on the page whenever
\* there is a page, and the page is not scrolled beyond the last row; the details of a
\* device that is gone, or lines beyond the last, would be an index out of range.
PagesAreInRange ==
    LET start == m.scroll["devices"]
        n == Len(Shown(m))
    IN  /\ ContentHeight(m) > 0 /\ n > 0 =>
              /\ m.row \in start..(start + Rows(m) - 1)
              /\ start <= Greater(0, n - Rows(m))
        /\ m.details =>
              /\ m.tab = "devices" /\ n > 0
              /\ m.detailScroll <= Lesser(DetailLines(m), m.detailScroll + DetailPage(m))

\* The keys that move the cursor, or the list's beginning under it.
CursorKey == {"up", "down", "pgup", "pgdown", "home", "end"}

\* The device d of one list is e in a later one.
IsStill(d, e) == IF d.mac # NoMAC THEN e.mac = d.mac ELSE d.ips \subseteq e.ips

\* selection.go:41-42: whatever happens to the list, by a snapshot, a filter or a size,
\* the selection stays on its device for as long as the list shows it.
SelectionFollows ==
    [][\/ Selected(m) # Nothing
            /\ (\E n \in DOMAIN Shown(m') : IsStill(Selected(m), Shown(m')[n]))
          => IsStill(Selected(m), Selected(m'))
       \/ \E k \in CursorKey : Press(k)]_vars

\* model.go:114-116: open details never become those of another device.
DetailsKeepTheirDevice ==
    [][m.details /\ m'.details => IsStill(Selected(m), Selected(m'))]_vars

\* Where the page of events begins, as scrollContent draws it.
PageOfEvents(u) ==
    Lesser(u.scroll["events"], Greater(0, EventLines(u) - ContentHeight(u)))

LineAt(u, n) == <<u.events[(n \div u.size.wrap) + 1], n % u.size.wrap>>

\* model.go:250-251: an arriving event does not move the page of a reader of older
\* ones; only when the oldest is dropped does a page at the very end move up.
ReaderKeepsPlace ==
    [][arrived' # arrived /\ PageOfEvents(m) > 0 /\ ContentHeight(m) > 0 =>
          \/ LineAt(m', PageOfEvents(m')) = LineAt(m, PageOfEvents(m))
          \/ /\ Len(m.events) = EventCap
             /\ PageOfEvents(m') = EventLines(m') - ContentHeight(m')]_vars
=============================================================================
