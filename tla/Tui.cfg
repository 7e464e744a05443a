\* Three kinds of sessions: the cursor and open details against every list of two MACs and
\* two addresses; pages, offsets and events, with six devices, terminals from no row to
\* enough of them, wrapped and unwrapped lines, two events kept of three; and the overlays
\* that take keys from each other.
SPECIFICATION Spec
CONSTANTS
    Session = {"selection", "pages", "overlays"}
    Bound <- Bounds
    StripLines <- Strips
    GridLines = 1
    EventCap = 2
INVARIANTS TypeOK PagesAreInRange
PROPERTIES SelectionFollows DetailsKeepTheirDevice ReaderKeepsPlace
