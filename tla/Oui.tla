--------------------------------- MODULE Oui ---------------------------------
(***************************************************************************)
(* The vendor of a MAC address, of internal/oui/oui.go: the rows of        *)
(* manuf.txt become a map from prefixes to names, a prefix's length being  *)
(* its mask, and a lookup tries the lengths of the map longest first.      *)
(* An address is its sequence of hex digits.                               *)
(***************************************************************************)
EXTENDS Integers, Sequences, FiniteSets, SequencesExt

CONSTANTS
    DigitBits,      \* bits of a digit (4 in the code)
    BareDigits,     \* digits of a prefix without a mask, of every address (6 in the code)
    AddressDigits   \* digits of the longest mask (12 in the code)

ASSUME DigitsAssumption == {DigitBits, BareDigits, AddressDigits} \subseteq Nat \ {0}

NoName   == ""
NoMask   == -1      \* a row without "/", for the bits of a bare prefix
NotHex   == <<>>    \* a field with another character, or with no digit
NoPrefix == <<>>

\* The rows of manuf.txt: a field's digits and its mask, and two names; every row of the
\* bundled file that has a name has a long one too.
ManufRow == [hex : Seq(Nat), mask : Int, short : STRING, long : STRING \ {NoName}]

Mask(row) == IF row.mask = NoMask THEN DigitBits * BareDigits ELSE row.mask

\* normalizePrefix: what the row covers, whole digits of it alone.
Prefix(row) ==
    LET bits == Mask(row)
    IN  IF /\ bits > 0 /\ bits <= DigitBits * AddressDigits /\ bits % DigitBits = 0
           /\ bits \div DigitBits <= Len(row.hex)
        THEN SubSeq(row.hex, 1, bits \div DigitBits)
        ELSE NoPrefix

IsEntry(row) == row.short # NoName /\ Prefix(row) # NoPrefix

Put(map, prefix, name) ==
    [p \in DOMAIN map \cup {prefix} |-> IF p = prefix THEN name ELSE map[p]]

\* The lengths of a map's prefixes, longest first.
LongestFirst(lengths) ==
    CHOOSE s \in [1..Cardinality(lengths) -> lengths] :
        lengths = Range(s) /\ \A n, k \in DOMAIN s : n < k => s[n] > s[k]

\* Mutant: sorted the other way.
ShortestFirst(lengths) ==
    CHOOSE s \in [1..Cardinality(lengths) -> lengths] :
        lengths = Range(s) /\ \A n, k \in DOMAIN s : n < k => s[n] < s[k]

Order(lengths) == LongestFirst(lengths)

\* One row: a long name is only kept beside a short one.
Read(tables, row) ==
    IF ~IsEntry(row) THEN tables
    ELSE LET prefix == Prefix(row)
         IN  [short |-> Put(tables.short, prefix, row.short),
              long  |-> IF row.long = NoName THEN tables.long
                        ELSE Put(tables.long, prefix, row.long)]

\* buildTables.
Tables(rows) ==
    LET maps[n \in 0..Len(rows)] ==     \* after n rows
            IF n = 0 THEN [short |-> <<>>, long |-> <<>>] ELSE Read(maps[n - 1], rows[n])
        last == maps[Len(rows)]
    IN  [short |-> last.short, long |-> last.long,
         lengths |-> Order({Len(p) : p \in DOMAIN last.short})]

\* lookupIn.
Lookup(map, lengths, mac) ==
    LET matching == {n \in DOMAIN lengths :
                        /\ lengths[n] <= Len(mac)
                        /\ SubSeq(mac, 1, lengths[n]) \in DOMAIN map}
    IN  IF Len(mac) < BareDigits \/ matching = {} THEN NoName
        ELSE LET n == CHOOSE n \in matching : \A k \in matching : n <= k
             IN  map[SubSeq(mac, 1, lengths[n])]

VendorOf(rows, mac) == LET t == Tables(rows) IN Lookup(t.short, t.lengths, mac)

\* LookupLong: its lengths are those of the short names.
LongVendorOf(rows, mac) == LET t == Tables(rows) IN Lookup(t.long, t.lengths, mac)

----------------------------------------------------------------------------

Covers(row, mac) == IsEntry(row) /\ IsPrefix(Prefix(row), mac)

\* The row n says who made the network card: it covers the address, no row covers it more
\* closely, and no later one just as closely.
Decides(rows, n, mac) ==
    /\ n \in DOMAIN rows /\ Covers(rows[n], mac)
    /\ \A k \in DOMAIN rows : Covers(rows[k], mac) =>
          \/ Len(Prefix(rows[k])) < Len(Prefix(rows[n]))
          \/ Len(Prefix(rows[k])) = Len(Prefix(rows[n])) /\ k <= n
=============================================================================
