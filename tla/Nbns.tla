--------------------------------- MODULE Nbns ---------------------------------
(***************************************************************************)
(* What parseNBNSResponse and skipNBNSName (internal/probe/nbns.go) take   *)
(* from a datagram.  Bytes keep what the traversal of names depends on,    *)
(* two high bits that say length, pointer or neither, on a smaller scale:  *)
(* every size of the format is a constant.  The fields of the header are   *)
(* its verdict, the 15 bytes of a name are one.                            *)
(***************************************************************************)
EXTENDS Integers, Sequences, FiniteSets

CONSTANTS
    Quarter,        \* bytes of each class: a length, a letter, neither, a pointer (64)
    LowBytes,       \* values of a pointer's second byte (256)
    HeaderSize,     \* (12)
    FirstLabel,     \* length of the encoded name (32)
    MaxExpanded,    \* limit of a name with its scope labels (254)
    StatSize        \* the statistics after the names (46)

ASSUME ScaleAssumption ==
    {Quarter, LowBytes, HeaderSize, FirstLabel, MaxExpanded, StatSize} \subseteq Nat \ {0}

IsLength(b)  == b < Quarter
IsLetter(b)  == b \in Quarter..(2 * Quarter - 1)
IsPointer(b) == b >= 3 * Quarter

Status   == 2       \* type and class: NBSTAT of IN (0x21, 1)
TailSize == 1       \* type and class are one byte here, (4)
MoreSize == 1       \* and what follows them before the data, time to live and length (6)
RecordSize == 3     \* name, suffix, flags (18)
NoName   == ""

\* The byte at an offset.
At(buf, off) == buf[off + 1]

----------------------------------------------------------------------------
(* skipNBNSName *)

Target(buf, off) == (At(buf, off) - 3 * Quarter) * LowBytes + At(buf, off + 1)

\* Mutant: the record goes on after the last pointer that was followed.
AfterLast(s) == s.off + 2

AfterFirst(s) == IF s.next < 0 THEN s.off + 2 ELSE s.next

Failed(s) == [s EXCEPT !.end = "failed"]

Follow(buf, s) ==
    IF s.off + 1 >= Len(buf) \/ Target(buf, s.off) < HeaderSize \/ Target(buf, s.off) >= s.off
    THEN Failed(s)
    ELSE [s EXCEPT !.next = AfterFirst(s), !.off = Target(buf, s.off)]

End(s) == IF s.expanded > 0 THEN [s EXCEPT !.next = IF @ < 0 THEN s.off + 1 ELSE @, !.end = "ok"]
          ELSE Failed(s)

EncodedName(buf, off) ==
    At(buf, off) = FirstLabel /\ \A k \in 1..FirstLabel : IsLetter(At(buf, off + k))

Label(buf, s) ==
    LET size == At(buf, s.off) + 1
    IN  IF \/ s.off + size > Len(buf)
           \/ s.expanded = 0 /\ ~EncodedName(buf, s.off)
           \/ s.expanded + size > MaxExpanded
        THEN Failed(s)
        ELSE [s EXCEPT !.expanded = @ + size, !.off = @ + size]

\* One pass of the loop, none once it has ended.
Pass(buf, s) ==
    CASE s.end # "no" -> s
      [] s.end = "no" /\ s.off >= Len(buf) -> Failed(s)
      [] s.end = "no" /\ s.off < Len(buf) ->
            LET b == At(buf, s.off)
            IN  IF IsPointer(b) THEN Follow(buf, s)
                ELSE IF ~IsLength(b) THEN Failed(s)
                ELSE IF b = 0 THEN End(s) ELSE Label(buf, s)

\* Where the record goes on, and whether the name was one.
SkipName(buf, off) ==
    LET passed[n \in 0..Len(buf)] ==
            IF n = 0 THEN [off |-> off, next |-> -1, expanded |-> 0, end |-> "no"]
            ELSE Pass(buf, passed[n - 1])
        s == passed[Len(buf)]
    IN  [off |-> s.next, ok |-> s.end = "ok"]

----------------------------------------------------------------------------
(* parseNBNSResponse *)

\* Type and class at an offset, with all that the fixed part needs after it.
IsStatus(buf, off, size) == off + size <= Len(buf) /\ At(buf, off) = Status

Question(d) ==
    IF d.questions = 0 THEN [off |-> HeaderSize, ok |-> TRUE]
    ELSE LET s == SkipName(d.bytes, HeaderSize)
         IN  [off |-> s.off + TailSize, ok |-> s.ok /\ IsStatus(d.bytes, s.off, TailSize)]

\* sanitizeNetBIOSName: what a user can read of the name (0 is a blank one).
Sanitized(b) == IF b = 0 THEN NoName ELSE "host"

\* The names of an answer: [name, suffix, group].
RecordsOf(data) ==
    [n \in 1..Head(data) |->
        LET at == 1 + (n - 1) * RecordSize
        IN  [name |-> Sanitized(data[at + 1]), suffix |-> data[at + 2],
             group |-> data[at + 3] >= 2 * Quarter]]

\* Every declared name and the statistics, no more and no less.
IsWhole(data) == Len(data) = 1 + Head(data) * RecordSize + StatSize

Workstation(records) ==
    LET unique == {n \in DOMAIN records : records[n].suffix = 0 /\ ~records[n].group
                                          /\ records[n].name # NoName}
    IN  IF unique = {} THEN NoName
        ELSE records[CHOOSE n \in unique : \A k \in unique : n <= k].name

Parse(d) ==
    LET buf == d.bytes
        name == SkipName(buf, Question(d).off)
        off == name.off + TailSize + MoreSize
        data == SubSeq(buf, off + 1, Len(buf))
    IN  IF /\ d.header /\ d.questions <= 1 /\ Question(d).ok
           /\ name.ok /\ IsStatus(buf, name.off, TailSize + MoreSize)
           /\ At(buf, off - 1) = Len(data) /\ data # <<>> /\ IsWhole(data)
        THEN Workstation(RecordsOf(data)) ELSE NoName

----------------------------------------------------------------------------
(* The same without a traversal: what makes a datagram an answer *)

Offsets(buf) == HeaderSize..(Len(buf) - 1)

IsLink(buf, off) == IsPointer(At(buf, off)) /\ off + 1 < Len(buf)
IsText(buf, off) == IsLength(At(buf, off)) /\ At(buf, off) > 0

\* The offset after a label.
Along(buf, off) == IF IsText(buf, off) THEN {off + At(buf, off) + 1} ELSE {}

\* The offset a pointer names, a smaller one.
Back(buf, off) ==
    IF IsLink(buf, off) /\ Target(buf, off) \in HeaderSize..(off - 1)
    THEN {Target(buf, off)} ELSE {}

\* The offsets that are reached from one, itself included.
Closure(buf, off, onward) ==
    LET reached[n \in 0..Len(buf)] ==
            IF n = 0 THEN {off}
            ELSE LET before == reached[n - 1]
                 IN  before \cup UNION {onward[o] : o \in before \cap Offsets(buf)}
    IN  reached[Len(buf)]

\* The parts of a name, wherever they are, and those that are written where it begins.
Parts(buf, off)  == Closure(buf, off, [o \in Offsets(buf) |-> Along(buf, o) \cup Back(buf, o)])
Inline(buf, off) == Closure(buf, off, [o \in Offsets(buf) |-> Along(buf, o)])

\* The bytes of labels; a byte that belongs to two of them counts twice.
Written(buf, texts) == {w \in texts \X (0..(Quarter - 1)) : w[2] <= At(buf, w[1])}

\* A name begins at off, and next is what follows it: its parts stay in the datagram and
\* come to an end, the first label encodes a NetBIOS name, and all of them are not too long.
IsName(buf, off, next) ==
    LET parts == Parts(buf, off)
        texts == {o \in parts \cap Offsets(buf) : IsText(buf, o)}
    IN  /\ parts \subseteq Offsets(buf)
        /\ \A o \in parts : Along(buf, o) \cup Back(buf, o) # {} \/ At(buf, o) = 0
        /\ \E o \in parts : At(buf, o) = 0
        /\ \E o \in texts : texts \subseteq Parts(buf, o) /\ EncodedName(buf, o)
        /\ Cardinality(Written(buf, texts)) <= MaxExpanded
        /\ \E o \in Inline(buf, off) \ texts :
              next = o + IF IsPointer(At(buf, o)) THEN 2 ELSE 1

IsStatusAt(buf, off) == off \in Offsets(buf) /\ At(buf, off) = Status

\* A whole answer to the query whose data begins at off.
IsAnswer(d, off) ==
    LET buf == d.bytes
        name == off - TailSize - MoreSize
    IN  /\ d.header /\ IsStatusAt(buf, name)
        /\ \/ d.questions = 0 /\ IsName(buf, HeaderSize, name)
           \/ /\ d.questions = 1
              /\ \E q \in Offsets(buf) :
                    /\ IsStatusAt(buf, q)
                    /\ IsName(buf, HeaderSize, q) /\ IsName(buf, q + TailSize, name)
        /\ off < Len(buf) /\ At(buf, off - 1) = Len(buf) - off
        /\ Len(buf) - off = 1 + At(buf, off) * RecordSize + StatSize

\* The answer names the machine: a unique workstation name that can be read.
NamesMachine(d) ==
    \E off \in Offsets(d.bytes) :
        /\ IsAnswer(d, off)
        /\ \E n \in 1..At(d.bytes, off) :
              LET at == off + 1 + (n - 1) * RecordSize
              IN  /\ At(d.bytes, at) > 0 /\ At(d.bytes, at + 1) = 0
                  /\ At(d.bytes, at + 2) < 2 * Quarter
=============================================================================
