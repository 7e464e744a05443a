------------------------------- MODULE OSDetect -------------------------------
(***************************************************************************)
(* The guess at a device's operating system of internal/probe/osguess.go:  *)
(* a chain of rules over what is known about the device, the first that    *)
(* applies wins.  A vendor is the set of families whose words its name     *)
(* contains, a service its type and the device its TXT model speaks of.    *)
(***************************************************************************)
EXTENDS Integers, Sequences, FiniteSets

Unknown == ""

\* The order in which a vendor's name is searched for words of a family.
Families == <<"Apple", "Network", "LinuxBoard", "Printer", "IoT">>

Least(S) == CHOOSE n \in S : \A k \in S : n <= k

\* The first of a sequence with the property, or Unknown.
FirstOf(seq, Test(_)) ==
    LET found == {n \in DOMAIN seq : Test(seq[n])}
    IN  IF found = {} THEN Unknown ELSE seq[Least(found)]

\* vendorFamily.
FamilyOf(vendor) == FirstOf(Families, LAMBDA f : f \in vendor)

Tolerance == 8

Buckets == <<[initial |-> 32, label |-> "Windows"], [initial |-> 64, label |-> "Linux/macOS"],
             [initial |-> 128, label |-> "Windows"], [initial |-> 255, label |-> "RTOS/Network"]>>

\* OSGuess: from the initial TTL that is the fewest hops, at most Tolerance, above ttl.
OSGuess(ttl) ==
    LET near == {n \in DOMAIN Buckets : ttl \in (Buckets[n].initial - Tolerance)..Buckets[n].initial}
    IN  IF ttl = 0 \/ near = {} THEN Unknown ELSE Buckets[Least(near)].label

\* Mutant: a family without a rule of its own.
ApplianceExceptIoT == {"Network", "Printer"}

Appliance == {"Network", "IoT", "Printer"}

\* What the rules see: [vendor, services, ports, ttl, nbns].
Says(e, model)  == \E s \in e.services : s.model = model
Offers(e, types) == \E s \in e.services : s.type \in types
Open(e, ports)  == e.ports \cap ports # {}

Rule(applies, label) == [applies |-> applies, label |-> label]

Rules(e) ==
    LET family == FamilyOf(e.vendor)
        ttl == OSGuess(e.ttl)
    IN  <<Rule(Says(e, "mobile"), "iOS"),
          Rule(Offers(e, {"_apple-mobdev2"}), "iOS"),
          Rule(Says(e, "mac"), "macOS"),
          Rule(family = "Apple" /\ Offers(e, {"_airplay", "_smb", "_ssh", "_device-info"}), "macOS"),
          Rule(e.nbns /\ family # "LinuxBoard" /\ (ttl = "Windows" \/ family = Unknown), "Windows"),
          Rule(family = "Apple", "macOS"),
          Rule(ttl = "Windows" /\ Open(e, {445, 137}), "Windows"),
          Rule(family \in Appliance, "Network"),
          Rule(family = "LinuxBoard", "Linux"),
          Rule(ttl = "Linux/macOS" /\ Open(e, {22}), "Linux"),
          Rule(family # "Apple" /\ Offers(e, {"_workstation"}), "Linux"),
          Rule(Open(e, {9100, 631}), "Network"),
          Rule(ttl = "RTOS/Network", "Network"),
          Rule(ttl = "Linux/macOS", "Linux"),
          Rule(ttl = "Windows", "Windows")>>

OSDetect(e) ==
    LET applying == {n \in DOMAIN Rules(e) : Rules(e)[n].applies}
    IN  IF applying = {} THEN Unknown ELSE Rules(e)[Least(applying)].label
=============================================================================
