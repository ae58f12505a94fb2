------------------------------- MODULE Redact -------------------------------
(***************************************************************************)
(* What is taken out of a snapshot before it leaves (internal/redact).     *)
(*                                                                         *)
(* A text is a sequence of letters, for a name is looked for inside of it: *)
(* a letter is a byte, and the two cases of one are the same letter.  The  *)
(* one exception is an address, a single letter by its shape, for it is    *)
(* found by that; what no pattern knows (fe80::1, a MAC written with       *)
(* dashes, an address that runs on into a word) is letters like any other. *)
(* Wide is a byte that lower case drops: of the two of a dotted capital I  *)
(* one, of the three of a Kelvin sign the last two.  The evidence of a     *)
(* check is a sequence of leaves: the JSON value is walked down to its     *)
(* strings, and each of them keeps the name of the field it was found      *)
(* under, a member of a list the name of the list.  A number is kept       *)
(* beside the letters.                                                     *)
(***************************************************************************)
EXTENDS Naturals, Sequences

CONSTANTS
    None

Marker == "[redacted]"
Wide == "dropped by lower case"

Policy == SUBSET {"hostnames", "usernames", "serials", "addresses"}
Everything == {"hostnames", "usernames", "serials", "addresses"}

\* What the machine is known by.  None is a name that cannot be read; a home directory
\* is the path up to its last separator and what follows that, which is the account
\* unless a variable of its own says otherwise.
CurrentIdentity(m) ==
    [Hostname |-> m.hostname,
     HomeDir |-> IF m.home # None THEN m.home.dir \o m.home.base ELSE None,
     Username |-> IF m.user # None THEN m.user
                  ELSE IF m.home # None THEN m.home.base
                  ELSE None]

\* The shapes the three patterns know.
Addresses == {"mac", "ipv4", "ipv6"}

serialFields == {"serial", "serial_number", "serialnumber", "uuid"}
hostnameFields == {"hostname", "host", "computer_name"}
usernameFields == {"user", "username", "owner"}
addressFields == {"mac", "addresses", "gateway", "dns", "ip"}

fieldIsRedacted(p, field) ==
    \/ "serials" \in p /\ field \in serialFields
    \/ "hostnames" \in p /\ field \in hostnameFields
    \/ "usernames" \in p /\ field \in usernameFields
    \/ "addresses" \in p /\ field \in addressFields

Lowered(s) ==
    IF \E i \in DOMAIN s : s[i] = Wide THEN SelectSeq(s, LAMBDA b : b # Wide) ELSE s

\* Every occurrence of a name becomes the marker, from the left, wherever in a word it
\* is.  It is looked for in the lower case of the text, and cut out of the text itself
\* at the place it has there.
replaceFold(s, old) ==
    IF old = None THEN s
    ELSE IF Len(old) < 3 THEN s
    ELSE LET lower == Lowered(s)
             Here(i) == SubSeq(lower, i, i + Len(old) - 1) = old
             from[i \in 1..Len(s) + 1] ==
                IF i > Len(lower) THEN SubSeq(s, i, Len(s))
                ELSE IF i + Len(old) - 1 <= Len(lower) /\ Here(i)
                     THEN <<Marker>> \o from[i + Len(old)]
                ELSE <<s[i]>> \o from[i + 1]
         IN from[1]

\* Addresses go by their shape, and only those of a known one.
Unaddressed(s) == [i \in DOMAIN s |-> IF s[i] \in Addresses THEN Marker ELSE s[i]]

\* The same, of the text by its value: TLC would work a nested one out at every letter.
Without(old, s) == [t \in {s} |-> replaceFold(t, old)][s]

textNameFirst(p, s, id) ==    \* mutant: the account goes before the path it is in
    LET named == IF "usernames" \in p
                 THEN Without(id.HomeDir, Without(id.Username, s)) ELSE s
        hosted == IF "hostnames" \in p THEN Without(id.Hostname, named) ELSE named
    IN IF "addresses" \in p THEN Unaddressed(hosted) ELSE hosted

text(p, s, id) ==
    LET named == IF "usernames" \in p
                 THEN Without(id.Username, Without(id.HomeDir, s)) ELSE s
        hosted == IF "hostnames" \in p THEN Without(id.Hostname, named) ELSE named
    IN IF "addresses" \in p THEN Unaddressed(hosted) ELSE hosted

\* Numbers, booleans and nulls stay as they are.
walk(p, leaf, id) ==
    IF leaf.kind # "string" THEN leaf
    ELSE [leaf EXCEPT !.value =
            IF fieldIsRedacted(p, leaf.field) THEN <<Marker>> ELSE text(p, leaf.value, id)]

detail(p, leaves, id) == [i \in DOMAIN leaves |-> walk(p, leaves[i], id)]

\* An argument of the verdict's message has no field, and only a string is looked at.
Argument(p, arg, id) ==
    IF arg.kind = "string" THEN [arg EXCEPT !.value = text(p, arg.value, id)] ELSE arg

Cleaned(p, res, id) ==
    [res EXCEPT !.detail = detail(p, @, id),
                !.args = [i \in DOMAIN @ |-> Argument(p, @[i], id)],
                !.err = text(p, @, id)]

Snapshot(p, snap, id) ==
    IF p = {} THEN snap
    ELSE [snap EXCEPT !.results = [i \in DOMAIN @ |-> Cleaned(p, @[i], id)]]
=============================================================================
