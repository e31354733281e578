---------------------------- MODULE MCEntryCodec ----------------------------
(***************************************************************************)
(* Instances of EntryCodec for TLC.  A byte carries two bits instead of    *)
(* seven; the values lie at the borders of one, two and four bytes.  Any   *)
(* two fields have any two of them, the others are 0 or 1; the time needs  *)
(* twelve bytes; the last of the entries fills the array to its last byte. *)
(***************************************************************************)
EXTENDS EntryCodec

Largest == 255
MCValues == {0, 1, 3, 4, 15, 16, Largest}
Flat(n) == [f \in Fields |-> n]

MCEntries ==
    {[Flat(n) EXCEPT ![f] = v, ![g] = w] :
        n \in {0, 1}, f \in Fields, g \in Fields, v \in MCValues, w \in MCValues}
    \cup {Flat(Largest), [Flat(Largest) EXCEPT !["src"] = 16],
          [Flat(Largest) EXCEPT !["src"] = 254, !["time"] = 2 ^ 24 - 1]}

MCSizes == [f \in Fields \cup {"flags"} |->
              IF f = "time" THEN 12 ELSE IF f = "flags" THEN 6 ELSE 4]

\* The parser reads a minus sign in front of a value and in front of the threat,
\* which some abilities lower.
MCEntriesSigned ==
    MCEntries \cup {[Flat(1) EXCEPT ![f] = -1, ![g] = 3] : f \in Signed \ {"entry_flags"}, g \in Fields}

MCGarbage == {0, 1}
=============================================================================
