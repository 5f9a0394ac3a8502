----------------------------- MODULE StateStore -----------------------------
(***************************************************************************)
(* The checkpoint list of common/state_store.py: a YAML list of names,     *)
(* appended to once per name and cut at a name. Operators only; the state  *)
(* file itself is a variable of the modules that use them. A "slip", here   *)
(* and in other modules, is a definition as a plausible bug would have it. *)
(***************************************************************************)
EXTENDS Naturals, Sequences

HasCheckpoint(cps, c) == \E i \in DOMAIN cps : cps[i] = c

\* list.index: the first position that holds the name.
IndexOf(cps, c) ==
    CHOOSE i \in DOMAIN cps : cps[i] = c /\ \A j \in 1..(i - 1) : cps[j] # c

\* Slips: no test for a name that is there; a repeated stage voids later ones.
AppendAlways(cps, c) == Append(cps, c)
CutAfter(cps, c) ==
    IF HasCheckpoint(cps, c) THEN SubSeq(cps, 1, IndexOf(cps, c)) ELSE Append(cps, c)

\* "Make checkpoint setting idempotent".
SetCheckpoint(cps, c) == IF HasCheckpoint(cps, c) THEN cps ELSE Append(cps, c)

\* The list is cut before the name, which goes too (inclusive=True is how
\* setup calls it); a name that is not in the list changes nothing.
RemoveFrom(cps, c) ==
    IF HasCheckpoint(cps, c) THEN SubSeq(cps, 1, IndexOf(cps, c) - 1) ELSE cps
=============================================================================
