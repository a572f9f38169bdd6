---------------------------- MODULE ResumableScan ---------------------------
(***************************************************************************)
(* What a resumable check promises, without any of its machinery.  Items   *)
(* are checked in any order, each once.  A durable mark only ever stands   *)
(* on an item before which nothing is left unchecked.  Findings after the  *)
(* mark may be lost, and the items are then checked again; findings up to  *)
(* the mark are neither lost nor revised, until the mark is given up.      *)
(***************************************************************************)
CONSTANTS
    Item,           \* what is to be checked
    Finding,        \* what a check may find
    Leq(_, _),      \* the order of the items
    None            \* no mark, no finding

VARIABLES mark, found

scanVars == <<mark, found>>

UpToMark(m) == IF m = None THEN {} ELSE {i \in Item : Leq(i, m)}

ScanInit == mark = None /\ found = [i \in Item |-> None]

Find(i) ==
    /\ found[i] = None
    /\ \E f \in Finding : found' = [found EXCEPT ![i] = f]
    /\ UNCHANGED mark

SetMark(i) ==
    /\ \A j \in UpToMark(i) : found[j] # None
    /\ UpToMark(mark) \subseteq UpToMark(i)
    /\ mark' = i
    /\ UNCHANGED found

\* The findings after the mark are lost.
Lose ==
    /\ found' = [i \in Item |-> IF i \in UpToMark(mark) THEN found[i] ELSE None]
    /\ UNCHANGED mark

\* The mark is given up: the next check begins anew.
DropMark ==
    /\ mark' = None
    /\ UNCHANGED found

ScanNext == (\E i \in Item : Find(i) \/ SetMark(i)) \/ Lose \/ DropMark

ScanSpec == ScanInit /\ [][ScanNext]_scanVars
=============================================================================
