--------------------------- MODULE FetchSnapshot ---------------------------
(***************************************************************************)
(* What a collection fetch promises its caller, as one atomic step: the    *)
(* call returns either an error or the whole indexed collection, in index  *)
(* order, exactly as it stood at one block between the call's start and    *)
(* its return.  The chain meanwhile appends blocks, each holding a new     *)
(* version of the collection.                                              *)
(***************************************************************************)
EXTENDS Naturals, Sequences

CONSTANTS
    Lists,      \* the collections the chain can hold (sequences of items)
    MaxBlocks   \* bound on the chain's length

VARIABLES
    hist,       \* hist[b]: the collection at block b
    apc,        \* "idle", "busy" or "done"
    start,      \* the head block when the call began
    result      \* what the call returned

avars == <<hist, apc, start, result>>

\* A member record as the fetch reports it for a listed member.
Members(l) == [i \in 1..Len(l) |-> [addr |-> l[i], exists |-> TRUE]]

Err == [ok |-> FALSE, items |-> << >>]
Snapshot(b) == [ok |-> TRUE, items |-> Members(hist[b])]

AInit ==
    /\ \E l \in Lists : hist = << l >>
    /\ apc = "idle"
    /\ start = 0
    /\ result = Err

ABegin ==
    /\ apc = "idle"
    /\ apc' = "busy"
    /\ start' = Len(hist)
    /\ UNCHANGED <<hist, result>>

\* The call returns at once: an error, or the collection at one block of
\* the window [start, head].
AReturn ==
    /\ apc = "busy"
    /\ apc' = "done"
    /\ result' \in {Err} \cup {Snapshot(b) : b \in start..Len(hist)}
    /\ UNCHANGED <<hist, start>>

AChain ==
    /\ Len(hist) < MaxBlocks
    /\ \E l \in Lists : hist' = Append(hist, l)
    /\ UNCHANGED <<apc, start, result>>

ANext == ABegin \/ AReturn \/ AChain

ASpec == AInit /\ [][ANext]_avars /\ WF_avars(AReturn)
=============================================================================
