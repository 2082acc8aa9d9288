--------------------------- MODULE MC_Collections ---------------------------
(***************************************************************************)
(* The index readers checked side by side: trustednode.GetMembers        *)
(* (BatchFetch, opts pinned), the minipool readers (MinipoolIndex) and    *)
(* the auction lot readers (LotFetch), each over its own copy of the      *)
(* variables.  Init chooses which reader runs;                             *)
(* the other keeps one fixed initial state, so the state spaces add.      *)
(* Three possible members, at most three minipools, batches and pages of *)
(* two: a scan takes a full page and a partial one.  Up to two lots, one  *)
(* bid each, batches of one lot: the batch loop runs twice.               *)
(***************************************************************************)
EXTENDS BatchFetch

CONSTANTS a, b, c, Statuses, MaxMinipools, PageSize

VARIABLES
    reader,     \* "members", "minipools" or "lots"
    mhist, mfn, mpinned, mpc, mphase, mpin, mcount, mbsi, mworkers,
    maddrs, mdetails, mfound, mtally, mresult,
    lhist, lwithBids, lpinned, lpin, lpc, lcount, lbsi, lfstat, lwstat,
    ldetails, lresult

mvars == <<mhist, mfn, mpinned, mpc, mphase, mpin, mcount, mbsi, mworkers,
           maddrs, mdetails, mfound, mtally, mresult>>
lvars == <<lhist, lwithBids, lpinned, lpin, lpc, lcount, lbsi, lfstat, lwstat,
           ldetails, lresult>>
cvars == <<reader, vars, mvars, lvars>>

MI == INSTANCE MinipoolIndex
        WITH hist <- mhist, fn <- mfn, pinned <- mpinned, pc <- mpc,
             phase <- mphase, pin <- mpin, count <- mcount, bsi <- mbsi,
             workers <- mworkers, addrs <- maddrs, details <- mdetails,
             found <- mfound, tally <- mtally, result <- mresult

LF == INSTANCE LotFetch
        WITH MaxLots <- 2, MaxBids <- 1, BatchSize <- 1,
             hist <- lhist, withBids <- lwithBids, pinned <- lpinned,
             pin <- lpin, pc <- lpc, count <- lcount, bsi <- lbsi,
             fstat <- lfstat, wstat <- lwstat, details <- ldetails,
             result <- lresult

CInit ==
    /\ reader \in {"members", "minipools", "lots"}
    /\ Init /\ MI!Init /\ LF!Init
    /\ reader # "minipools" => mhist = << << >> >> /\ mfn = "minipools" /\ mpinned
    /\ reader # "members" => hist = << << >> >>
    /\ reader # "lots" => lhist = << << >> >> /\ lwithBids /\ lpinned

Members(A) == reader = "members" /\ A /\ UNCHANGED <<reader, mvars, lvars>>
Minipools(A) == reader = "minipools" /\ A /\ UNCHANGED <<reader, vars, lvars>>
Lots(A) == reader = "lots" /\ A /\ UNCHANGED <<reader, vars, mvars>>

CNext == Members(Next) \/ Minipools(MI!Next) \/ Lots(LF!Next)

\* The fairness of each reader's Spec, for the reader that runs.
CSpec == CInit /\ [][CNext]_cvars
         /\ WF_cvars(Members(Caller))
         /\ \A i \in Index : WF_cvars(Members(Worker(i)))
         /\ WF_cvars(Minipools(MI!Caller))
         /\ \A k \in MI!Index : WF_cvars(Minipools(MI!Worker(k)))
         /\ WF_cvars(Lots(LF!Caller))
         /\ \A j \in LF!Index :
              /\ WF_cvars(Lots(LF!DetailJoin(j)))
              /\ \A f \in {"exists", "startBlock", "totalBid", "priceAtBlock", "addressBid"} :
                   WF_cvars(Lots(LF!FieldRead(j, f)))

\* Both readers' variables keep their types.
CTypeOK == reader \in {"members", "minipools", "lots"}
           /\ TypeOK /\ MI!TypeOK /\ LF!TypeOK

(* The minipool readers' properties, stated in MinipoolIndex. *)

\* GetMinipools returns an error or the minipool index of one block since
\* the call began, with opts pinned or nil.
MinipoolsSnapshot == MI!MinipoolsSnapshot

\* With opts pinned, the paged readers return exactly the pinned block's
\* prelaunch minipools or status counts, despite their count read at the
\* latest block.
PagedPinnedExact == MI!PagedPinnedExact

\* With opts nil, the paged readers count every minipool counted at the
\* start and none twice.
NilScanCountsEach == MI!NilScanCountsEach

(* The auction lot readers' property, stated in LotFetch. *)

\* With opts pinned, GetLots and GetLotsWithBids return every lot of the
\* pinned block with all its fields at that block.
PinnedLots == LF!PinnedLots
=============================================================================
