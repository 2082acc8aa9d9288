------------------------------ MODULE LotFetch ------------------------------
(***************************************************************************)
(* The auction lot fetchers of auction/auction.go:                         *)
(*                                                                         *)
(*   GetLots(WithBids): GetLotCount(opts), then batches of               *)
(*     LotDetailsBatchSize goroutines, goroutine li storing               *)
(*     GetLotDetails(li) (or GetLotDetailsWithBids(li, bidder)) in         *)
(*     details[li] when it returns no error; errgroup.Wait per batch;     *)
(*   GetLotDetails: one goroutine per field getter and errgroup.Wait;     *)
(*     GetLotDetailsWithBids runs it next to GetLotAddressBidAmount and   *)
(*     waits for both, which has the outcome of one group of all fields.  *)
(*                                                                         *)
(* Lots are indexed from 0 and never removed.  The field getters fall in  *)
(* four kinds, each modelled by one field: fixed when the lot is created  *)
(* (exists, start and end block, start and reserve price, GGP amount:     *)
(* "startBlock"), changed by bids and claims (total bid, price by bids,   *)
(* current price, claimed and remaining GGP, cleared, recovered:          *)
(* "totalBid"), the price at the block the call reads                     *)
(* ("priceAtBlock"), and the bidder's own bid ("addressBid").              *)
(***************************************************************************)
EXTENDS Naturals, Sequences, SequencesExt

CONSTANTS
    MaxLots,        \* bound on the number of lots
    MaxBids,        \* bound on the bids on one lot
    MaxBlocks,      \* bound on the chain's length
    BatchSize       \* LotDetailsBatchSize (10 in the code)

ASSUME MaxLots \in Nat /\ MaxBids \in Nat /\ MaxBlocks \in Nat \ {0}
       /\ BatchSize \in Nat \ {0}

\* A lot: the block that created it, its bids and the bidder's share.
Lot == [start : 1..MaxBlocks, bids : 0..MaxBids, mine : 0..MaxBids]
Index == 0..MaxLots - 1
Status == {"run", "ok", "err"}
\* The values a field getter returns; "exists" is a bool.
FieldValues(f) == IF f = "exists" THEN BOOLEAN ELSE 0..MaxBlocks \cup 0..MaxBids

VARIABLES
    hist,       \* hist[b]: the lot list at block b
    withBids,   \* GetLotsWithBids (TRUE) or GetLots
    pinned,     \* whether the caller's opts names a block
    pin,        \* the block opts names (the head when the call began)
    pc,         \* "idle", "count", "details", "dwait", "done"
    count,      \* GetLotCount's answer
    bsi,        \* start index of the current batch
    fstat,      \* fstat[i][f]: field goroutine f of lot goroutine i
    wstat,      \* wstat[i]: lot goroutine i of the current batch
    details,    \* the details slice
    result      \* what the call returned

vars == <<hist, withBids, pinned, pin, pc, count, bsi, fstat, wstat, details,
          result>>

Fields == {"exists", "startBlock", "totalBid", "priceAtBlock"}
          \cup (IF withBids THEN {"addressBid"} ELSE {})
Err == [ok |-> FALSE, items |-> << >>]

\* The block a read runs at, and the lot list there.
ReadBlock == IF pinned THEN pin ELSE Len(hist)
View == hist[ReadBlock]

\* A getter on lot i at block b (list l): its value, or the zero value of
\* a lot that does not exist.
FieldOf(l, b, i, f) ==
    IF i >= Len(l) THEN IF f = "exists" THEN FALSE ELSE 0
    ELSE CASE f = "exists"       -> TRUE
           [] f = "startBlock"   -> l[i + 1].start
           [] f = "totalBid"     -> l[i + 1].bids
           [] f = "priceAtBlock" -> b
           [] f = "addressBid"   -> l[i + 1].mine

\* `if lei > lotCount { lei = lotCount }`
BatchEnd == IF bsi + BatchSize > count THEN count ELSE bsi + BatchSize

TypeOK ==
    /\ hist \in Seq(BoundedSeq(Lot, MaxLots)) /\ hist # << >>
    /\ withBids \in BOOLEAN /\ pinned \in BOOLEAN /\ pin \in 0..MaxBlocks
    /\ pc \in {"idle", "count", "details", "dwait", "done"}
    /\ count \in 0..MaxLots /\ bsi \in Nat
    /\ DOMAIN wstat \subseteq 0..count - 1 /\ Range(wstat) \subseteq Status
    /\ DOMAIN fstat = DOMAIN wstat
    /\ \A i \in DOMAIN fstat, f \in Fields :
         fstat[i][f].st \in Status /\ fstat[i][f].v \in FieldValues(f)
    /\ \A i \in Index : details[i] = << >> \/ DOMAIN details[i] = {"index"} \cup Fields
    /\ result.ok \in BOOLEAN

Init ==
    \* fewer than MaxLots at first, so a lot can be created during a call
    /\ \E n \in 0..MaxLots - 1 :
         hist = << [k \in 1..n |-> [start |-> 1, bids |-> 0, mine |-> 0]] >>
    /\ withBids \in BOOLEAN /\ pinned \in BOOLEAN
    /\ pin = 0 /\ pc = "idle" /\ count = 0 /\ bsi = 0
    /\ fstat = << >> /\ wstat = << >>
    /\ details = [i \in Index |-> << >>]
    /\ result = Err

Finish(r) == result' = r /\ pc' = "done"

\* The caller builds opts for the current head and calls GetLots(WithBids).
Begin ==
    /\ pc = "idle"
    /\ pin' = Len(hist) /\ pc' = "count"
    /\ UNCHANGED <<hist, withBids, pinned, count, bsi, fstat, wstat, details,
                   result>>

\* GetLotCount(ggp, opts), then the batch loop from index 0.
ReadCount ==
    /\ pc = "count"
    /\ count' = Len(View) /\ bsi' = 0 /\ pc' = "details"
    /\ UNCHANGED <<hist, withBids, pinned, pin, fstat, wstat, details, result>>

ReadCountFails ==
    /\ pc = "count"
    /\ Finish(Err)
    /\ UNCHANGED <<hist, withBids, pinned, pin, count, bsi, fstat, wstat, details>>

\* One goroutine per lot of the batch, each forking its field goroutines.
StartBatch ==
    /\ pc = "details" /\ bsi < count
    /\ LET batch == bsi..BatchEnd - 1
       IN  /\ wstat' = [i \in batch |-> "run"]
           /\ fstat' = [i \in batch |-> [f \in Fields |-> [st |-> "run", v |-> FieldOf(<< >>, 0, i, f)]]]
    /\ pc' = "dwait"
    /\ UNCHANGED <<hist, withBids, pinned, pin, count, bsi, details, result>>

\* Mutant: the total-bid getter calls with nil opts instead of the caller's.
FieldReadBidsAtHead(i, f) ==
    /\ pc = "dwait" /\ i \in DOMAIN fstat /\ f \in Fields
    /\ fstat[i][f].st = "run"
    /\ LET b == IF f = "totalBid" THEN Len(hist) ELSE ReadBlock
       IN  fstat' = [fstat EXCEPT ![i][f] = [st |-> "ok", v |-> FieldOf(hist[b], b, i, f)]]
    /\ UNCHANGED <<hist, withBids, pinned, pin, pc, count, bsi, wstat, details,
                   result>>

\* One field getter of lot i, e.g. GetLotTotalBidAmount(ggp, li, opts).
FieldRead(i, f) ==
    /\ pc = "dwait" /\ i \in DOMAIN fstat /\ f \in Fields
    /\ fstat[i][f].st = "run"
    /\ fstat' = [fstat EXCEPT ![i][f] = [st |-> "ok", v |-> FieldOf(View, ReadBlock, i, f)]]
    /\ UNCHANGED <<hist, withBids, pinned, pin, pc, count, bsi, wstat, details,
                   result>>

FieldReadFails(i, f) ==
    /\ pc = "dwait" /\ i \in DOMAIN fstat /\ f \in Fields
    /\ fstat[i][f].st = "run"
    /\ fstat' = [fstat EXCEPT ![i][f].st = "err"]
    /\ UNCHANGED <<hist, withBids, pinned, pin, pc, count, bsi, wstat, details,
                   result>>

\* GetLotDetails' wg.Wait() (and GetLotDetailsWithBids'): with no error the
\* record is built and stored in details[li].
DetailJoin(i) ==
    /\ pc = "dwait" /\ i \in DOMAIN wstat /\ wstat[i] = "run"
    /\ \A f \in Fields : fstat[i][f].st # "run"
    /\ IF \E f \in Fields : fstat[i][f].st = "err"
       THEN wstat' = [wstat EXCEPT ![i] = "err"] /\ UNCHANGED details
       ELSE /\ wstat' = [wstat EXCEPT ![i] = "ok"]
            /\ details' = [details EXCEPT ![i] =
                   [f \in {"index"} \cup Fields |->
                       IF f = "index" THEN i ELSE fstat[i][f].v]]
    /\ UNCHANGED <<hist, withBids, pinned, pin, pc, count, bsi, fstat, result>>

\* wg.Wait() of a batch: any error returns []LotDetails{}, err.
Wait ==
    /\ pc = "dwait" /\ \A i \in DOMAIN wstat : wstat[i] # "run"
    /\ IF "err" \in Range(wstat)
       THEN Finish(Err) /\ UNCHANGED <<bsi, fstat, wstat>>
       ELSE /\ bsi' = bsi + BatchSize /\ fstat' = << >> /\ wstat' = << >>
            /\ pc' = "details" /\ UNCHANGED result
    /\ UNCHANGED <<hist, withBids, pinned, pin, count, details>>

EndBatches ==
    /\ pc = "details" /\ bsi >= count
    /\ Finish([ok |-> TRUE, items |-> [k \in 1..count |-> details[k - 1]]])
    /\ UNCHANGED <<hist, withBids, pinned, pin, count, bsi, fstat, wstat, details>>

(* The chain: CreateLot appends a lot; PlaceBid bids on one, by the      *)
(* bidder or by someone else; every block also moves the price.          *)
CreateLot ==
    /\ Len(hist) < MaxBlocks /\ Len(Last(hist)) < MaxLots
    /\ hist' = Append(hist, Append(Last(hist),
                                   [start |-> Len(hist) + 1, bids |-> 0, mine |-> 0]))
    /\ UNCHANGED <<withBids, pinned, pin, pc, count, bsi, fstat, wstat, details,
                   result>>

PlaceBid(i, byBidder) ==
    /\ Len(hist) < MaxBlocks
    /\ i \in 1..Len(Last(hist)) /\ Last(hist)[i].bids < MaxBids
    /\ hist' = Append(hist, [Last(hist) EXCEPT ![i].bids = @ + 1,
                                               ![i].mine = IF byBidder THEN @ + 1 ELSE @])
    /\ UNCHANGED <<withBids, pinned, pin, pc, count, bsi, fstat, wstat, details,
                   result>>

Finished == pc = "done" /\ UNCHANGED vars

Caller == Begin \/ ReadCount \/ StartBatch \/ Wait \/ EndBatches

Next ==
    \/ Caller \/ ReadCountFails
    \/ \E i \in Index :
         \/ DetailJoin(i)
         \/ \E f \in Fields : FieldRead(i, f) \/ FieldReadFails(i, f)
    \/ CreateLot
    \/ \E i \in 1..MaxLots, by \in BOOLEAN : PlaceBid(i, by)
    \/ Finished

\* The caller and every goroutine keep running and reads eventually
\* succeed; failures and chain steps are never forced.
Spec == Init /\ [][Next]_vars /\ WF_vars(Caller)
        /\ \A i \in Index : WF_vars(DetailJoin(i))
                            /\ \A f \in {"exists", "startBlock", "totalBid", "priceAtBlock", "addressBid"} :
                                 WF_vars(FieldRead(i, f))

-----------------------------------------------------------------------------
(* Properties *)

\* The record of lot i as it stands at block b.
LotRecord(b, i) ==
    [f \in {"index"} \cup Fields |-> IF f = "index" THEN i ELSE FieldOf(hist[b], b, i, f)]

\* With opts pinned, a successful GetLots or GetLotsWithBids returns every
\* lot of the pinned block, in index order, each record holding all its
\* fields at that block: bid totals and the bidder's bid of one block,
\* and PriceAtCurrentBlock the price at the pinned block, although lots
\* are created and bid on while the nested goroutines read.
PinnedLots ==
    pinned /\ pc = "done" /\ result.ok =>
        result.items = [k \in 1..Len(hist[pin]) |-> LotRecord(pin, k - 1)]
=============================================================================
