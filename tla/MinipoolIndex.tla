---------------------------- MODULE MinipoolIndex ----------------------------
(***************************************************************************)
(* The readers of the minipool manager's index (minipool/minipool.go):    *)
(*                                                                         *)
(*   GetMinipools: GetMinipoolAddresses (GetMinipoolCount(opts), batches  *)
(*     of GetMinipoolAt(mi)), then loadMinipoolDetails (batches of        *)
(*     GetMinipoolDetails(addresses[mi]));                                 *)
(*   GetPrelaunchMinipoolAddresses: GetMinipoolCount(ggp, nil), then      *)
(*     pages getPrelaunchMinipools(offset, limit) at the caller's opts,   *)
(*     appended one after another;                                         *)
(*   GetMinipoolCountPerStatus: the same count and pages of               *)
(*     getMinipoolCountPerStatus(offset, limit), added per status.        *)
(*                                                                         *)
(* Which function runs, and whether opts pins a block or is nil, is chosen *)
(* in Init.  Minipools are only ever added to the index (its statuses     *)
(* include dissolved and withdrawable, and nothing here removes one), so  *)
(* the minipool at index i keeps its address, written i + 1 here (0 is   *)
(* the zero address); only its status changes.  A page call returns the   *)
(* minipools of indices offset .. offset+limit-1 that exist at the block  *)
(* it reads, clamped to the index's length there.                         *)
(***************************************************************************)
EXTENDS Naturals, Sequences, SequencesExt, Functions

CONSTANTS
    Statuses,       \* minipool statuses, "prelaunch" among them
    MaxMinipools,   \* bound on the length of the index
    MaxBlocks,      \* bound on the chain's length
    BatchSize,      \* MinipoolAddressBatchSize = MinipoolDetailsBatchSize here
    PageSize        \* MinipoolPrelaunchBatchSize, the page limit

ASSUME /\ "prelaunch" \in Statuses /\ MaxMinipools \in Nat
       /\ MaxBlocks \in Nat \ {0} /\ BatchSize \in Nat \ {0}
       /\ PageSize \in Nat \ {0}

Index == 0..MaxMinipools - 1
Addr == 0..MaxMinipools
Detail == [addr : Addr, exists : BOOLEAN]
NoDetail == [addr |-> 0, exists |-> FALSE]
Err == [ok |-> FALSE, items |-> << >>]
NoCounts == [s \in Statuses |-> 0]

VARIABLES
    hist,       \* hist[b]: the status of each indexed minipool at block b
    fn,         \* "minipools", "prelaunch" or "counts"
    pinned,     \* TRUE: opts pins a block; FALSE: opts == nil
    pc,         \* "idle", "count", "batch", "wait", "page", "done"
    phase,      \* GetMinipools: "addr" or "detail"
    pin,        \* the block opts names (the head when the call began)
    count,      \* the minipool count the call read
    bsi,        \* start index of the current batch or page (offset)
    workers,    \* goroutines of the current batch: index -> run/ok/err
    addrs,      \* GetMinipoolAddresses's slice
    details,    \* loadMinipoolDetails's slice
    found,      \* the addresses appended by the pages so far
    tally,      \* minipoolCounts: the per-status sums so far
    result      \* what the call returned (the counts are in tally)

vars == <<hist, fn, pinned, pc, phase, pin, count, bsi, workers, addrs,
          details, found, tally, result>>

Latest == Last(hist)

\* The index a read sees: the pinned block or the latest one.
View == hist[IF pinned THEN pin ELSE Len(hist)]

\* The addresses of an index.
Addresses(l) == [i \in 1..Len(l) |-> i]

\* GetMinipoolAt(i): the address, or the zero address past the end.
MinipoolAt(l, i) == IF i < Len(l) THEN i + 1 ELSE 0

\* `if mei > minipoolCount { mei = minipoolCount }`
BatchEnd == IF bsi + BatchSize > count THEN count ELSE bsi + BatchSize

\* The addresses a page call at offset off covers on index l.
PageOf(l, off) ==
    IF off >= Len(l) THEN << >>
    ELSE SubSeq(Addresses(l), off + 1, IF off + PageSize > Len(l)
                                       THEN Len(l) ELSE off + PageSize)

TypeOK ==
    /\ hist \in Seq(BoundedSeq(Statuses, MaxMinipools)) /\ hist # << >>
    /\ fn \in {"minipools", "prelaunch", "counts"} /\ pinned \in BOOLEAN
    /\ pc \in {"idle", "count", "batch", "wait", "page", "done"}
    /\ phase \in {"addr", "detail"}
    /\ pin \in 0..MaxBlocks /\ count \in 0..MaxMinipools /\ bsi \in Nat
    /\ DOMAIN workers \subseteq 0..count - 1
    /\ \A i \in DOMAIN workers : workers[i] \in {"run", "ok", "err"}
    /\ addrs \in [Index -> Addr] /\ details \in [Index -> Detail]
    /\ found \in Seq(Addr) /\ tally \in [Statuses -> Nat]
    /\ result.ok \in BOOLEAN
    /\ result.items \in IF fn = "minipools" THEN Seq(Detail) ELSE Seq(Addr)

Init ==
    /\ \E l \in BoundedSeq(Statuses, MaxMinipools) : hist = << l >>
    /\ fn \in {"minipools", "prelaunch", "counts"} /\ pinned \in BOOLEAN
    /\ pc = "idle" /\ phase = "addr"
    /\ pin = 0 /\ count = 0 /\ bsi = 0 /\ workers = << >>
    /\ addrs = [i \in Index |-> 0] /\ details = [i \in Index |-> NoDetail]
    /\ found = << >> /\ tally = NoCounts /\ result = Err

Finish(r) == result' = r /\ pc' = "done"

\* The caller builds opts for the current head and calls the function.
Begin ==
    /\ pc = "idle"
    /\ pin' = Len(hist) /\ pc' = "count"
    /\ UNCHANGED <<hist, fn, pinned, phase, count, bsi, workers, addrs,
                   details, found, tally, result>>

\* Mutant: GetMinipoolAddresses reads the count with nil, as the paged
\* readers do.
ReadCountAtHead ==
    /\ pc = "count"
    /\ count' = Len(Latest)
    /\ bsi' = 0 /\ pc' = IF fn = "minipools" THEN "batch" ELSE "page"
    /\ UNCHANGED <<hist, fn, pinned, phase, pin, workers, addrs, details,
                   found, tally, result>>

\* GetMinipoolCount(ggp, opts) in GetMinipoolAddresses; GetMinipoolCount(
\* ggp, nil), the latest block whatever opts says, in the paged readers.
ReadCount ==
    /\ pc = "count"
    /\ count' = IF fn = "minipools" THEN Len(View) ELSE Len(Latest)
    /\ bsi' = 0 /\ pc' = IF fn = "minipools" THEN "batch" ELSE "page"
    /\ UNCHANGED <<hist, fn, pinned, phase, pin, workers, addrs, details,
                   found, tally, result>>

ReadCountFails ==
    /\ pc = "count"
    /\ Finish(Err)
    /\ UNCHANGED <<hist, fn, pinned, phase, pin, count, bsi, workers, addrs,
                   details, found, tally>>

\* `for mi := msi; mi < mei; mi++ { wg.Go(...) }`
StartBatch ==
    /\ pc = "batch" /\ bsi < count
    /\ workers' = [i \in bsi..BatchEnd - 1 |-> "run"]
    /\ pc' = "wait"
    /\ UNCHANGED <<hist, fn, pinned, phase, pin, count, bsi, addrs, details,
                   found, tally, result>>

\* The batch loop ends: GetMinipools goes on to loadMinipoolDetails with
\* len(minipoolAddresses) = count, or returns the details.
EndBatches ==
    /\ pc = "batch" /\ bsi >= count
    /\ IF phase = "addr"
       THEN /\ phase' = "detail" /\ bsi' = 0
            /\ UNCHANGED <<pc, result>>
       ELSE /\ Finish([ok |-> TRUE, items |-> [i \in 1..count |-> details[i - 1]]])
            /\ UNCHANGED <<phase, bsi>>
    /\ UNCHANGED <<hist, fn, pinned, pin, count, workers, addrs, details,
                   found, tally>>

\* Goroutine mi: GetMinipoolAt(mi), or GetMinipoolDetails(addresses[mi])
\* (its exists and pubkey goroutines; the pubkey is not modelled).
Worker(i) ==
    /\ pc = "wait" /\ i \in DOMAIN workers /\ workers[i] = "run"
    /\ workers' = [workers EXCEPT ![i] = "ok"]
    /\ IF phase = "addr"
       THEN /\ addrs' = [addrs EXCEPT ![i] = MinipoolAt(View, i)]
            /\ UNCHANGED details
       ELSE /\ details' = [details EXCEPT ![i] =
                  [addr |-> addrs[i], exists |-> addrs[i] \in 1..Len(View)]]
            /\ UNCHANGED addrs
    /\ UNCHANGED <<hist, fn, pinned, pc, phase, pin, count, bsi, found,
                   tally, result>>

WorkerFails(i) ==
    /\ pc = "wait" /\ i \in DOMAIN workers /\ workers[i] = "run"
    /\ workers' = [workers EXCEPT ![i] = "err"]
    /\ UNCHANGED <<hist, fn, pinned, pc, phase, pin, count, bsi, addrs,
                   details, found, tally, result>>

\* `if err := wg.Wait(); err != nil { return ..., err }`
Wait ==
    /\ pc = "wait" /\ \A i \in DOMAIN workers : workers[i] # "run"
    /\ IF \E i \in DOMAIN workers : workers[i] = "err"
       THEN /\ Finish(Err)
            /\ UNCHANGED <<bsi, workers>>
       ELSE /\ bsi' = bsi + BatchSize /\ pc' = "batch" /\ workers' = << >>
            /\ UNCHANGED result
    /\ UNCHANGED <<hist, fn, pinned, phase, pin, count, addrs, details,
                   found, tally>>

\* Mutant: the page read at the latest block instead of at opts.
PageAtHead ==
    /\ pc = "page" /\ bsi < count
    /\ LET p == PageOf(Latest, bsi) IN
       IF fn = "prelaunch"
       THEN found' = found \o SelectSeq(p, LAMBDA a : Latest[a] = "prelaunch")
            /\ UNCHANGED tally
       ELSE tally' = [s \in Statuses |->
                        tally[s] + Len(SelectSeq(p, LAMBDA a : Latest[a] = s))]
            /\ UNCHANGED found
    /\ bsi' = bsi + PageSize
    /\ UNCHANGED <<hist, fn, pinned, pc, phase, pin, count, workers, addrs,
                   details, result>>

\* Mutant: the offset advanced by one less than the limit.
PageOverlap ==
    /\ pc = "page" /\ bsi < count
    /\ LET p == PageOf(View, bsi) IN
       IF fn = "prelaunch"
       THEN found' = found \o SelectSeq(p, LAMBDA a : View[a] = "prelaunch")
            /\ UNCHANGED tally
       ELSE tally' = [s \in Statuses |->
                        tally[s] + Len(SelectSeq(p, LAMBDA a : View[a] = s))]
            /\ UNCHANGED found
    /\ bsi' = bsi + PageSize - 1
    /\ UNCHANGED <<hist, fn, pinned, pc, phase, pin, count, workers, addrs,
                   details, result>>

\* One iteration of `for i := 0; i < totalMinipools; i += Minipool-
\* PrelaunchBatchSize`: the page at offset i, read at opts, appended to
\* addresses or added status by status to minipoolCounts.
Page ==
    /\ pc = "page" /\ bsi < count
    /\ LET p == PageOf(View, bsi) IN
       IF fn = "prelaunch"
       THEN found' = found \o SelectSeq(p, LAMBDA a : View[a] = "prelaunch")
            /\ UNCHANGED tally
       ELSE tally' = [s \in Statuses |->
                        tally[s] + Len(SelectSeq(p, LAMBDA a : View[a] = s))]
            /\ UNCHANGED found
    /\ bsi' = bsi + PageSize
    /\ UNCHANGED <<hist, fn, pinned, pc, phase, pin, count, workers, addrs,
                   details, result>>

PageFails ==
    /\ pc = "page" /\ bsi < count
    /\ Finish(Err)
    /\ UNCHANGED <<hist, fn, pinned, phase, pin, count, bsi, workers, addrs,
                   details, found, tally>>

\* The page loop ends: the addresses (or, for the counts, minipoolCounts).
EndPages ==
    /\ pc = "page" /\ bsi >= count
    /\ Finish([ok |-> TRUE, items |-> found])
    /\ UNCHANGED <<hist, fn, pinned, phase, pin, count, bsi, workers, addrs,
                   details, found, tally>>

(* The chain. *)

\* createMinipool: a new minipool is indexed in prelaunch.
Create ==
    /\ Len(hist) < MaxBlocks /\ Len(Latest) < MaxMinipools
    /\ hist' = Append(hist, Append(Latest, "prelaunch"))
    /\ UNCHANGED <<fn, pinned, pc, phase, pin, count, bsi, workers, addrs,
                   details, found, tally, result>>

\* A minipool moves to another status (launched, staking, withdrawable...).
SetStatus(k, s) ==
    /\ Len(hist) < MaxBlocks /\ k \in 1..Len(Latest) /\ Latest[k] # s
    /\ hist' = Append(hist, [Latest EXCEPT ![k] = s])
    /\ UNCHANGED <<fn, pinned, pc, phase, pin, count, bsi, workers, addrs,
                   details, found, tally, result>>

Finished == pc = "done" /\ UNCHANGED vars

Caller == Begin \/ ReadCount \/ StartBatch \/ EndBatches \/ Wait
          \/ Page \/ EndPages

Next ==
    \/ Caller \/ ReadCountFails \/ PageFails
    \/ \E i \in Index : Worker(i) \/ WorkerFails(i)
    \/ Create \/ \E k \in 1..MaxMinipools, s \in Statuses : SetStatus(k, s)
    \/ Finished

\* The calling goroutine and the spawned ones keep running; failures and
\* chain steps are never forced.
Spec == Init /\ [][Next]_vars /\ WF_vars(Caller)
        /\ \A i \in Index : WF_vars(Worker(i))

-----------------------------------------------------------------------------
(* Properties *)

\* The prelaunch addresses and the per-status counts of an index, as the
\* contract's pages together report them.
PrelaunchOf(l) == SelectSeq(Addresses(l), LAMBDA a : l[a] = "prelaunch")
CountsOf(l) == [s \in Statuses |-> Len(SelectSeq(Addresses(l), LAMBDA a : l[a] = s))]

Abs == INSTANCE FetchSnapshot
         WITH hist <- [b \in DOMAIN hist |-> Addresses(hist[b])],
              Lists <- {Addresses(l) : l \in BoundedSeq(Statuses, MaxMinipools)},
              apc <- CASE fn # "minipools" \/ pc = "idle" -> "idle"
                       [] pc = "done"                  -> "done"
                       [] OTHER                        -> "busy",
              start <- IF fn = "minipools" THEN pin ELSE 0,
              result <- IF fn = "minipools" THEN result ELSE Err

\* GetMinipools implements FetchSnapshot, with opts pinned and with opts
\* nil alike: it returns an error or every minipool of the index at one
\* block since the call began, in index order, each existing.  With nil
\* the count and each GetMinipoolAt read different blocks; this holds
\* only because the index is append-only and the count is read first.
MinipoolsSnapshot == Abs!ASpec

\* With opts pinned, GetPrelaunchMinipoolAddresses returns exactly the
\* prelaunch minipools of the pinned block, and GetMinipoolCountPerStatus
\* exactly its counts, although the number of pages comes from a count
\* read at the latest block (GetMinipoolCount(ggp, nil)).
PagedPinnedExact ==
    pinned /\ pc = "done" /\ result.ok =>
        /\ fn = "prelaunch" => result.items = PrelaunchOf(hist[pin])
        /\ fn = "counts" => tally = CountsOf(hist[pin])

\* With opts nil, where every page reads a later block, the pages still
\* count every minipool counted at the start, and count none twice: the
\* status counts add up to at least that count and at most the length of
\* the index now (a minipool created during the scan may fall inside the
\* last page), and no prelaunch address is listed twice.
NilScanCountsEach ==
    ~pinned /\ pc = "done" /\ result.ok =>
        /\ fn = "counts" => count <= SumFunction(tally)
                            /\ SumFunction(tally) <= Len(Latest)
        /\ fn = "prelaunch" => IsInjective(result.items)
=============================================================================
