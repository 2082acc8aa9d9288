--------------------------- MODULE DepositRetrieval ---------------------------
(***************************************************************************)
(* utils.GetDeposits (utils/deposit_retrieval.go) over the log retriever:  *)
(* one GetLogs call from startBlock to the latest block with the caller's *)
(* intervalSize (LogRetriever, with GetDepositsCaller as its caller       *)
(* shape), then the loop over the returned logs: UnpackLog, the pubkey    *)
(* filter, the little-endian amount, append to depositMap[pubkey]; then   *)
(* sortDepositData on every pubkey's slice of more than one deposit.      *)
(*                                                                         *)
(* LogRetriever identifies a log by its block: the chunk loop splits only *)
(* on block numbers, so what it returns for a block here stands for all   *)
(* the block's DepositEvent logs, BlockDeposits[b], in log order.  A      *)
(* deposit is [block, tx, pk, n]: its block, transaction index, pubkey    *)
(* and a tag telling two deposits of one transaction apart.                *)
(*                                                                         *)
(* sort.Slice sorts slices of at most 12 elements by insertion sort (the  *)
(* model's slices are shorter); SortDepositData is that insertion sort    *)
(* with the code's less function.                                          *)
(***************************************************************************)
EXTENDS LogRetriever

CONSTANTS
    Pubkeys,            \* the keys of the caller's pubkeys map
    BlockDeposits,      \* BlockDeposits[b]: the deposit logs of block b
    GetDepositsCaller   \* GetDeposits' single GetLogs call, a caller shape

ASSUME Len(GetDepositsCaller) = 1

VARIABLES
    dpc,        \* "none" (another caller), "logs", "done"
    dok,        \* GetDeposits returned the map (TRUE) or nil, err
    dmap        \* depositMap: pubkey -> its deposits (absent = << >>)

dvars == <<dpc, dok, dmap>>
allvars == <<vars, dvars>>

\* The DepositEvent logs of the blocks GetLogs returned, in log order.
DepositLogs(blocks) == FlattenSeq([i \in DOMAIN blocks |-> BlockDeposits[blocks[i]]])

\* sortDepositData's less: lower block first, then lower transaction index.
DepositLess(a, b) ==
    IF a.block = b.block THEN a.tx < b.tx ELSE a.block < b.block

\* Mutant: the insertion moves an element past equal ones (less as <=).
RECURSIVE InsertPastEqual(_, _)
InsertPastEqual(s, x) ==
    IF s = << >> \/ ~(DepositLess(x, Last(s)) \/ ~DepositLess(Last(s), x))
    THEN Append(s, x)
    ELSE Append(InsertPastEqual(Front(s), x), Last(s))

\* insertionSortLessFunc: x moves left while less(x, its left neighbour).
RECURSIVE InsertDeposit(_, _)
InsertDeposit(s, x) ==
    IF s = << >> \/ ~DepositLess(x, Last(s))
    THEN Append(s, x)
    ELSE Append(InsertDeposit(Front(s), x), Last(s))

RECURSIVE SortDepositData(_)
SortDepositData(s) ==
    IF Len(s) <= 1 THEN s ELSE InsertDeposit(SortDepositData(Front(s)), Last(s))

\* The loop: each log unpacked, kept when its pubkey is in the map, and
\* appended to that pubkey's slice; then each slice of more than one is
\* sorted.
DepositMap(logs) ==
    [pk \in Pubkeys |->
        LET g == SelectSeq(logs, LAMBDA d : d.pk = pk)
        IN  IF Len(g) > 1 THEN SortDepositData(g) ELSE g]

DInit ==
    /\ Init
    /\ dpc = IF queries = GetDepositsCaller THEN "logs" ELSE "none"
    /\ dok = FALSE
    /\ dmap = [pk \in Pubkeys |-> << >>]

\* GetLogs has returned: on an error GetDeposits returns nil, err; else the
\* loop and the sort.
Process ==
    /\ dpc = "logs" /\ pc = "done"
    /\ dpc' = "done"
    /\ dok' = results[1].ok
    /\ dmap' = IF results[1].ok THEN DepositMap(DepositLogs(results[1].logs))
               ELSE dmap
    /\ UNCHANGED vars

\* UnpackLog, or binary.Read of a wanted deposit's amount, fails: the loop
\* returns nil, err.
ProcessFails ==
    /\ dpc = "logs" /\ pc = "done" /\ results[1].ok
    /\ DepositLogs(results[1].logs) # << >>
    /\ dpc' = "done" /\ dok' = FALSE
    /\ UNCHANGED <<vars, dmap>>

DNext ==
    \/ Next /\ UNCHANGED dvars
    \/ Process \/ ProcessFails

\* The goroutine keeps running and the node eventually answers, as in Spec.
DSpec == DInit /\ [][DNext]_allvars
         /\ WF_allvars(Progress /\ UNCHANGED dvars) /\ WF_allvars(Process)

-----------------------------------------------------------------------------
(* Properties *)

\* A successful GetDeposits gives each wanted pubkey exactly its deposits
\* of [startBlock, latest], in chain order, the deposits of one
\* transaction in their log order: the chunked GetLogs, the grouping and
\* sortDepositData (its less compares only block and transaction index)
\* together neither lose, duplicate nor reorder a deposit.
DepositsExact ==
    dpc = "done" /\ dok =>
        \A pk \in Pubkeys :
            dmap[pk] = SelectSeq(DepositLogs(FilterLogs(results[1].from, results[1].to)),
                                 LAMBDA d : d.pk = pk)
=============================================================================
