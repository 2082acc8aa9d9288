--------------------------- MODULE LogRetriever ---------------------------
(***************************************************************************)
(* The chunked event-log retriever of utils/avax/logs.go.                  *)
(*                                                                         *)
(* One caller goroutine issues a fixed sequence of GetLogs calls that all  *)
(* pass the SAME *big.Int intervalSize, as FilterContractLogs (two calls)  *)
(* and the trusted-node participation estimators (one call for the member  *)
(* count change plus one per member) do.  GetLogs decrements that shared  *)
(* value in place (intervalSize.Sub(intervalSize, 1)), so the decrement is  *)
(* modelled as an update of the caller's variable `interval`.              *)
(*                                                                         *)
(* The chain is a set of blocks carrying a matching log (`events`, chosen  *)
(* once) and a head that grows.  A log is identified by its block number;  *)
(* topics, addresses and transaction indexes are abstracted away because   *)
(* chunking only ever splits on block numbers.  Each RPC (the deploy-block *)
(* storage read, BlockNumber and FilterLogs) may fail.                     *)
(***************************************************************************)
EXTENDS Integers, Sequences, SequencesExt

CONSTANTS
    MaxBlock,       \* bound on the chain height
    InitialHead,    \* chain head when the caller starts
    DeployBlock,    \* value stored under "deploy.block" in GoGoStorage
    IntervalSizes,  \* values the caller may pass as intervalSize (Nil: nil)
    Callers,        \* caller shapes: each a sequence of GetLogs [from, to]
                    \* arguments, each Nil or a block
    Nil

Blocks == 0..MaxBlock
BlockArg == Blocks \cup {Nil}

ASSUME /\ InitialHead \in Blocks /\ DeployBlock \in Blocks
       /\ IntervalSizes \subseteq (Nat \ {0}) \cup {Nil}
       /\ \A q \in Callers :
            /\ q \in Seq([from : BlockArg, to : BlockArg]) /\ q # << >>
            \* an explicit toBlock is a block the node already has
            /\ \A i \in DOMAIN q : q[i].to \in 0..InitialHead \cup {Nil}
            \* Bound: the shared interval never drops below -1 (chunk
            \* length 0).  Below that the loop walks start downwards
            \* without end.
            /\ \A k \in IntervalSizes : k = Nil \/ k + 1 >= Len(q)

VARIABLES
    queries,    \* the caller's GetLogs calls (one of Callers)
    requested,  \* the intervalSize the caller passed, before any call
    head,       \* latest block number known to the node
    events,     \* blocks holding a log that matches the filter
    interval,   \* the caller's intervalSize *big.Int (Nil when not given)
    pc,         \* caller/GetLogs program counter
    from,       \* GetLogs' fromBlock after defaulting
    to,         \* GetLogs' toBlock after defaulting (chunked path)
    start,      \* current chunk start (aliases fromBlock in the code)
    end,        \* current chunk end
    out,        \* logs accumulated by the current GetLogs call
    results     \* what each finished GetLogs call returned to the caller

vars == <<queries, requested, head, events, interval, pc, from, to, start, end, out, results>>

\* What GetLogs hands back: logs for [from, to], or nil, err.
Result == [ok : BOOLEAN, from : Blocks, to : Blocks, logs : Seq(Blocks)]
Ok(f, t, logs) == [ok |-> TRUE, from |-> f, to |-> t, logs |-> logs]
Err == [ok |-> FALSE, from |-> 0, to |-> 0, logs |-> << >>]

\* The call the caller is currently in.
Query == queries[Len(results) + 1]

\* FilterLogs(s, e): the matching logs of blocks s..e, in block order.
BlockBefore(a, b) == a < b
FilterLogs(s, e) == SetToSortSeq({b \in events : s <= b /\ b <= e}, BlockBefore)

\* `if end.Cmp(toBlock) == 1 { end = toBlock }`
Clamp(e, t) == IF e > t THEN t ELSE e

TypeOK ==
    /\ queries \in Callers /\ requested \in IntervalSizes
    /\ head \in Blocks /\ events \subseteq Blocks
    /\ interval \in Int \cup {Nil}
    /\ pc \in {"from", "to", "single", "loop", "done"}
    /\ from \in Blocks /\ to \in Blocks
    /\ start \in Blocks /\ end \in -1..MaxBlock
    /\ out \in Seq(Blocks)
    /\ results \in Seq(Result)

Init ==
    /\ head = InitialHead
    /\ events \in SUBSET Blocks
    /\ queries \in Callers
    /\ requested \in IntervalSizes
    /\ interval = requested
    /\ pc = "from"
    /\ from = 0 /\ to = 0 /\ start = 0 /\ end = 0
    /\ out = << >>
    /\ results = << >>

\* GetLogs returns `logs` to the caller, which goes on to its next call.
Return(r) ==
    /\ results' = Append(results, r)
    /\ pc' = IF ~r.ok \/ Len(results) + 1 = Len(queries) THEN "done" ELSE "from"
    /\ out' = << >> /\ start' = 0 /\ end' = 0

\* fromBlock defaulting: an explicit fromBlock, or the deploy block read
\* from GoGoStorage; then the branch on intervalSize == nil.
ResolveFrom ==
    /\ pc = "from"
    /\ from' = IF Query.from = Nil THEN DeployBlock ELSE Query.from
    /\ pc' = IF interval = Nil THEN "single" ELSE "to"
    /\ UNCHANGED <<queries, requested, head, events, interval, to, start, end,
                   out, results>>

\* The GoGoStorage.GetUint("deploy.block") call fails.
ResolveFromFails ==
    /\ pc = "from" /\ Query.from = Nil
    /\ Return(Err)
    /\ UNCHANGED <<queries, requested, head, events, interval, from, to>>

\* intervalSize == nil: one FilterLogs over [fromBlock, toBlock], a nil
\* toBlock meaning the node's latest block.
SingleQuery ==
    /\ pc = "single"
    /\ LET t == IF Query.to = Nil THEN head ELSE Query.to
       IN  Return(Ok(from, t, FilterLogs(from, t)))
    /\ UNCHANGED <<queries, requested, head, events, interval, from, to>>

\* Mutant: intervalSize used as the chunk's last offset without the - 1.
ResolveToNoDecrement ==
    /\ pc = "to"
    /\ LET t == IF Query.to = Nil THEN head ELSE Query.to
       IN  /\ to' = t
           /\ start' = from
           /\ end' = Clamp(from + interval, t)
    /\ pc' = "loop"
    /\ UNCHANGED <<queries, requested, head, events, interval, from, out, results>>

\* toBlock defaulting (BlockNumber), the in-place decrement of the
\* caller's intervalSize, and the first clamped chunk.
ResolveTo ==
    /\ pc = "to"
    /\ LET t  == IF Query.to = Nil THEN head ELSE Query.to
           iv == interval - 1
       IN  /\ to' = t
           /\ interval' = iv
           /\ start' = from
           /\ end' = Clamp(from + iv, t)
    /\ pc' = "loop"
    /\ UNCHANGED <<queries, requested, head, events, from, out, results>>

\* The BlockNumber call fails.
ResolveToFails ==
    /\ pc = "to" /\ Query.to = Nil
    /\ Return(Err)
    /\ UNCHANGED <<queries, requested, head, events, interval, from, to>>

\* Mutant: the next chunk starts at end instead of end + 1.
QueryChunkOverlap ==
    /\ pc = "loop"
    /\ LET logs == out \o FilterLogs(start, end)
       IN  IF end = to
           THEN Return(Ok(from, to, logs))
           ELSE /\ out' = logs
                /\ start' = end
                /\ end' = Clamp(end + interval, to)
                /\ UNCHANGED <<pc, results>>
    /\ UNCHANGED <<queries, requested, head, events, interval, from, to>>

\* Mutant: the next chunk's end is not clamped to toBlock.
QueryChunkNoClamp ==
    /\ pc = "loop"
    /\ LET logs == out \o FilterLogs(start, end)
       IN  IF end = to
           THEN Return(Ok(from, to, logs))
           ELSE /\ out' = logs
                /\ start' = end + 1
                /\ end' = end + 1 + interval
                /\ UNCHANGED <<pc, results>>
    /\ UNCHANGED <<queries, requested, head, events, interval, from, to>>

\* Mutant: the loop exits only once end has passed toBlock.
QueryChunkExitPastEnd ==
    /\ pc = "loop"
    /\ LET logs == out \o FilterLogs(start, end)
       IN  IF end > to
           THEN Return(Ok(from, to, logs))
           ELSE /\ out' = logs
                /\ start' = end + 1
                /\ end' = Clamp(end + 1 + interval, to)
                /\ UNCHANGED <<pc, results>>
    /\ UNCHANGED <<queries, requested, head, events, interval, from, to>>

\* One iteration of the chunk loop: FilterLogs(start, end), append, return
\* when end == toBlock, else advance to (end+1, end+1+intervalSize].
QueryChunk ==
    /\ pc = "loop"
    /\ LET logs == out \o FilterLogs(start, end)
       IN  IF end = to
           THEN Return(Ok(from, to, logs))
           ELSE /\ out' = logs
                /\ start' = end + 1
                /\ end' = Clamp(end + 1 + interval, to)
                /\ UNCHANGED <<pc, results>>
    /\ UNCHANGED <<queries, requested, head, events, interval, from, to>>

\* A FilterLogs call fails; GetLogs returns nil, err.
FilterLogsFails ==
    /\ pc \in {"single", "loop"}
    /\ Return(Err)
    /\ UNCHANGED <<queries, requested, head, events, interval, from, to>>

\* The chain produces a block.
Mine ==
    /\ head < MaxBlock
    /\ head' = head + 1
    /\ UNCHANGED <<queries, requested, events, interval, pc, from, to, start, end,
                   out, results>>

\* The caller has returned; nothing more happens.
Finished ==
    /\ pc = "done"
    /\ UNCHANGED vars

Progress == ResolveFrom \/ SingleQuery \/ ResolveTo \/ QueryChunk

Next ==
    \/ Progress
    \/ ResolveFromFails \/ ResolveToFails \/ FilterLogsFails
    \/ Mine
    \/ Finished

\* The goroutine keeps running and the node eventually answers; failures
\* and new blocks are never forced.
Spec == Init /\ [][Next]_vars /\ WF_vars(Progress)

-----------------------------------------------------------------------------
(* Properties *)

\* Every GetLogs call that succeeds returns exactly the matching logs of
\* [fromBlock, toBlock], each once and in block order: the chunk loop's
\* boundaries (start = end+1, the clamp on toBlock, the exit on
\* end == toBlock) neither drop nor duplicate a boundary block, whatever
\* the caller's earlier calls did to intervalSize.
LogsExact ==
    \A i \in DOMAIN results :
        results[i].ok =>
            results[i].logs = FilterLogs(results[i].from, results[i].to)

\* No chunk handed to FilterLogs spans more blocks than the caller's
\* intervalSize: the node's request limit is respected by every call.
ChunkWithinLimit ==
    pc = "loop" /\ requested # Nil => end - start + 1 <= requested

\* The caller's sequence of GetLogs calls finishes (with logs or an error)
\* while the node keeps answering: the chunk loop reaches toBlock.
CallerReturns == <>(pc = "done")
=============================================================================
