----------------------------- MODULE BatchFetch -----------------------------
(***************************************************************************)
(* The batched parallel fetch of an indexed on-chain collection, in the    *)
(* shape of trustednode.GetMembers (dao/trustednode/dao.go):               *)
(*                                                                         *)
(*   GetMemberAddresses: GetMemberCount, then batches of                   *)
(*     MemberAddressBatchSize goroutines, goroutine mi storing             *)
(*     GetMemberAt(mi) in addresses[mi]; errgroup.Wait after each batch;   *)
(*   GetMembers: batches of MemberDetailsBatchSize goroutines storing      *)
(*     GetMemberDetails(addresses[mi]) in details[mi].                     *)
(*                                                                         *)
(* Any error makes the call return an empty slice and the error.  Every    *)
(* read takes the caller's opts: pinned to one block, or (opts == nil) the *)
(* block that is latest when the read runs.  GetLots, GetProposals,        *)
(* GetDAOProposalIDs, GetMinipoolAddresses and GetNodes follow the same    *)
(* count-then-batches pattern with one phase.                              *)
(*                                                                         *)
(* The chain's member set is an append-only history of lists.  A member    *)
(* joins at the end; a leaving member's slot is refilled with the last     *)
(* member and the list shortened, as the protocol's address-set storage    *)
(* does.  Reading past the end yields the zero address.                    *)
(***************************************************************************)
EXTENDS Naturals, Sequences, SequencesExt

CONSTANTS
    Items,      \* member addresses
    Null,       \* the zero address
    MaxLen,     \* bound on the number of members
    MaxBlocks,  \* bound on the chain's length
    BatchSize,  \* MemberAddressBatchSize = MemberDetailsBatchSize here
    Pinned      \* TRUE: opts pins a block; FALSE: opts == nil

ASSUME /\ Null \notin Items /\ MaxLen \in Nat /\ MaxBlocks \in Nat \ {0}
       /\ BatchSize \in Nat \ {0} /\ Pinned \in BOOLEAN

\* The member lists the chain can hold: no address twice.
Lists == {l \in BoundedSeq(Items, MaxLen) : IsInjective(l)}
Index == 0..MaxLen - 1
Detail == [addr : Items \cup {Null}, exists : BOOLEAN]
NoDetail == [addr |-> Null, exists |-> FALSE]
Result == [ok : BOOLEAN, items : Seq(Detail)]
Err == [ok |-> FALSE, items |-> << >>]

VARIABLES
    hist,       \* hist[b]: the member list at block b
    pc,         \* "idle", "count", "batch", "wait", "done"
    phase,      \* "addr" (GetMemberAddresses) or "detail" (GetMembers)
    pin,        \* the block opts names (the head when the call began)
    count,      \* GetMemberCount's answer
    bsi,        \* start index of the current batch
    workers,    \* goroutines of the current batch: index -> run/ok/err
    addrs,      \* the addresses slice
    details,    \* the details slice
    result      \* what GetMembers returned

vars == <<hist, pc, phase, pin, count, bsi, workers, addrs, details, result>>

\* The member list a read sees: the pinned block or the latest one.
View == hist[IF Pinned THEN pin ELSE Len(hist)]

\* getMemberAt(i) on a list: the address, or the zero address past the end.
MemberAt(l, i) == IF i < Len(l) THEN l[i + 1] ELSE Null

\* `if mei > count { mei = count }`: one past the batch's last index.
BatchEnd == IF bsi + BatchSize > count THEN count ELSE bsi + BatchSize

TypeOK ==
    /\ hist \in Seq(Lists) /\ hist # << >>
    /\ pc \in {"idle", "count", "batch", "wait", "done"}
    /\ phase \in {"addr", "detail"}
    /\ pin \in 0..MaxBlocks
    /\ count \in 0..MaxLen
    /\ bsi \in Nat
    /\ DOMAIN workers \subseteq 0..count - 1
    /\ \A i \in DOMAIN workers : workers[i] \in {"run", "ok", "err"}
    /\ addrs \in [Index -> Items \cup {Null}]
    /\ details \in [Index -> Detail]
    /\ result \in Result

Init ==
    /\ \E l \in Lists : hist = << l >>
    /\ pc = "idle" /\ phase = "addr"
    /\ pin = 0 /\ count = 0 /\ bsi = 0
    /\ workers = << >>
    /\ addrs = [i \in Index |-> Null]
    /\ details = [i \in Index |-> NoDetail]
    /\ result = Err

Finish(r) == result' = r /\ pc' = "done"

\* The caller builds opts for the current head and calls GetMembers.
Begin ==
    /\ pc = "idle"
    /\ pin' = Len(hist) /\ pc' = "count"
    /\ UNCHANGED <<hist, phase, count, bsi, workers, addrs, details, result>>

\* GetMemberCount(ggp, opts), then the batch loop from index 0.
ReadCount ==
    /\ pc = "count"
    /\ count' = Len(View)
    /\ bsi' = 0 /\ pc' = "batch"
    /\ UNCHANGED <<hist, phase, pin, workers, addrs, details, result>>

ReadCountFails ==
    /\ pc = "count"
    /\ Finish(Err)
    /\ UNCHANGED <<hist, phase, pin, count, bsi, workers, addrs, details>>

\* Mutant: the batch end not clamped to the count.
StartBatchNoClamp ==
    /\ pc = "batch" /\ bsi < count
    /\ workers' = [i \in bsi..bsi + BatchSize - 1 |-> "run"]
    /\ pc' = "wait"
    /\ UNCHANGED <<hist, phase, pin, count, bsi, addrs, details, result>>

\* `for mi := msi; mi < mei; mi++ { wg.Go(...) }`
StartBatch ==
    /\ pc = "batch" /\ bsi < count
    /\ workers' = [i \in bsi..BatchEnd - 1 |-> "run"]
    /\ pc' = "wait"
    /\ UNCHANGED <<hist, phase, pin, count, bsi, addrs, details, result>>

\* The batch loop ends: GetMemberAddresses returns its slice and GetMembers
\* starts on the details, or GetMembers returns the details.
EndBatches ==
    /\ pc = "batch" /\ bsi >= count
    /\ IF phase = "addr"
       THEN /\ phase' = "detail" /\ bsi' = 0
            /\ UNCHANGED <<pc, result>>
       ELSE /\ Finish([ok |-> TRUE, items |-> [i \in 1..count |-> details[i - 1]]])
            /\ UNCHANGED <<phase, bsi>>
    /\ UNCHANGED <<hist, pin, count, workers, addrs, details>>

\* Goroutine mi: GetMemberAt(mi) or GetMemberDetails(addresses[mi]); the
\* result is stored only when err == nil.
Worker(i) ==
    /\ pc = "wait" /\ i \in DOMAIN workers /\ workers[i] = "run"
    /\ workers' = [workers EXCEPT ![i] = "ok"]
    /\ IF phase = "addr"
       THEN /\ addrs' = [addrs EXCEPT ![i] = MemberAt(View, i)]
            /\ UNCHANGED details
       ELSE /\ details' = [details EXCEPT ![i] =
                  [addr |-> addrs[i], exists |-> addrs[i] \in Range(View)]]
            /\ UNCHANGED addrs
    /\ UNCHANGED <<hist, pc, phase, pin, count, bsi, result>>

WorkerFails(i) ==
    /\ pc = "wait" /\ i \in DOMAIN workers /\ workers[i] = "run"
    /\ workers' = [workers EXCEPT ![i] = "err"]
    /\ UNCHANGED <<hist, pc, phase, pin, count, bsi, addrs, details, result>>

\* Mutant: the error of wg.Wait() ignored.
WaitIgnoresError ==
    /\ pc = "wait" /\ \A i \in DOMAIN workers : workers[i] # "run"
    /\ bsi' = bsi + BatchSize /\ pc' = "batch" /\ workers' = << >>
    /\ UNCHANGED <<hist, phase, pin, count, addrs, details, result>>

\* `if err := wg.Wait(); err != nil { return []MemberDetails{}, err }`:
\* Wait returns once every goroutine of the batch has returned.
Wait ==
    /\ pc = "wait" /\ \A i \in DOMAIN workers : workers[i] # "run"
    /\ IF \E i \in DOMAIN workers : workers[i] = "err"
       THEN /\ Finish(Err)
            /\ UNCHANGED <<bsi, workers>>
       ELSE /\ bsi' = bsi + BatchSize /\ pc' = "batch" /\ workers' = << >>
            /\ UNCHANGED result
    /\ UNCHANGED <<hist, phase, pin, count, addrs, details>>

\* A node joins the trusted DAO: it is appended to the member list.
Join(x) ==
    /\ Len(hist) < MaxBlocks
    /\ x \notin Range(Last(hist)) /\ Len(Last(hist)) < MaxLen
    /\ hist' = Append(hist, Append(Last(hist), x))
    /\ UNCHANGED <<pc, phase, pin, count, bsi, workers, addrs, details, result>>

\* A member leaves or is kicked: the last member takes its slot.
Leave(x) ==
    /\ Len(hist) < MaxBlocks
    /\ x \in Range(Last(hist))
    /\ LET l == Last(hist)
           k == CHOOSE j \in 1..Len(l) : l[j] = x
       IN  hist' = Append(hist, Front([l EXCEPT ![k] = l[Len(l)]]))
    /\ UNCHANGED <<pc, phase, pin, count, bsi, workers, addrs, details, result>>

Finished == pc = "done" /\ UNCHANGED vars

Caller == Begin \/ ReadCount \/ StartBatch \/ EndBatches \/ Wait

Next ==
    \/ Caller \/ ReadCountFails
    \/ \E i \in Index : Worker(i) \/ WorkerFails(i)
    \/ \E x \in Items : Join(x) \/ Leave(x)
    \/ Finished

\* The calling goroutine and every spawned goroutine keep running; reads
\* eventually succeed.  Failures and chain steps are never forced.
Spec == Init /\ [][Next]_vars /\ WF_vars(Caller)
        /\ \A i \in Index : WF_vars(Worker(i))

-----------------------------------------------------------------------------
(* Properties *)

Abs == INSTANCE FetchSnapshot
         WITH apc <- CASE pc = "idle" -> "idle"
                       [] pc = "done" -> "done"
                       [] OTHER       -> "busy",
              start <- pin

\* GetMembers implements FetchSnapshot: it returns, and what it returns is
\* an error or the member list of one block since the call began, each
\* member once, in index order, with its details.  This is about the
\* count read, the per-index reads of both phases and the error handling
\* of errgroup.Wait together.
Snapshot == Abs!ASpec

\* A successful GetMembers lists every address at most once.  The
\* participation estimators count len(members) as the number of
\* trusted nodes and add one chi-square term per listed member.
MembersDistinct ==
    result.ok => IsInjective([i \in DOMAIN result.items |-> result.items[i].addr])
=============================================================================
