---------------------------- MODULE ProposalFetch ----------------------------
(***************************************************************************)
(* The DAO proposal fetchers of dao/proposals.go:                          *)
(*                                                                         *)
(*   GetProposals(WithMember): GetProposalCount, then batches of           *)
(*     ProposalDetailsBatchSize goroutines fetching proposal pi+1;         *)
(*   GetDAOProposals(WithMember): GetDAOProposalIDs (the count, batches    *)
(*     of ProposalDAONamesBatchSize goroutines reading GetProposalDAO(pi+1),*)
(*     then a filter on the DAO name), then batches of detail goroutines   *)
(*     over the ids;                                                       *)
(*   GetProposalDetails: one goroutine per field and errgroup.Wait;        *)
(*     GetProposalDetailsWithMember adds the member's receipt fields.      *)
(*                                                                         *)
(* Each Wait returns after every goroutine of its group has returned; an   *)
(* error makes the call return an empty slice.  A detail goroutine writes  *)
(* details[pi] only when its own Wait saw no error.  Every read takes the  *)
(* caller's opts: a pinned block, or (opts == nil, as the tests pass) the  *)
(* block that is latest when the read runs.                                *)
(*                                                                         *)
(* The chain holds an append-only list of proposals.  A proposal's DAO is  *)
(* fixed when it is created; `ver` stands for every field that votes,     *)
(* cancellation and execution change (votes, state, receipts).  Reading a  *)
(* proposal that does not exist yields zero values.                        *)
(***************************************************************************)
EXTENDS Naturals, Sequences, SequencesExt

CONSTANTS
  DAOs,              \* DAO names
  AllDAOs,           \* model value: the caller filters on no DAO
  NoDAO,             \* model value: the empty string a missing proposal has
  MaxProposals,      \* bound on the number of proposals
  MaxVersion,        \* bound on the changes of one proposal
  MaxBlocks,         \* bound on the chain's length
  NamesBatchSize,    \* ProposalDAONamesBatchSize (50 in the code)
  DetailsBatchSize   \* ProposalDetailsBatchSize (10 in the code)

ASSUME /\ {AllDAOs, NoDAO} \cap DAOs = {}
       /\ NamesBatchSize \in Nat \ {0} /\ DetailsBatchSize \in Nat \ {0}

Proposal == [dao : DAOs, ver : 0..MaxVersion]
Index == 0..MaxProposals - 1
Ids == 1..MaxProposals

(* The caller: GetProposals (dao = AllDAOs) or GetDAOProposals, each with *)
(* or without member data.                                               *)
Shapes == [dao : DAOs \cup {AllDAOs}, member : BOOLEAN]

(* Fields read by GetProposalDetails, and by the WithMember variant.     *)
DetailFields == {"dao", "state"}
MemberFields == {"voted"}
Value == DAOs \cup {NoDAO} \cup 0..MaxVersion
Status == {"run", "ok", "err"}

VARIABLES
  hist,      \* hist[b]: the proposal list at block b
  shape,     \* the caller's function and arguments
  pinned,    \* whether the caller's opts names a block
  pin,       \* the block opts names (the head when the call began)
  pc,        \* "idle", "count", "names", "nwait", "details", "dwait", "done"
  count,     \* GetProposalCount's answer
  bsi,       \* start index of the current batch
  workers,   \* GetProposalDAO goroutines of the current name batch
  names,     \* the proposalDaoNames slice
  ids,       \* the proposal ids whose details are fetched
  fstat,     \* fstat[i][f]: field goroutine f of detail goroutine i:
             \* its status and the value it stored
  wstat,     \* wstat[i]: detail goroutine i of the current batch
  details,   \* the details slice
  result     \* what the call returned

chain == <<hist>>
call == <<shape, pinned, pin, pc, count, bsi, workers, names, ids, fstat,
          wstat, details, result>>
vars == <<chain, call>>

Fields == IF shape.member THEN DetailFields \cup MemberFields ELSE DetailFields
RecordFields == {"id"} \cup Fields

Err == [ok |-> FALSE, items |-> << >>]

(* The proposal list a read sees. *)
View == hist[IF pinned THEN pin ELSE Len(hist)]

(* A getter call on proposal `id`: its field, or the zero value. *)
FieldOf(l, id, f) ==
  IF id \notin 1..Len(l) THEN IF f = "dao" THEN NoDAO ELSE 0
  ELSE IF f = "dao" THEN l[id].dao ELSE l[id].ver

(* The ids of the caller's DAO among the first n proposals of list l. *)
IdsOf(l, n) ==
  SetToSortSeq({id \in 1..n : shape.dao \in {AllDAOs, l[id].dao}}, <)

(* The details record of proposal id as it stands in list l. *)
RecordOf(l, id) ==
  [f \in RecordFields |-> IF f = "id" THEN id ELSE FieldOf(l, id, f)]

(* `if pei > count { pei = count }`: one past a batch's last index. *)
BatchEnd(size, n) == IF bsi + size > n THEN n ELSE bsi + size

TypeOK ==
  /\ hist \in Seq(BoundedSeq(Proposal, MaxProposals)) /\ hist # << >>
  /\ shape \in Shapes /\ pinned \in BOOLEAN /\ pin \in 0..MaxBlocks
  /\ pc \in {"idle", "count", "names", "nwait", "details", "dwait", "done"}
  /\ count \in 0..MaxProposals
  /\ bsi \in Nat
  /\ DOMAIN workers \subseteq 0..count - 1 /\ Range(workers) \subseteq Status
  /\ names \in [Index -> DAOs \cup {NoDAO}]
  /\ ids \in BoundedSeq(Ids, MaxProposals)
  /\ DOMAIN wstat \subseteq 0..Len(ids) - 1 /\ Range(wstat) \subseteq Status
  /\ DOMAIN fstat = DOMAIN wstat
  /\ \A i \in DOMAIN fstat : fstat[i] \in [Fields -> [st : Status, v : Value]]
  /\ \A i \in Index : details[i] = << >> \/ DOMAIN details[i] = RecordFields
  /\ result.ok \in BOOLEAN

Init ==
  \* the chain starts with fewer than MaxProposals, so one can be added
  \* while a call runs
  /\ \E ds \in BoundedSeq(DAOs, MaxProposals - 1) :
       hist = << [k \in DOMAIN ds |-> [dao |-> ds[k], ver |-> 0]] >>
  /\ shape \in Shapes /\ pinned \in BOOLEAN
  /\ pin = 0 /\ pc = "idle" /\ count = 0 /\ bsi = 0
  /\ workers = << >> /\ fstat = << >> /\ wstat = << >>
  /\ names = [i \in Index |-> NoDAO]
  /\ ids = << >>
  /\ details = [i \in Index |-> << >>]
  /\ result = Err

Finish(r) == result' = r /\ pc' = "done"

-----------------------------------------------------------------------------
(* The caller builds opts for the current head and makes its call. *)
Begin ==
  /\ pc = "idle"
  /\ pin' = Len(hist) /\ pc' = "count"
  /\ UNCHANGED <<chain, shape, pinned, count, bsi, workers, names, ids, fstat,
                 wstat, details, result>>

(* GetProposalCount.  GetProposals then fetches proposals 1..count        *)
(* (`pi+1`); GetDAOProposalIDs first reads their DAO names.              *)
ReadCount ==
  /\ pc = "count"
  /\ count' = Len(View)
  /\ bsi' = 0
  /\ IF shape.dao = AllDAOs
       THEN ids' = [k \in 1..Len(View) |-> k] /\ pc' = "details"
       ELSE pc' = "names" /\ UNCHANGED ids
  /\ UNCHANGED <<chain, shape, pinned, pin, workers, names, fstat, wstat,
                 details, result>>

ReadCountFails ==
  /\ pc = "count"
  /\ Finish(Err)
  /\ UNCHANGED <<chain, shape, pinned, pin, count, bsi, workers, names, ids,
                 fstat, wstat, details>>

(* GetDAOProposalIDs: one goroutine per index of the batch. *)
StartNameBatch ==
  /\ pc = "names" /\ bsi < count
  /\ workers' = [i \in bsi..BatchEnd(NamesBatchSize, count) - 1 |-> "run"]
  /\ pc' = "nwait"
  /\ UNCHANGED <<chain, shape, pinned, pin, count, bsi, names, ids, fstat,
                 wstat, details, result>>

(* Mutant: the goroutine asks for proposal pi, forgetting the 1-indexing. *)
NameWorkerZeroBased(i) ==
  /\ pc = "nwait" /\ i \in DOMAIN workers /\ workers[i] = "run"
  /\ workers' = [workers EXCEPT ![i] = "ok"]
  /\ names' = [names EXCEPT ![i] = FieldOf(View, i, "dao")]
  /\ UNCHANGED <<chain, shape, pinned, pin, pc, count, bsi, ids, fstat, wstat,
                 details, result>>

(* GetProposalDAO(pi+1), stored in proposalDaoNames[pi] when err == nil. *)
NameWorker(i) ==
  /\ pc = "nwait" /\ i \in DOMAIN workers /\ workers[i] = "run"
  /\ workers' = [workers EXCEPT ![i] = "ok"]
  /\ names' = [names EXCEPT ![i] = FieldOf(View, i + 1, "dao")]
  /\ UNCHANGED <<chain, shape, pinned, pin, pc, count, bsi, ids, fstat, wstat,
                 details, result>>

NameWorkerFails(i) ==
  /\ pc = "nwait" /\ i \in DOMAIN workers /\ workers[i] = "run"
  /\ workers' = [workers EXCEPT ![i] = "err"]
  /\ UNCHANGED <<chain, shape, pinned, pin, pc, count, bsi, names, ids, fstat,
                 wstat, details, result>>

(* wg.Wait() of a name batch. *)
NamesWait ==
  /\ pc = "nwait" /\ \A i \in DOMAIN workers : workers[i] # "run"
  /\ IF "err" \in Range(workers)
       THEN Finish(Err) /\ UNCHANGED <<bsi, workers>>
       ELSE /\ bsi' = bsi + NamesBatchSize /\ workers' = << >>
            /\ pc' = "names" /\ UNCHANGED result
  /\ UNCHANGED <<chain, shape, pinned, pin, count, names, ids, fstat, wstat,
                 details>>

(* Mutant: the filter appends pi instead of pi+1. *)
FilterIdsZeroBased ==
  /\ pc = "names" /\ bsi >= count
  /\ ids' = SetToSortSeq({i \in 0..count - 1 : names[i] = shape.dao}, <)
  /\ bsi' = 0 /\ pc' = "details"
  /\ UNCHANGED <<chain, shape, pinned, pin, count, workers, names, fstat,
                 wstat, details, result>>

(* The name batches are done: the ids (pi+1) whose name is daoName. *)
FilterIds ==
  /\ pc = "names" /\ bsi >= count
  /\ ids' = SetToSortSeq({i + 1 : i \in {i \in 0..count - 1 :
                                             names[i] = shape.dao}}, <)
  /\ bsi' = 0 /\ pc' = "details"
  /\ UNCHANGED <<chain, shape, pinned, pin, count, workers, names, fstat,
                 wstat, details, result>>

(* Mutant: the batch end not clamped to len(proposalIds). *)
StartDetailBatchNoClamp ==
  /\ pc = "details" /\ bsi < Len(ids)
  /\ LET batch == bsi..bsi + DetailsBatchSize - 1
     IN  /\ wstat' = [i \in batch |-> "run"]
         /\ fstat' = [i \in batch |-> [f \in Fields |-> [st |-> "run", v |-> 0]]]
  /\ pc' = "dwait"
  /\ UNCHANGED <<chain, shape, pinned, pin, count, bsi, workers, names, ids,
                 details, result>>

(* One detail goroutine per index of the batch, each forking one          *)
(* goroutine per field (GetProposalDetails, and the member receipts).    *)
StartDetailBatch ==
  /\ pc = "details" /\ bsi < Len(ids)
  /\ LET batch == bsi..BatchEnd(DetailsBatchSize, Len(ids)) - 1
     IN  /\ wstat' = [i \in batch |-> "run"]
         /\ fstat' = [i \in batch |-> [f \in Fields |-> [st |-> "run", v |-> 0]]]
  /\ pc' = "dwait"
  /\ UNCHANGED <<chain, shape, pinned, pin, count, bsi, workers, names, ids,
                 details, result>>

(* One field getter of proposal ids[i], e.g. GetProposalState. *)
FieldRead(i, f) ==
  /\ pc = "dwait" /\ i \in DOMAIN fstat /\ f \in Fields
  /\ fstat[i][f].st = "run"
  /\ fstat' = [fstat EXCEPT ![i][f] =
                 [st |-> "ok", v |-> FieldOf(View, ids[i + 1], f)]]
  /\ UNCHANGED <<chain, shape, pinned, pin, pc, count, bsi, workers, names,
                 ids, wstat, details, result>>

FieldReadFails(i, f) ==
  /\ pc = "dwait" /\ i \in DOMAIN fstat /\ f \in Fields
  /\ fstat[i][f].st = "run"
  /\ fstat' = [fstat EXCEPT ![i][f].st = "err"]
  /\ UNCHANGED <<chain, shape, pinned, pin, pc, count, bsi, workers, names,
                 ids, wstat, details, result>>

(* The detail goroutine's own wg.Wait(): with no error it stores the     *)
(* record in details[pi]; either way it returns to the batch.            *)
DetailJoin(i) ==
  /\ pc = "dwait" /\ i \in DOMAIN wstat /\ wstat[i] = "run"
  /\ \A f \in Fields : fstat[i][f].st # "run"
  /\ IF \E f \in Fields : fstat[i][f].st = "err"
       THEN wstat' = [wstat EXCEPT ![i] = "err"] /\ UNCHANGED details
       ELSE /\ wstat' = [wstat EXCEPT ![i] = "ok"]
            /\ details' = [details EXCEPT ![i] =
                 [f \in RecordFields |-> IF f = "id" THEN ids[i + 1]
                                                     ELSE fstat[i][f].v]]
  /\ UNCHANGED <<chain, shape, pinned, pin, pc, count, bsi, workers, names,
                 ids, fstat, result>>

(* Mutant: Wait returns only once every goroutine has succeeded. *)
DetailsWaitOnlySuccess ==
  /\ pc = "dwait" /\ \A i \in DOMAIN wstat : wstat[i] = "ok"
  /\ bsi' = bsi + DetailsBatchSize
  /\ fstat' = << >> /\ wstat' = << >>
  /\ pc' = "details"
  /\ UNCHANGED <<chain, shape, pinned, pin, count, workers, names, ids,
                 details, result>>

(* wg.Wait() of a detail batch; after the last batch, return details. *)
DetailsWait ==
  /\ pc = "dwait" /\ \A i \in DOMAIN wstat : wstat[i] # "run"
  /\ IF "err" \in Range(wstat)
       THEN Finish(Err) /\ UNCHANGED <<bsi, fstat, wstat>>
       ELSE /\ bsi' = bsi + DetailsBatchSize
            /\ fstat' = << >> /\ wstat' = << >>
            /\ pc' = "details" /\ UNCHANGED result
  /\ UNCHANGED <<chain, shape, pinned, pin, count, workers, names, ids,
                 details>>

EndDetails ==
  /\ pc = "details" /\ bsi >= Len(ids)
  /\ Finish([ok |-> TRUE, items |-> [k \in 1..Len(ids) |-> details[k - 1]]])
  /\ UNCHANGED <<chain, shape, pinned, pin, count, bsi, workers, names, ids,
                 fstat, wstat, details>>

-----------------------------------------------------------------------------
(* The chain: a proposal is submitted to a DAO, or one changes (a vote,  *)
(* a cancellation, an execution).                                         *)
Propose(d) ==
  /\ Len(hist) < MaxBlocks /\ Len(Last(hist)) < MaxProposals
  /\ hist' = Append(hist, Append(Last(hist), [dao |-> d, ver |-> 0]))
  /\ UNCHANGED call

Change(id) ==
  /\ Len(hist) < MaxBlocks
  /\ id \in 1..Len(Last(hist)) /\ Last(hist)[id].ver < MaxVersion
  /\ hist' = Append(hist, [Last(hist) EXCEPT ![id].ver = @ + 1])
  /\ UNCHANGED call

Finished == pc = "done" /\ UNCHANGED vars

Caller ==
  Begin \/ ReadCount \/ StartNameBatch \/ NamesWait \/ FilterIds
  \/ StartDetailBatch \/ DetailsWait \/ EndDetails

Next ==
  \/ Caller \/ ReadCountFails
  \/ \E i \in Index :
       \/ NameWorker(i) \/ NameWorkerFails(i) \/ DetailJoin(i)
       \/ \E f \in DetailFields \cup MemberFields :
            FieldRead(i, f) \/ FieldReadFails(i, f)
  \/ \E d \in DAOs : Propose(d)
  \/ \E id \in Ids : Change(id)
  \/ Finished

(* The caller and every goroutine keep running and reads eventually      *)
(* succeed; failures and chain steps are never forced.                   *)
Spec ==
  /\ Init /\ [][Next]_vars /\ WF_vars(Caller)
  /\ \A i \in Index :
       /\ WF_vars(NameWorker(i)) /\ WF_vars(DetailJoin(i))
       /\ \A f \in DetailFields \cup MemberFields : WF_vars(FieldRead(i, f))

-----------------------------------------------------------------------------
(* Properties *)

(* With opts pinned, a successful call returns the caller's proposals as *)
(* they stood at the pinned block: exactly the ids of its DAO (all ids    *)
(* for GetProposals), in id order, each record holding every field of    *)
(* that proposal at that block.  This ties together the count, the       *)
(* 1-indexed name reads, the filter, both batch loops and the per-record *)
(* and per-batch error handling.                                         *)
PinnedSnapshot ==
  pinned /\ result.ok =>
    LET l == hist[pin]
        want == IdsOf(l, Len(l))
    IN  result.items = [k \in 1..Len(want) |-> RecordOf(l, want[k])]

(* Whatever opts is, a successful call lists exactly the proposals of    *)
(* its DAO among the first `count` ones, each once and in id order, and  *)
(* each record carries its own id and DAO.  Proposals are never removed  *)
(* and their DAO never changes, so reads at different blocks cannot mix  *)
(* up which proposals are listed, only their other fields.               *)
ListMatchesCount ==
  result.ok =>
    LET want == IdsOf(Last(hist), count)
    IN  /\ Len(result.items) = Len(want)
        /\ \A k \in 1..Len(want) :
             /\ result.items[k]["id"] = want[k]
             /\ result.items[k]["dao"] = Last(hist)[want[k]].dao

(* Every call returns, with the proposals or an error. *)
CallReturns == <>(pc = "done")
====
