------------------------ MODULE ParticipationEstimator ------------------------
(***************************************************************************)
(* CalculateTrustedNodePricesParticipation (node/node.go) with the helpers *)
(* it calls: getLatestMemberCountChangedBlock and GetPricesSubmissions,  *)
(* and GetTrustedNodeLatestPricesParticipation with                      *)
(* GetLatestPricesSubmissions; which of the two the goroutine runs is    *)
(* chosen in Init.  The balances variants are the same code over another *)
(* event.                                                                 *)
(*                                                                         *)
(* One goroutine runs the estimator while the chain advances: each new    *)
(* block carries at most one event, a member joining or leaving (logged  *)
(* as ActionJoined / ActionLeave / ActionKick), a challenge decided       *)
(* without a kick (ActionChallengeDecided, success false), or a member's *)
(* PricesSubmitted for a recent block.                                    *)
(*                                                                         *)
(* Every read the code makes with opts == nil sees the head at that       *)
(* moment.  GetLogs is taken as one read returning exactly the matching   *)
(* logs of [fromBlock, head] (LogRetriever checks that, and the hang of   *)
(* the shared intervalSize), or an error.  uint64 arithmetic is kept     *)
(* modulo 2^Width; the chi-square and gamma function are floating-point  *)
(* data no property below depends on and are left out.                   *)
(***************************************************************************)
EXTENDS Naturals, FiniteSets

CONSTANTS
    Nodes,        \* trusted node addresses
    Freq,         \* updatePricesFrequency (network.submit.prices.frequency)
    Lookback,     \* the 50 intervals of minBlock
    Width,        \* bits of uint64 (64 in the code)
    InitialHead,  \* the head when the chain is first seen
    MaxBlock      \* bound on the chain's head

ASSUME /\ Freq \in Nat \ {0} /\ Lookback \in Nat /\ Width \in Nat \ {0}
       /\ InitialHead \in Nat /\ MaxBlock \in Nat /\ InitialHead <= MaxBlock
       /\ MaxBlock < 2^(Width - 1)

Word == 2^Width
\* uint64 arithmetic: the result reduced modulo 2^64.
U(x) == x % Word
\* big.NewInt(int64(x)) for a uint64 x: the two's-complement reading.
Int64(x) == IF x < Word \div 2 THEN x ELSE x - Word

Blocks == 0..MaxBlock
Change == [at : Blocks, success : BOOLEAN]   \* a membership-change log
Sub == [node : Nodes, blk : Blocks, at : Blocks]  \* a PricesSubmitted log

VARIABLES
    fn,        \* the function called: "estimate" or "latest"
    head,      \* the chain's latest block
    members,   \* the trusted node set now
    changes,   \* membership-change logs on chain
    subs,      \* PricesSubmitted logs on chain
    pc,        \* "idle", "latest", "count", "members", "loop", "done",
               \* "err", "panic"
    cur,       \* currentBlockNumber
    minBlock,  \* the lower bound of the member-change search
    latest,    \* latestMemberCountChangedBlock
    count,     \* memberCount
    start,     \* startBlock
    passed,    \* intervalsPassed
    listed,    \* GetMembers' answer
    todo,      \* members the loop has still to visit
    actual,    \* submissions[member]: len(*blocks)
    table,     \* participationTable[member]: the indexes set to true
    ptable     \* the latest participation map: address -> submitted

chain == <<head, members, changes, subs>>
est == <<fn, pc, cur, minBlock, latest, count, start, passed, listed, todo,
         actual, table, ptable>>
vars == <<chain, est>>

TypeOK ==
    /\ head \in Blocks /\ members \subseteq Nodes
    /\ changes \subseteq Change /\ subs \subseteq Sub
    /\ fn \in {"estimate", "latest"}
    /\ pc \in {"idle", "latest", "count", "members", "loop", "lmembers",
               "lsubs", "done", "err", "panic"}
    /\ {cur, minBlock, latest, start, passed} \subseteq 0..Word - 1
    /\ count \in Nat
    /\ listed \subseteq Nodes /\ todo \subseteq listed
    /\ fn = "estimate" => /\ actual \in [listed -> Nat]
                         /\ table \in [listed -> SUBSET (0..Word - 1)]
    /\ DOMAIN ptable \subseteq Nodes /\ ptable \in [DOMAIN ptable -> BOOLEAN]

Init ==
    /\ head = InitialHead /\ members = Nodes
    /\ changes = {} /\ subs = {}
    /\ fn \in {"estimate", "latest"}
    /\ pc = "idle"
    /\ cur = 0 /\ minBlock = 0 /\ latest = 0 /\ count = 0 /\ start = 0
    /\ passed = 0 /\ listed = {} /\ todo = {}
    /\ actual = << >> /\ table = << >> /\ ptable = << >>

Fail == pc' = "err" /\ UNCHANGED <<fn, cur, minBlock, latest, count, start,
                                   passed, listed, todo, actual, table,
                                   ptable>>

-----------------------------------------------------------------------------
(* getLatestMemberCountChangedBlock as a function of the logs it reads,   *)
(* newest first: a failed challenge is skipped, any other change returns *)
(* its block; with none, fromBlock is returned.                           *)
(* Mutant: the logs scanned oldest first. *)
RECURSIVE OldestChange(_, _)
OldestChange(logs, fromBlock) ==
    IF logs = {} THEN fromBlock
    ELSE LET l == CHOOSE x \in logs : \A y \in logs : x.at <= y.at
         IN  IF l.success THEN l.at ELSE OldestChange(logs \ {l}, fromBlock)

RECURSIVE NewestChange(_, _)
NewestChange(logs, fromBlock) ==
    IF logs = {} THEN fromBlock
    ELSE LET l == CHOOSE x \in logs : \A y \in logs : y.at <= x.at
         IN  IF l.success THEN l.at ELSE NewestChange(logs \ {l}, fromBlock)

(* `(x/freq + 1) * freq` in uint64: the first interval boundary after x. *)
NextBoundary(x) == U(U(x \div Freq + 1) * Freq)

(* intervalsPassed for a head and a start block. *)
Intervals(c, s) == IF c > s THEN U(c - s) \div Freq + 1 ELSE 0

(* GetPricesSubmissions(node, fromBlock): the decoded `block` of every    *)
(* PricesSubmitted log of the node from fromBlock to the head.           *)
PricesSubmissions(node, fromBlock) ==
    {s.blk : s \in {s \in subs : s.node = node /\ Int64(fromBlock) <= s.at}}

(* Mutant: the index taken as a signed difference. *)
IndexSigned(b) == b \div Freq - start \div Freq

(* The participationTable index of a submission for block b. *)
Index(b) == U(b \div Freq - start \div Freq)

-----------------------------------------------------------------------------
(* The estimator. *)

\* GetSubmitPricesFrequency, HeaderByNumber(nil) and the minBlock bound.
ReadHead ==
    /\ pc = "idle" /\ fn = "estimate"
    /\ cur' = head
    /\ minBlock' = U(U(head \div Freq - Lookback) * Freq)
    /\ pc' = "latest"
    /\ UNCHANGED <<chain, fn, latest, count, start, passed, listed, todo,
                   actual, table, ptable>>

ReadHeadFails ==
    /\ pc = "idle"
    /\ Fail
    /\ UNCHANGED chain

\* getLatestMemberCountChangedBlock(minBlock): GetLogs from
\* big.NewInt(int64(minBlock)) to the head, scanned newest first.
LatestChange ==
    /\ pc = "latest"
    /\ Int64(minBlock) >= 0
    /\ latest' = NewestChange({c \in changes : minBlock <= c.at}, minBlock)
    /\ pc' = "count"
    /\ UNCHANGED <<chain, fn, cur, minBlock, count, start, passed, listed,
                   todo, actual, table, ptable>>

\* The getter or GetLogs fails; a negative fromBlock is refused by the node.
LatestChangeFails ==
    /\ pc = "latest"
    /\ Fail
    /\ UNCHANGED chain

\* GetMemberCount(nil), then startBlock and intervalsPassed.
ReadCount ==
    /\ pc = "count"
    /\ count' = Cardinality(members)
    /\ start' = NextBoundary(latest)
    /\ passed' = Intervals(cur, NextBoundary(latest))
    /\ pc' = "members"
    /\ UNCHANGED <<chain, fn, cur, minBlock, latest, listed, todo, actual, table,
                   ptable>>

ReadCountFails ==
    /\ pc = "count"
    /\ Fail
    /\ UNCHANGED chain

\* GetMembers(nil), taken here as one read of the member set.
ReadMembers ==
    /\ pc = "members"
    /\ listed' = members /\ todo' = members
    /\ actual' = [m \in members |-> 0]
    /\ table' = [m \in members |-> {}]
    /\ pc' = "loop"
    /\ UNCHANGED <<chain, fn, cur, minBlock, latest, count, start, passed,
                   ptable>>

ReadMembersFails ==
    /\ pc = "members"
    /\ Fail
    /\ UNCHANGED chain

\* Mutant: out-of-step submissions not ignored.
VisitMemberNoStepFilter ==
    /\ pc = "loop" /\ todo # {}
    /\ LET m == CHOOSE x \in todo : TRUE
           blks == IF passed > 0 THEN PricesSubmissions(m, start) ELSE {}
           idx == {Index(b) : b \in blks}
       IN  /\ todo' = todo \ {m}
           /\ actual' = [actual EXCEPT ![m] = Cardinality(blks)]
           /\ IF \A i \in idx : i < passed
              THEN /\ table' = [table EXCEPT ![m] = idx]
                   /\ UNCHANGED pc
              ELSE /\ pc' = "panic"
                   /\ UNCHANGED table
    /\ UNCHANGED <<chain, fn, cur, minBlock, latest, count, start, passed,
                   listed, ptable>>

\* One iteration of `for _, member := range members`: with intervals
\* passed, GetPricesSubmissions(member, startBlock) and the table update;
\* an index past the table is Go's index-out-of-range panic.
VisitMember ==
    /\ pc = "loop" /\ todo # {}
    /\ LET m == CHOOSE x \in todo : TRUE
           blks == IF passed > 0 THEN PricesSubmissions(m, start) ELSE {}
           idx == {Index(b) : b \in {b \in blks : b % Freq = 0}}
       IN  /\ todo' = todo \ {m}
           /\ actual' = [actual EXCEPT ![m] = Cardinality(blks)]
           /\ IF \A i \in idx : i < passed
              THEN /\ table' = [table EXCEPT ![m] = idx]
                   /\ UNCHANGED pc
              ELSE /\ pc' = "panic"
                   /\ UNCHANGED table
    /\ UNCHANGED <<chain, fn, cur, minBlock, latest, count, start, passed,
                   listed, ptable>>

\* The getter or GetLogs of GetPricesSubmissions fails.
VisitMemberFails ==
    /\ pc = "loop" /\ todo # {} /\ passed > 0
    /\ Fail
    /\ UNCHANGED chain

\* The loop is over; the participation record is returned.
Return ==
    /\ pc = "loop" /\ todo = {}
    /\ pc' = "done"
    /\ UNCHANGED <<chain, fn, cur, minBlock, latest, count, start, passed,
                   listed, todo, actual, table, ptable>>

-----------------------------------------------------------------------------
(* GetTrustedNodeLatestPricesParticipation.  Its reads fail on the paths *)
(* the estimator's do (ReadHeadFails covers the frequency and header).   *)

\* GetSubmitPricesFrequency and HeaderByNumber(nil).
LatestReadHead ==
    /\ pc = "idle" /\ fn = "latest"
    /\ cur' = head
    /\ pc' = "lmembers"
    /\ UNCHANGED <<chain, fn, minBlock, latest, count, start, passed, listed,
                   todo, actual, table, ptable>>

\* trustednode.GetMembers(ggp, nil), taken as one read of the member set.
LatestReadMembers ==
    /\ pc = "lmembers"
    /\ listed' = members
    /\ pc' = "lsubs"
    /\ UNCHANGED <<chain, fn, cur, minBlock, latest, count, start, passed,
                   todo, actual, table, ptable>>

LatestReadMembersFails ==
    /\ pc = "lmembers"
    /\ Fail
    /\ UNCHANGED chain

(* GetLatestPricesSubmissions(fromBlock): the `from` topic of every       *)
(* PricesSubmitted log from fromBlock to the head.                        *)
LatestSubmitters(fromBlock) == {s.node : s \in {s \in subs : fromBlock <= s.at}}

(* The participation table: every listed member false, then every        *)
(* submitter, listed or not, true.                                        *)
ParticipationMap(ms, subm) == [x \in ms \cup subm |-> x \in subm]

\* Mutant: fromBlock taken as the head itself instead of rounded down.
LatestReadSubmissionsFromHead ==
    /\ pc = "lsubs"
    /\ ptable' = ParticipationMap(listed, LatestSubmitters(cur))
    /\ pc' = "done"
    /\ UNCHANGED <<chain, fn, cur, minBlock, latest, count, start, passed,
                   listed, todo, actual, table>>

\* fromBlock = currentBlockNumber / freq * freq, the submissions since
\* then, and the table built from the member list and the submitters.
LatestReadSubmissions ==
    /\ pc = "lsubs"
    /\ ptable' = ParticipationMap(listed, LatestSubmitters(U((cur \div Freq) * Freq)))
    /\ pc' = "done"
    /\ UNCHANGED <<chain, fn, cur, minBlock, latest, count, start, passed,
                   listed, todo, actual, table>>

\* The getter or GetLogs of GetLatestPricesSubmissions fails.
LatestReadSubmissionsFails ==
    /\ pc = "lsubs"
    /\ Fail
    /\ UNCHANGED chain

-----------------------------------------------------------------------------
(* The chain: one block, carrying at most one event. *)

NewBlock(c, s, m) ==
    /\ head < MaxBlock
    /\ head' = head + 1 /\ changes' = c /\ subs' = s /\ members' = m
    /\ UNCHANGED est

Mine == NewBlock(changes, subs, members)

Join(x) ==
    /\ x \notin members
    /\ NewBlock(changes \cup {[at |-> head + 1, success |-> TRUE]}, subs,
                members \cup {x})

\* Leave, kick, or a challenge decided against the member.
Leave(x) ==
    /\ x \in members
    /\ NewBlock(changes \cup {[at |-> head + 1, success |-> TRUE]}, subs,
                members \ {x})

ChallengeRefuted ==
    NewBlock(changes \cup {[at |-> head + 1, success |-> FALSE]}, subs, members)

\* A member submits prices for a past block, once per block.
Submit(x, b) ==
    /\ x \in members /\ b < head + 1
    /\ ~\E s \in subs : s.node = x /\ s.blk = b
    /\ NewBlock(changes, subs \cup {[node |-> x, blk |-> b, at |-> head + 1]},
                members)

Done == pc \in {"done", "err", "panic"} /\ UNCHANGED vars

Next ==
    \/ ReadHead \/ ReadHeadFails \/ LatestChange \/ LatestChangeFails
    \/ ReadCount \/ ReadCountFails \/ ReadMembers \/ ReadMembersFails
    \/ VisitMember \/ VisitMemberFails \/ Return
    \/ LatestReadHead \/ LatestReadMembers \/ LatestReadMembersFails
    \/ LatestReadSubmissions \/ LatestReadSubmissionsFails
    \/ Mine \/ ChallengeRefuted
    \/ \E x \in Nodes : Join(x) \/ Leave(x)
    \/ \E x \in Nodes, b \in {head - 1, head} \cap Nat : Submit(x, b)
    \/ Done

Spec == Init /\ [][Next]_vars

-----------------------------------------------------------------------------
(* Properties *)

(* The window the estimator counts starts after the last change of the    *)
(* member set: no join, leave or kick within the lookback lies between   *)
(* startBlock and currentBlockNumber.  This is about the newest-first     *)
(* scan of getLatestMemberCountChangedBlock (skipping refuted challenges) *)
(* and the boundary arithmetic of startBlock.                             *)
WindowAfterLastChange ==
    pc = "done" /\ fn = "estimate" =>
        \A c \in changes :
            c.success /\ minBlock <= c.at => ~(start <= c.at /\ c.at <= cur)

(* The participation table records exactly the on-step submissions: a    *)
(* member's entry k is set only if it submitted prices for the k-th       *)
(* boundary after startBlock, and every on-step submission for a boundary *)
(* from startBlock on that was on chain at currentBlockNumber is set.     *)
(* This is about GetLogs' window, the `block % freq == 0` filter and the  *)
(* uint64 index arithmetic together.                                      *)
TableExact ==
    pc = "done" /\ fn = "estimate" =>
        \A m \in listed :
            /\ \A k \in table[m] :
                   \E s \in subs : s.node = m /\ s.blk = start + k * Freq
            /\ \A s \in subs :
                   (s.node = m /\ start <= s.blk /\ s.at <= cur
                    /\ s.blk % Freq = 0)
                   => (s.blk - start) \div Freq \in table[m]

(* The first block of the price interval that holds block c. *)
IntervalStart(c) == CHOOSE b \in 0..c : b % Freq = 0 /\ c - b < Freq

(* The latest participation map answers for the interval of the head it  *)
(* read: every listed member has an entry; a member with a submission    *)
(* logged in that interval up to currentBlockNumber is marked true; and  *)
(* an address is marked true only for a submission logged in or after    *)
(* that interval.  This is about the fromBlock rounding, GetLogs' open   *)
(* upper end and the order in which the table is filled.                 *)
LatestTableCurrent ==
    pc = "done" /\ fn = "latest" =>
        /\ listed \subseteq DOMAIN ptable
        /\ \A s \in subs :
               s.node \in listed /\ IntervalStart(cur) <= s.at /\ s.at <= cur
               => ptable[s.node]
        /\ \A x \in DOMAIN ptable :
               ptable[x] => \E s \in subs : s.node = x /\ IntervalStart(cur) <= s.at

(* The estimator never panics: every index it writes into a member's     *)
(* participationTable row (make([]bool, intervalsPassed)) is in range.    *)
NoPanic == pc # "panic"
=============================================================================
