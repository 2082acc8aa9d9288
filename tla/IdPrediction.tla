---------------------------- MODULE IdPrediction ----------------------------
(***************************************************************************)
(* The id-returning transactions: auction.CreateLot (auction/auction.go)  *)
(* and trustednode.SubmitProposal (dao/trustednode/proposals.go), which   *)
(* every Propose* of the trusted-node DAO ends in.  Both read the         *)
(* collection's count with opts nil, send the creating transaction, and   *)
(* return an id computed from the count they read: the lot index         *)
(* lotCount (lots are indexed 0..count-1, as GetLots reads them) or the   *)
(* proposal id proposalCount + 1 (ids are 1..count, as GetProposals reads *)
(* them).                                                                  *)
(*                                                                         *)
(* Sending returns the transaction hash; the transaction is mined later   *)
(* (the transport's sendTransaction, as the spec describes it).  The      *)
(* chain mines pending transactions in any order across senders and in   *)
(* call order for one sender (its nonces), and other accounts create     *)
(* entries of the same collection.  Which function the callers use is    *)
(* chosen in Init.                                                        *)
(***************************************************************************)
EXTENDS Naturals, FiniteSets

CONSTANTS
    Callers,    \* goroutines or processes of this client calling the function
    MaxCalls,   \* calls each caller makes, one after another
    MaxOther    \* creations by other accounts

ASSUME MaxCalls \in Nat /\ MaxOther \in Nat

Tx == [caller : Callers, call : 0..MaxCalls - 1]
MaxCount == Cardinality(Callers) * MaxCalls + MaxOther

VARIABLES
    fn,        \* "lot" (CreateLot) or "proposal" (SubmitProposal)
    count,     \* the collection's count on chain (getLotCount / getTotal)
    pool,      \* sent transactions not yet mined
    others,    \* creations by other accounts so far
    pc,        \* pc[c]: "idle" between calls, "send" after the count read
    seen,      \* seen[c]: the count the current call read
    calls,     \* calls[c]: calls caller c has finished
    returned,  \* [tx, id]: the id each successful call returned
    created    \* [tx, id]: the id each mined transaction created

vars == <<fn, count, pool, others, pc, seen, calls, returned, created>>

TypeOK ==
    /\ fn \in {"lot", "proposal"}
    /\ count \in 0..MaxCount /\ others \in 0..MaxOther
    /\ pool \subseteq Tx
    /\ pc \in [Callers -> {"idle", "send"}]
    /\ seen \in [Callers -> 0..MaxCount]
    /\ calls \in [Callers -> 0..MaxCalls]
    /\ returned \subseteq [tx : Tx, id : 0..MaxCount + 1]
    /\ created \subseteq [tx : Tx, id : 0..MaxCount + 1]

Init ==
    /\ fn \in {"lot", "proposal"}
    /\ count = 0 /\ pool = {} /\ others = 0
    /\ pc = [c \in Callers |-> "idle"]
    /\ seen = [c \in Callers |-> 0]
    /\ calls = [c \in Callers |-> 0]
    /\ returned = {} /\ created = {}

-----------------------------------------------------------------------------
(* The id a call returns for the count it read: `return lotCount, ...`   *)
(* and `return proposalCount + 1, ...`.                                   *)
CreateLotId(n) == n
SubmitProposalId(n) == n + 1
ReturnedId(n) == IF fn = "lot" THEN CreateLotId(n) ELSE SubmitProposalId(n)

(* The id the contract gives the entry it creates: the next index or id. *)
AssignedId(n) == IF fn = "lot" THEN n ELSE n + 1

\* A call ends with an error: the caller goes on to its next call.
EndCall(c) ==
    /\ pc' = [pc EXCEPT ![c] = "idle"]
    /\ calls' = [calls EXCEPT ![c] = @ + 1]

\* The getter, then GetLotCount(ggp, nil) or dao.GetProposalCount(ggp, nil):
\* the count of the latest block, where only mined transactions count.
ReadCount(c) ==
    /\ pc[c] = "idle" /\ calls[c] < MaxCalls
    /\ seen' = [seen EXCEPT ![c] = count]
    /\ pc' = [pc EXCEPT ![c] = "send"]
    /\ UNCHANGED <<fn, count, pool, others, calls, returned, created>>

ReadCountFails(c) ==
    /\ pc[c] = "idle" /\ calls[c] < MaxCalls
    /\ EndCall(c)
    /\ UNCHANGED <<fn, count, pool, others, seen, returned, created>>

\* Transact(opts, "createLot") or Transact(opts, "propose", ...): the
\* transaction is sent, and the call returns its hash with the id.
Transact(c) ==
    /\ pc[c] = "send"
    /\ LET t == [caller |-> c, call |-> calls[c]]
       IN  /\ pool' = pool \cup {t}
           /\ returned' = returned \cup {[tx |-> t, id |-> ReturnedId(seen[c])]}
    /\ EndCall(c)
    /\ UNCHANGED <<fn, count, others, seen, created>>

TransactFails(c) ==
    /\ pc[c] = "send"
    /\ EndCall(c)
    /\ UNCHANGED <<fn, count, pool, others, seen, returned, created>>

-----------------------------------------------------------------------------
(* The chain. *)

\* A pending transaction is mined; a sender's transactions in nonce order.
Mine(t) ==
    /\ t \in pool
    /\ ~\E u \in pool : u.caller = t.caller /\ u.call < t.call
    /\ pool' = pool \ {t}
    /\ created' = created \cup {[tx |-> t, id |-> AssignedId(count)]}
    /\ count' = count + 1
    /\ UNCHANGED <<fn, others, pc, seen, calls, returned>>

\* Another account's createLot or propose is mined.
OtherCreate ==
    /\ others < MaxOther
    /\ others' = others + 1 /\ count' = count + 1
    /\ UNCHANGED <<fn, pool, pc, seen, calls, returned, created>>

\* Every call has returned and every transaction is mined.
Finished ==
    /\ \A c \in Callers : calls[c] = MaxCalls
    /\ pool = {}
    /\ UNCHANGED vars

Next ==
    \/ \E c \in Callers :
          ReadCount(c) \/ ReadCountFails(c) \/ Transact(c) \/ TransactFails(c)
    \/ \E t \in pool : Mine(t)
    \/ OtherCreate
    \/ Finished

Spec == Init /\ [][Next]_vars

-----------------------------------------------------------------------------
(* Properties *)

(* The id CreateLot or SubmitProposal returns is the id of the lot or    *)
(* proposal its transaction created: the tests act on that id            *)
(* (PlaceBid on lot1Index, votes on proposalId).  It is about the count  *)
(* read of the latest mined block, taken before the transaction is sent  *)
(* and mined.                                                             *)
IdsMatch ==
    \A r \in returned, m \in created : r.tx = m.tx => r.id = m.id
=============================================================================
