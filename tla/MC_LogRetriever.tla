-------------------------- MODULE MC_LogRetriever --------------------------
(* Caller shapes of GetLogs for TLC.                                       *)
EXTENDS DepositRetrieval

CONSTANTS p1, p2, p3

(* FilterContractLogs: the ContractUpgraded history from the deploy block *)
(* to the head, then the caller's query (here FromBlock and ToBlock nil). *)
FilterContractLogsQueries ==
    << [from |-> Nil, to |-> Nil], [from |-> Nil, to |-> Nil] >>

(* CalculateTrustedNodePricesParticipation with two members:             *)
(* getLatestMemberCountChangedBlock from minBlock, then one               *)
(* GetPricesSubmissions from startBlock per member.                       *)
ParticipationQueries ==
    << [from |-> 0, to |-> Nil], [from |-> 2, to |-> Nil], [from |-> 2, to |-> Nil] >>

(* GetDeposits(ggp, pubkeys, startBlock = 2, intervalSize, nil).         *)
DepositsQueries == << [from |-> 2, to |-> Nil] >>

BothCallers == {FilterContractLogsQueries, ParticipationQueries, DepositsQueries}
OnlyFilterContractLogs == {FilterContractLogsQueries}
(* DepositEvent logs per block, in log order: two deposits for p1 in one  *)
(* transaction of block 2, a deposit for p3 (not wanted) before one for   *)
(* p1 in block 3, and one wanted deposit in every other block.            *)
D(b, t, k, n) == [block |-> b, tx |-> t, pk |-> k, n |-> n]
ChainDeposits ==
    [b \in Blocks |->
        CASE b = 2 -> << D(2, 0, p1, 1), D(2, 0, p1, 2) >>
          [] b = 3 -> << D(3, 0, p3, 1), D(3, 1, p1, 1) >>
          [] OTHER -> << D(b, 0, IF b % 2 = 0 THEN p1 ELSE p2, 1) >>]
=============================================================================
