---------------------------- MODULE MC_Registry ----------------------------
(* Instances of Registry for TLC: two goroutines, one or two names.       *)
EXTENDS Registry

CONSTANTS p1, p2, n1, n2, L1, L2

Getter(n, l) == [op |-> "getter", name |-> n, lock |-> l]
Direct(o, n) == [op |-> o, name |-> n]

(* Both goroutines reach n1 through its one getter. *)
CallsGetters == [p \in {p1, p2} |-> {Getter(n1, L1)}]

(* p1 makes the unguarded GetContract of FilterContractLogs; p2 the      *)
(* direct GetAddress of FilterContractLogs and GetABI of GenerateAddress. *)
CallsDirect ==
  (p1 :> {Direct("GetContract", n1)}) @@
  (p2 :> {Direct("GetAddress", n1), Direct("GetABI", n1)})

(* gogoNetworkPrices: node/node.go and network/prices.go each guard it    *)
(* with their own package mutex.                                         *)
CallsTwoMutexes == (p1 :> {Getter(n1, L1)}) @@ (p2 :> {Getter(n1, L2)})

(* FilterContractLogs reads the current address with ggp.GetAddress while *)
(* another goroutine resolves the same name through its getter.          *)
CallsGetterAndAddress ==
  (p1 :> {Getter(n1, L1)}) @@ (p2 :> {Direct("GetAddress", n1)})

(* Workloads of one program each. *)
GettersProgram == {CallsGetters}
TwoMutexesProgram == {CallsTwoMutexes}
GetterAndAddressProgram == {CallsGetterAndAddress}

(* The programs of the passing run: every goroutine goes through the one *)
(* getter of n1, or the direct calls of CallsDirect.                      *)
WorkloadsSingleGuard == {CallsGetters, CallsDirect}

=============================================================================
