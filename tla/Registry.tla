------------------------------ MODULE Registry ------------------------------
(***************************************************************************)
(* The contract manager of gogopool/gogopool.go: three TTL caches keyed by *)
(* contract name (addresses, ABIs, bound contracts), each behind its own  *)
(* RWMutex, filled from the on-chain storage contract.  GetContract forks *)
(* GetAddress and GetABI as two goroutines of an errgroup and joins them. *)
(* Domain packages reach GetContract through getters that hold a package- *)
(* level sync.Mutex (e.g. getGoGoNodeManager in node/node.go).            *)
(*                                                                         *)
(* Every goroutine is a process with a program counter.  The address and  *)
(* ABI lookups of a call run in two child slots child[p]["addr"] and      *)
(* child[p]["abi"]; a direct GetAddress/GetABI uses one slot and waits.   *)
(* The chain is the environment: the Unix clock advances and governance   *)
(* upgrades a name, changing its address and ABI in one transaction.      *)
(***************************************************************************)
EXTENDS Integers, FiniteSets, Functions, TLC

CONSTANTS
  Procs,       \* goroutines calling the contract manager
  Names,       \* logical contract names
  Locks,       \* package-level mutexes of the domain getters
  Workloads,   \* the assignments of calls to goroutines a program may make
  NoHolder,    \* model value: a mutex nobody holds
  TTL,         \* CacheTTL, 300 seconds in the code
  MaxTime,     \* bound on the Unix clock
  MaxVersion   \* bound on upgrades of one name

Kinds == {"addr", "abi"}          \* "addr": GetAddress, "abi": GetABI
Version == 1..MaxVersion          \* deployment of a name: its address and ABI
Time == 0..MaxTime

(* A call is a getter (lock, then GetContract) or a direct call of the    *)
(* manager, as in FilterContractLogs or GenerateAddress.                  *)
CallShape ==
  [op : {"getter"}, name : Names, lock : Locks] \cup
  [op : {"GetContract", "GetAddress", "GetABI"}, name : Names]

ASSUME \A w \in Workloads : \A p \in Procs : w[p] \subseteq CallShape /\ w[p] # {}
ASSUME TTL \in Nat /\ MaxTime \in Nat /\ MaxVersion \in Nat \ {0}

VARIABLES
  clock,       \* time.Now().Unix()
  storage,     \* storage[n]: deployment of n recorded in GoGoStorage
  cached,      \* cached["addr"] is ggp.addresses, cached["abi"] is ggp.abis
  contracts,   \* ggp.contracts
  holder,      \* holder[l]: goroutine holding getter mutex l
  pc,          \* program counter of each calling goroutine
  call,        \* the call each goroutine is making
  child,       \* child[p][k]: program counter of the GetAddress/GetABI slot
  res,         \* res[p][k]: value and cache time the slot obtained
  installed,   \* history: installed[k][n], newest deployment ever cached
  Calls        \* Calls[p]: the calls goroutine p makes (fixed by the program)

vars == <<clock, storage, cached, contracts, holder, pc, call, child, res,
          installed, Calls>>

Entry == [val : Version, time : Time]
(* A bound contract; addrAt and abiAt are history fields: the cache time  *)
(* of the address and ABI entries the contract was built from.           *)
ContractEntry == [addr : Version, abi : Version, time : Time,
                  addrAt : Time, abiAt : Time]
PartialFns(S) == UNION {[D -> S] : D \in SUBSET Names}

MainPc == {"idle", "lock", "check", "delete", "wait", "direct"}
ChildPc == {"idle", "check", "delete", "fetch", "set", "done", "err"}
NoRes == [val |-> 1, time |-> 0]

TypeOK ==
  /\ clock \in Time
  /\ storage \in [Names -> Version]
  /\ cached \in [Kinds -> PartialFns(Entry)]
  /\ contracts \in PartialFns(ContractEntry)
  /\ holder \in [Locks -> Procs \cup {NoHolder}]
  /\ pc \in [Procs -> MainPc]
  /\ call \in [Procs -> CallShape]
  /\ child \in [Procs -> [Kinds -> ChildPc]]
  /\ res \in [Procs -> [Kinds -> Entry]]
  /\ installed \in [Kinds -> [Names -> 0..MaxVersion]]
  /\ Calls \in Workloads

Init ==
  /\ Calls \in Workloads
  /\ clock = 0
  /\ storage = [n \in Names |-> 1]
  /\ cached = [k \in Kinds |-> << >>]
  /\ contracts = << >>
  /\ holder = [l \in Locks |-> NoHolder]
  /\ pc = [p \in Procs |-> "idle"]
  /\ call = [p \in Procs |-> CHOOSE c \in Calls[p] : TRUE]
  /\ child = [p \in Procs |-> [k \in Kinds |-> "idle"]]
  /\ res = [p \in Procs |-> [k \in Kinds |-> NoRes]]
  /\ installed = [k \in Kinds |-> [n \in Names |-> 0]]

-----------------------------------------------------------------------------
(* Cache control: getCached*, setCached*, deleteCached*.  Each takes the  *)
(* table's lock for one map operation, so each is one atomic step.       *)
DeleteKey(f, n) == Restrict(f, DOMAIN f \ {n})
SetKey(f, n, e) == (n :> e) @@ f

(* time.Now().Unix()-cached.time <= CacheTTL *)
Fresh(e) == clock - e.time <= TTL

Name(p) == call[p].name

StartChildren(p, ks) ==
  child' = [child EXCEPT ![p] = [k \in Kinds |-> IF k \in ks THEN "check"
                                                                ELSE "idle"]]

(* The call returns: its goroutines and their locals are gone. *)
EndCall(p) ==
  /\ child' = [child EXCEPT ![p] = [k \in Kinds |-> "idle"]]
  /\ res' = [res EXCEPT ![p] = [k \in Kinds |-> NoRes]]

(* Leave the getter: the deferred Unlock of the package mutex. *)
ReleaseLock(p) ==
  holder' = IF call[p].op = "getter"
              THEN [holder EXCEPT ![call[p].lock] = NoHolder]
              ELSE holder

-----------------------------------------------------------------------------
(* GetAddress (k = "addr") and GetABI (k = "abi") of one slot.            *)

(* getCached*: a fresh entry is returned, a stale one is deleted next, a  *)
(* missing one is fetched.                                               *)
ResolveCheck(p, k) ==
  LET tbl == cached[k]  n == Name(p) IN
  /\ child[p][k] = "check"
  /\ \/ /\ n \in DOMAIN tbl /\ Fresh(tbl[n])
        /\ res' = [res EXCEPT ![p][k] = tbl[n]]
        /\ child' = [child EXCEPT ![p][k] = "done"]
     \/ /\ n \in DOMAIN tbl /\ ~Fresh(tbl[n])
        /\ child' = [child EXCEPT ![p][k] = "delete"]
        /\ UNCHANGED res
     \/ /\ n \notin DOMAIN tbl
        /\ child' = [child EXCEPT ![p][k] = "fetch"]
        /\ UNCHANGED res
  /\ UNCHANGED <<clock, storage, cached, contracts, holder, pc, call,
                 installed, Calls>>

(* deleteCached*: removes whatever entry is there now, possibly one that  *)
(* another goroutine refreshed after this one read the stale entry.      *)
ResolveDelete(p, k) ==
  /\ child[p][k] = "delete"
  /\ cached' = [cached EXCEPT ![k] = DeleteKey(@, Name(p))]
  /\ child' = [child EXCEPT ![p][k] = "fetch"]
  /\ UNCHANGED <<clock, storage, contracts, holder, pc, call, res, installed, Calls>>

(* Mutant: the err check after the storage read is dropped, so the zero  *)
(* value (a nil address, version 0) is cached.                           *)
ResolveFetchKeepsZero(p, k) ==
  /\ child[p][k] = "fetch"
  /\ \/ res' = [res EXCEPT ![p][k] = [val |-> storage[Name(p)], time |-> clock]]
     \/ res' = [res EXCEPT ![p][k] = [val |-> 0, time |-> clock]]
  /\ child' = [child EXCEPT ![p][k] = "set"]
  /\ UNCHANGED <<clock, storage, cached, contracts, holder, pc, call,
                 installed, Calls>>

(* GoGoStorage.GetAddress / GetString + DecodeAbi: reads the deployment   *)
(* now on chain, or fails; a failure is returned and nothing is cached.  *)
ResolveFetch(p, k) ==
  /\ child[p][k] = "fetch"
  /\ \/ /\ res' = [res EXCEPT ![p][k] = [val |-> storage[Name(p)],
                                         time |-> clock]]
        /\ child' = [child EXCEPT ![p][k] = "set"]
     \/ /\ child' = [child EXCEPT ![p][k] = "err"]
        /\ UNCHANGED res
  /\ UNCHANGED <<clock, storage, cached, contracts, holder, pc, call,
                 installed, Calls>>

(* setCached*: stores the fetched value stamped with the time now. *)
ResolveSet(p, k) ==
  LET v == res[p][k].val  n == Name(p) IN
  /\ child[p][k] = "set"
  /\ cached' = [cached EXCEPT ![k] = SetKey(@, n, [val |-> v, time |-> clock])]
  /\ res' = [res EXCEPT ![p][k].time = clock]
  /\ installed' = [installed EXCEPT ![k][n] = IF v > @ THEN v ELSE @]
  /\ child' = [child EXCEPT ![p][k] = "done"]
  /\ UNCHANGED <<clock, storage, contracts, holder, pc, call, Calls>>

Resolve(p, k) ==
  \/ ResolveCheck(p, k)
  \/ ResolveDelete(p, k)
  \/ ResolveFetch(p, k)
  \/ ResolveSet(p, k)

GetAddress(p) == Resolve(p, "addr")
GetABI(p) == Resolve(p, "abi")

-----------------------------------------------------------------------------
(* The calling goroutine. *)

Start(p) ==
  /\ pc[p] = "idle"
  /\ \E c \in Calls[p] :
       /\ call' = [call EXCEPT ![p] = c]
       /\ CASE c.op = "getter"      -> pc' = [pc EXCEPT ![p] = "lock"]
                                       /\ UNCHANGED child
            [] c.op = "GetContract" -> pc' = [pc EXCEPT ![p] = "check"]
                                       /\ UNCHANGED child
            [] c.op = "GetAddress"  -> pc' = [pc EXCEPT ![p] = "direct"]
                                       /\ StartChildren(p, {"addr"})
            [] c.op = "GetABI"      -> pc' = [pc EXCEPT ![p] = "direct"]
                                       /\ StartChildren(p, {"abi"})
  /\ UNCHANGED <<clock, storage, cached, contracts, holder, res, installed, Calls>>

(* Mutant: a getter without its mutex. *)
AcquireLockUnguarded(p) ==
  /\ pc[p] = "lock"
  /\ pc' = [pc EXCEPT ![p] = "check"]
  /\ UNCHANGED <<clock, storage, cached, contracts, holder, call, child, res,
                 installed, Calls>>

(* The getter's mutex.Lock(). *)
AcquireLock(p) ==
  /\ pc[p] = "lock"
  /\ holder[call[p].lock] = NoHolder
  /\ holder' = [holder EXCEPT ![call[p].lock] = p]
  /\ pc' = [pc EXCEPT ![p] = "check"]
  /\ UNCHANGED <<clock, storage, cached, contracts, call, child, res,
                 installed, Calls>>

(* Mutant: a stale bound contract is not deleted before it is re-resolved. *)
GetContractCheckNoDelete(p) ==
  LET n == Name(p) IN
  /\ pc[p] = "check"
  /\ \/ /\ n \in DOMAIN contracts /\ Fresh(contracts[n])
        /\ pc' = [pc EXCEPT ![p] = "idle"]
        /\ ReleaseLock(p)
        /\ UNCHANGED <<child, res>>
     \/ /\ ~(n \in DOMAIN contracts /\ Fresh(contracts[n]))
        /\ pc' = [pc EXCEPT ![p] = "wait"]
        /\ StartChildren(p, Kinds)
        /\ UNCHANGED <<holder, res>>
  /\ UNCHANGED <<clock, storage, cached, contracts, call, installed, Calls>>

(* GetContract: a fresh bound contract is returned; a stale one is        *)
(* deleted; on a miss GetAddress and GetABI are started as goroutines.   *)
GetContractCheck(p) ==
  LET n == Name(p) IN
  /\ pc[p] = "check"
  /\ \/ /\ n \in DOMAIN contracts /\ Fresh(contracts[n])
        /\ pc' = [pc EXCEPT ![p] = "idle"]
        /\ ReleaseLock(p)
        /\ UNCHANGED <<child, res>>
     \/ /\ n \in DOMAIN contracts /\ ~Fresh(contracts[n])
        /\ pc' = [pc EXCEPT ![p] = "delete"]
        /\ UNCHANGED <<holder, child, res>>
     \/ /\ n \notin DOMAIN contracts
        /\ pc' = [pc EXCEPT ![p] = "wait"]
        /\ StartChildren(p, Kinds)
        /\ UNCHANGED <<holder, res>>
  /\ UNCHANGED <<clock, storage, cached, contracts, call, installed, Calls>>

GetContractDelete(p) ==
  /\ pc[p] = "delete"
  /\ contracts' = DeleteKey(contracts, Name(p))
  /\ pc' = [pc EXCEPT ![p] = "wait"]
  /\ StartChildren(p, Kinds)
  /\ UNCHANGED <<clock, storage, cached, holder, call, res, installed, Calls>>

(* Mutant: the mutex is released only on the success path (an explicit   *)
(* Unlock instead of defer).                                             *)
GetContractJoinKeepsLockOnError(p) ==
  LET a == res[p]["addr"]  b == res[p]["abi"] IN
  /\ pc[p] = "wait"
  /\ \A k \in Kinds : child[p][k] \in {"done", "err"}
  /\ \/ /\ \E k \in Kinds : child[p][k] = "err"
        /\ UNCHANGED <<contracts, holder>>
     \/ /\ \A k \in Kinds : child[p][k] = "done"
        /\ contracts' = SetKey(contracts, Name(p),
                               [addr |-> a.val, abi |-> b.val, time |-> clock,
                                addrAt |-> a.time, abiAt |-> b.time])
        /\ ReleaseLock(p)
  /\ pc' = [pc EXCEPT ![p] = "idle"]
  /\ EndCall(p)
  /\ UNCHANGED <<clock, storage, cached, call, installed, Calls>>

(* Mutant: the join waits for both lookups to succeed (a WaitGroup whose  *)
(* Done is only called on success).                                     *)
GetContractJoinOnlySuccess(p) ==
  LET a == res[p]["addr"]  b == res[p]["abi"] IN
  /\ pc[p] = "wait"
  /\ \A k \in Kinds : child[p][k] = "done"
  /\ contracts' = SetKey(contracts, Name(p),
                         [addr |-> a.val, abi |-> b.val, time |-> clock,
                          addrAt |-> a.time, abiAt |-> b.time])
  /\ pc' = [pc EXCEPT ![p] = "idle"]
  /\ EndCall(p)
  /\ ReleaseLock(p)
  /\ UNCHANGED <<clock, storage, cached, call, installed, Calls>>

(* wg.Wait() returns once both goroutines have returned; an error of      *)
(* either is returned, otherwise the contract is built and cached.       *)
GetContractJoin(p) ==
  LET a == res[p]["addr"]  b == res[p]["abi"] IN
  /\ pc[p] = "wait"
  /\ \A k \in Kinds : child[p][k] \in {"done", "err"}
  /\ \/ /\ \E k \in Kinds : child[p][k] = "err"
        /\ UNCHANGED contracts
     \/ /\ \A k \in Kinds : child[p][k] = "done"
        /\ contracts' = SetKey(contracts, Name(p),
                               [addr |-> a.val, abi |-> b.val, time |-> clock,
                                addrAt |-> a.time, abiAt |-> b.time])
  /\ pc' = [pc EXCEPT ![p] = "idle"]
  /\ EndCall(p)
  /\ ReleaseLock(p)
  /\ UNCHANGED <<clock, storage, cached, call, installed, Calls>>

(* A direct GetAddress / GetABI returns its value or error. *)
DirectReturn(p) ==
  /\ pc[p] = "direct"
  /\ \A k \in Kinds : child[p][k] \in {"idle", "done", "err"}
  /\ pc' = [pc EXCEPT ![p] = "idle"]
  /\ EndCall(p)
  /\ UNCHANGED <<clock, storage, cached, contracts, holder, call, installed, Calls>>

-----------------------------------------------------------------------------
(* Environment: the clock and governance upgrades on chain. *)

Tick ==
  /\ clock < MaxTime
  /\ clock' = clock + 1
  /\ UNCHANGED <<storage, cached, contracts, holder, pc, call, child, res,
                 installed, Calls>>

Upgrade(n) ==
  /\ storage[n] < MaxVersion
  /\ storage' = [storage EXCEPT ![n] = @ + 1]
  /\ UNCHANGED <<clock, cached, contracts, holder, pc, call, child, res,
                 installed, Calls>>

Steps(p) ==
  \/ AcquireLock(p)
  \/ GetContractCheck(p)
  \/ GetContractDelete(p)
  \/ GetContractJoin(p)
  \/ DirectReturn(p)
  \/ GetAddress(p)
  \/ GetABI(p)

Next ==
  \/ \E p \in Procs : Start(p) \/ Steps(p)
  \/ Tick
  \/ \E n \in Names : Upgrade(n)

(* The Go scheduler runs every runnable goroutine and every RPC returns   *)
(* (possibly with an error); sync.Mutex's starvation mode hands a mutex  *)
(* that is repeatedly released to a waiter, hence strong fairness there. *)
(* Callers need not start calls, and the chain need not advance.         *)
Fairness ==
  \A p \in Procs :
    /\ WF_vars(GetContractCheck(p) \/ GetContractDelete(p)
               \/ GetContractJoin(p) \/ DirectReturn(p)
               \/ GetAddress(p) \/ GetABI(p))
    /\ SF_vars(AcquireLock(p))

Spec == Init /\ [][Next]_vars /\ Fairness

-----------------------------------------------------------------------------
(* Properties *)

(* A bound contract pairs the address and the ABI of one deployment: the  *)
(* code builds it from the address and ABI caches, whose entries expire  *)
(* independently of each other and of the upgrade that changed both.    *)
HandleConsistent ==
  \A n \in DOMAIN contracts : contracts[n].addr = contracts[n].abi

(* No cached value is served past its TTL (spec, Data Model): while a     *)
(* bound contract is still served from ggp.contracts, the address entry  *)
(* it was built from has not expired.                                    *)
HandleWithinTTL ==
  \A n \in DOMAIN contracts :
    Fresh(contracts[n]) => clock - contracts[n].addrAt <= TTL

(* The per-name getter mutex makes resolution single-flight: a goroutine  *)
(* that fills ggp.contracts[n] never overwrites an entry another         *)
(* goroutine stored while this one was resolving.                        *)
NoOverwrite ==
  [][\A p \in Procs :
       (pc[p] = "wait" /\ pc'[p] = "idle" /\ Name(p) \in DOMAIN contracts')
         => Name(p) \notin DOMAIN contracts
           \/ contracts'[Name(p)] = contracts[Name(p)]]_vars

(* The address and ABI caches never go back to an older deployment: the  *)
(* entry cached for a name is always the newest deployment ever cached.  *)
CacheNeverRegresses ==
  \A k \in Kinds : \A n \in DOMAIN cached[k] :
    cached[k][n].val = installed[k][n]

(* Every goroutine of the program reaches the manager through a getter. *)
AllGuarded == \A p \in Procs : \A c \in Calls[p] : c.op = "getter"

(* When every goroutine goes through the getter of its name, the address *)
(* and ABI caches never go back to an older deployment, whatever the     *)
(* interleaving of the locked check, delete, fetch and set steps.        *)
GuardedCacheNeverRegresses == AllGuarded => CacheNeverRegresses

(* Every call into the contract manager returns. *)
CallsReturn ==
  \A p \in Procs : (pc[p] # "idle") ~> (pc[p] = "idle")

=============================================================================
