------------------------- MODULE BridgeWorkerProofs -------------------------
(***************************************************************************)
(* Proofs about the bridge, for any number of owners, deposits and redeems *)
(* and any interleaving of their goroutines.                               *)
(***************************************************************************)
EXTENDS BridgeWorker, SumTheorems, TLAPS

(***************************************************************************)
(* The inductive invariant.  The type invariant alone is not inductive: a  *)
(* redeem submits a total computed from a checkpoint it read earlier, and  *)
(* that total is a natural only because the burn was compared with that    *)
(* very checkpoint.                                                        *)
(***************************************************************************)
ViewCoversBurn ==
    \A r \in Redeems : redeem[r] = "submit" => RedeemOf[r].amount <= view[r].total

BridgeInv == BridgeTypeOK /\ UpdateIdsMonotonic /\ ViewCoversBurn

(***************************************************************************)
(* SubmitCheckpoint keeps the ids and the types, whatever was read.        *)
(***************************************************************************)
LEMMA SubmitKeepsIds ==
    ASSUME BridgeInv, NEW block \in Nat, NEW total \in Nat,
           SubmitCheckpoint(block, total)
    PROVE  /\ checkpoints' \in Seq(Checkpoint) /\ checkpoints' # <<>>
           /\ updateCounter' \in Nat
           /\ UpdateIdsMonotonic'
           /\ Latest'.total = total
<1> DEFINE c == [update_id |-> updateCounter', block |-> block, total |-> total]
           n == Len(checkpoints)
<1>1. /\ checkpoints \in Seq(Checkpoint) /\ n \in Nat \ {0}
      /\ updateCounter \in Nat /\ Latest = checkpoints[n] /\ checkpoints[n] \in Checkpoint
  BY DEF BridgeInv, BridgeTypeOK, Latest
<1>2. updateCounter' = updateCounter + 1 /\ checkpoints' = Append(checkpoints, c)
  BY DEF SubmitCheckpoint
<1>3. c \in Checkpoint /\ c.update_id = updateCounter' /\ c.total = total
  BY <1>1, <1>2 DEF Checkpoint
<1> HIDE DEF c
<1>4. /\ checkpoints' \in Seq(Checkpoint) /\ Len(checkpoints') = n + 1
      /\ checkpoints'[n + 1] = c
      /\ \A i \in 1 .. n : checkpoints'[i] = checkpoints[i] /\ checkpoints[i] \in Checkpoint
  BY <1>1, <1>2, <1>3
<1>5. Latest' = c /\ checkpoints' # <<>>
  BY <1>1, <1>4 DEF Latest
<1>6. checkpoints[n].update_id <= updateCounter /\ checkpoints[n].update_id \in Nat
  BY <1>1 DEF BridgeInv, UpdateIdsMonotonic, Latest, Checkpoint
<1>7. \A i \in 1 .. n - 1 : checkpoints[i].update_id < checkpoints[i + 1].update_id
  BY DEF BridgeInv, UpdateIdsMonotonic, Latest
<1> HIDE DEF n
<1>8. ASSUME NEW i \in 1 .. n
      PROVE  checkpoints'[i].update_id < checkpoints'[i + 1].update_id
  <2>1. CASE i = n
    BY <2>1, <1>1, <1>2, <1>3, <1>4, <1>6
  <2>2. CASE i # n
    <3>1. i \in 1 .. n - 1 /\ i + 1 \in 1 .. n
      BY <2>2, <1>1
    <3> QED BY <3>1, <1>4, <1>7
  <2> QED BY <2>1, <2>2
<1>9. \A i \in 1 .. Len(checkpoints') - 1 :
          checkpoints'[i].update_id < checkpoints'[i + 1].update_id
  <2>1. Len(checkpoints') - 1 = n
    BY <1>1, <1>4
  <2> QED BY <2>1, <1>8
<1>10. Latest'.update_id <= updateCounter'
  BY <1>1, <1>2, <1>3, <1>5
<1> QED BY <1>1, <1>2, <1>3, <1>4, <1>5, <1>9, <1>10 DEF UpdateIdsMonotonic

(***************************************************************************)
(* The latest checkpoint is a checkpoint.                                  *)
(***************************************************************************)
LEMMA LatestType ==
    ASSUME BridgeTypeOK
    PROVE  Latest \in Checkpoint
BY DEF BridgeTypeOK, Latest

(***************************************************************************)
(* What splitMintAmounts returns is a natural number of shares.            *)
(***************************************************************************)
LEMMA SharesNat ==
    ASSUME NEW eth \in Nat, NEW p \in Nat \ {0}
    PROVE  MintShares(eth, p) \in Nat
<1>1. eth * p \in Nat
  BY SMT
<1>2. ASSUME NEW n \in Nat, NEW m \in Nat \ {0}
      PROVE  n \div m \in Nat
  BY SMT
<1>3. (eth * p) \div 2 \in Nat
  BY <1>1, <1>2
<1>4. ((eth * p) \div 2) \div p \in Nat
  BY <1>3, <1>2
<1>5. QED BY <1>3, <1>4 DEF MintShares, MintF, MintX

\* The ETH a redeem is to pay is a natural at every price.
LEMMA PayoutNat ==
    ASSUME NEW r \in Redeems, NEW p \in Prices
    PROVE  PayoutEth(r, p) \in Nat
<1>1. RedeemOf[r].amount \in Nat /\ p \in Nat \ {0}
  BY BridgeAssumption
<1>2. ASSUME NEW n \in Nat, NEW m \in Nat \ {0}
      PROVE  n \div m \in Nat
  BY SMT
<1>3. RedeemOf[r].amount \div p \in Nat
  BY <1>1, <1>2
<1>4. QED BY <1>1, <1>3 DEF PayoutEth

(***************************************************************************)
(* The caller's steps of Submit.                                           *)
(***************************************************************************)
LEMMA ClientInv ==
    ASSUME BridgeInv, NEW d \in Deposits,
           SubmitDeposit(d) \/ Enqueue(d) \/ ReceiveResult(d) \/ GiveUp(d)
    PROVE  BridgeInv'
<1> USE DEF BridgeInv, serviceVars, redeemVars
<1> USE DEF ClientStates
<1>1. client' \in [Deposits -> ClientStates] /\ jobs' \in Seq(Deposits)
  <2>1. client \in [Deposits -> ClientStates] /\ jobs \in Seq(Deposits)
    BY DEF BridgeTypeOK
  <2>2. CASE SubmitDeposit(d)
    BY <2>1, <2>2 DEF SubmitDeposit
  <2>3. CASE Enqueue(d)
    BY <2>1, <2>3 DEF Enqueue
  <2>4. CASE ReceiveResult(d)
    BY <2>1, <2>4 DEF ReceiveResult
  <2>5. CASE GiveUp(d)
    BY <2>1, <2>5 DEF GiveUp
  <2>6. QED BY <2>2, <2>3, <2>4, <2>5
<1>2. UNCHANGED <<checkpoints, updateCounter, balances, drift, result, worker, credited,
                  minted, redeem, view, payout>>
  BY DEF SubmitDeposit, Enqueue, ReceiveResult, GiveUp
<1>3. BridgeTypeOK'
  BY <1>1, <1>2 DEF BridgeTypeOK
<1>4. UpdateIdsMonotonic' /\ ViewCoversBurn'
  BY <1>2 DEF UpdateIdsMonotonic, ViewCoversBurn, Latest
<1>5. QED BY <1>3, <1>4

(***************************************************************************)
(* What the worker holds at each of its steps.                             *)
(***************************************************************************)
LEMMA WorkerHolds ==
    ASSUME BridgeTypeOK
    PROVE  /\ worker.pc \notin {"idle", "stopped"} => worker.job \in Deposits
           /\ worker.pc \in {"read", "submit", "credit"} => worker.shares \in Nat
           /\ worker.pc = "submit" => worker.view \in Checkpoint
BY DEF BridgeTypeOK, WorkerType

(***************************************************************************)
(* A reply leaves the worker idle and the result channel well typed.       *)
(***************************************************************************)
LEMMA ReplyType ==
    ASSUME BridgeTypeOK, NEW d \in Deposits, NEW outcome \in {"ok", "error"},
           Reply(d, outcome)
    PROVE  worker' \in WorkerType /\ result' \in [Deposits -> {"none", "ok", "error"}]
BY DEF BridgeTypeOK, Reply, WorkerType, Idle

(***************************************************************************)
(* The worker's steps.                                                     *)
(***************************************************************************)
LEMMA WorkerInv ==
    ASSUME BridgeInv, WorkerStep
    PROVE  BridgeInv'
<1> USE DEF BridgeInv, serviceVars, redeemVars
<1>1. CASE TakeJob
  <2>1. jobs' \in Seq(Deposits) /\ Head(jobs) \in Deposits
    BY <1>1 DEF BridgeTypeOK, TakeJob
  <2>2. worker' \in WorkerType
    BY <1>1, <2>1 DEF TakeJob, WorkerType
  <2>3. BridgeTypeOK'
    BY <1>1, <2>1, <2>2 DEF BridgeTypeOK, TakeJob
  <2>4. QED BY <1>1, <2>3 DEF TakeJob, UpdateIdsMonotonic, Latest, ViewCoversBurn
<1>2. CASE FetchPrice
  <2>1. worker.job \in Deposits
    BY <1>2, WorkerHolds DEF FetchPrice
  <2>2. worker' \in WorkerType /\ result' \in [Deposits -> {"none", "ok", "error"}]
    <3>1. CASE Reply(worker.job, "error")
      BY <3>1, <2>1, ReplyType
    <3>2. ASSUME NEW p \in Prices, UNCHANGED result,
                 worker' = [pc |-> "read", job |-> worker.job,
                            shares |-> MintShares(DepositOf[worker.job].eth, p)]
          PROVE  worker' \in WorkerType /\ result' \in [Deposits -> {"none", "ok", "error"}]
      <4>1. DepositOf[worker.job].eth \in Nat /\ p \in Nat \ {0}
        BY <2>1, BridgeAssumption
      <4>2. MintShares(DepositOf[worker.job].eth, p) \in Nat
        BY <4>1, SharesNat
      <4>3. QED BY <3>2, <4>2, <2>1 DEF WorkerType, BridgeTypeOK
    <3>3. QED BY <1>2, <3>1, <3>2 DEF FetchPrice
  <2>3. BridgeTypeOK'
    BY <1>2, <2>2 DEF BridgeTypeOK, FetchPrice
  <2>4. QED BY <1>2, <2>3 DEF FetchPrice, UpdateIdsMonotonic, Latest, ViewCoversBurn
<1>3. CASE ReadLatest
  <2>1. worker' \in WorkerType
    BY <1>3, WorkerHolds, LatestType DEF ReadLatest, WorkerType
  <2>2. BridgeTypeOK'
    BY <1>3, <2>1 DEF BridgeTypeOK, ReadLatest
  <2>3. QED BY <1>3, <2>2 DEF ReadLatest, UpdateIdsMonotonic, Latest, ViewCoversBurn
<1>4. CASE WorkerSubmitsCheckpoint
  <2>1. /\ worker.job \in Deposits /\ worker.shares \in Nat
        /\ worker.view \in Checkpoint
    BY <1>4, WorkerHolds DEF WorkerSubmitsCheckpoint
  <2>2. worker.view.block + 1 \in Nat /\ worker.view.total + worker.shares \in Nat
    BY <2>1 DEF Checkpoint
  <2>3. SubmitCheckpoint(worker.view.block + 1, worker.view.total + worker.shares)
    BY <1>4 DEF WorkerSubmitsCheckpoint
  <2>4. /\ checkpoints' \in Seq(Checkpoint) /\ checkpoints' # <<>>
        /\ updateCounter' \in Nat
        /\ UpdateIdsMonotonic'
    BY <2>1, <2>2, <2>3, SubmitKeepsIds
  <2>5. worker' \in WorkerType /\ drift' \in Int
    <3>1. drift \in Int /\ worker.view.total \in Nat /\ Latest.total \in Nat
      BY <2>1, LatestType DEF BridgeTypeOK, Checkpoint
    <3> QED BY <1>4, <2>1, <3>1 DEF WorkerSubmitsCheckpoint, WorkerType, Overwrites
  <2>6. UNCHANGED <<balances, jobs, result, client, credited, minted, redeem, view, payout>>
    BY <1>4 DEF WorkerSubmitsCheckpoint
  <2>7. BridgeTypeOK'
    BY <2>4, <2>5, <2>6 DEF BridgeTypeOK
  <2>8. QED BY <2>4, <2>6, <2>7 DEF ViewCoversBurn
<1>5. CASE WorkerCredits
  <2>1. worker.job \in Deposits /\ worker.shares \in Nat
    BY <1>5, WorkerHolds DEF WorkerCredits
  <2>2. DepositOf[worker.job].owner \in Owners
    BY <2>1, BridgeAssumption
  <2>3. balances' \in [Owners -> Nat] /\ credited' \in [Deposits -> Nat]
    <3>1. CASE UNCHANGED <<balances, credited>>
      BY <3>1 DEF BridgeTypeOK
    <3>2. CASE /\ CreditDeposit(DepositOf[worker.job].owner, worker.shares)
               /\ credited' = [credited EXCEPT ![worker.job] = worker.shares]
      BY <3>2, <2>1, <2>2 DEF BridgeTypeOK, CreditDeposit
    <3> QED BY <1>5, <3>1, <3>2 DEF WorkerCredits
  <2>4. worker' \in WorkerType /\ result' \in [Deposits -> {"none", "ok", "error"}]
    <3>1. CASE Reply(worker.job, "ok") \/ Reply(worker.job, "error")
      BY <3>1, <2>1, ReplyType
    <3>2. CASE worker' = [pc |-> "mint_f", job |-> worker.job] /\ UNCHANGED result
      BY <3>2, <2>1 DEF WorkerType, BridgeTypeOK
    <3>3. QED BY <1>5, <3>1, <3>2 DEF WorkerCredits
  <2>5. BridgeTypeOK'
    BY <1>5, <2>3, <2>4 DEF BridgeTypeOK, WorkerCredits
  <2>6. QED BY <1>5, <2>5 DEF WorkerCredits, UpdateIdsMonotonic, Latest, ViewCoversBurn
<1>6. CASE MintFTokens \/ MintXTokens
  <2>1. worker.job \in Deposits
    BY <1>6, WorkerHolds DEF MintFTokens, MintXTokens
  <2>2. minted' \in [Deposits -> SUBSET {"f", "x"}]
    <3>1. minted \in [Deposits -> SUBSET {"f", "x"}]
      BY DEF BridgeTypeOK
    <3>2. ASSUME NEW S \in SUBSET {"f", "x"}, minted' = [minted EXCEPT ![worker.job] = S]
          PROVE  minted' \in [Deposits -> SUBSET {"f", "x"}]
      BY <3>1, <3>2
    <3>3. /\ {"f"} \in SUBSET {"f", "x"} /\ {} \in SUBSET {"f", "x"}
          /\ minted[worker.job] \cup {"x"} \in SUBSET {"f", "x"}
          /\ minted[worker.job] \cup {} \in SUBSET {"f", "x"}
      BY <2>1, <3>1
    <3>4. QED BY <1>6, <3>2, <3>3 DEF MintFTokens, MintXTokens
  <2>3. worker' \in WorkerType /\ result' \in [Deposits -> {"none", "ok", "error"}]
    <3>1. CASE Reply(worker.job, "ok") \/ Reply(worker.job, "error")
      BY <3>1, <2>1, ReplyType
    <3>2. CASE worker' = [pc |-> "mint_x", job |-> worker.job] /\ UNCHANGED result
      BY <3>2, <2>1 DEF WorkerType, BridgeTypeOK
    <3>3. QED BY <1>6, <3>1, <3>2 DEF MintFTokens, MintXTokens
  <2>4. BridgeTypeOK'
    BY <1>6, <2>2, <2>3 DEF BridgeTypeOK, MintFTokens, MintXTokens
  <2>5. QED BY <1>6, <2>4 DEF MintFTokens, MintXTokens, UpdateIdsMonotonic, Latest, ViewCoversBurn
<1>7. QED BY <1>1, <1>2, <1>3, <1>4, <1>5, <1>6 DEF WorkerStep

(***************************************************************************)
(* The steps of a redeem.                                                  *)
(***************************************************************************)
LEMMA RedeemInv ==
    ASSUME BridgeInv, NEW r \in Redeems, RedeemStep(r)
    PROVE  BridgeInv'
<1> USE DEF BridgeInv, serviceVars, depositVars, RedeemStates
<1>1. RedeemOf[r].owner \in Owners /\ RedeemOf[r].amount \in Nat
  BY BridgeAssumption
<1>2. CASE RedeemFetchesPrice(r)
  <2>1. redeem' \in [Redeems -> RedeemStates] /\ payout' \in [Redeems -> Nat]
    <3>1. redeem \in [Redeems -> RedeemStates] /\ payout \in [Redeems -> Nat]
      BY DEF BridgeTypeOK
    <3>2. ASSUME NEW p \in Prices,
                 payout' = [payout EXCEPT ![r] = PayoutEth(r, p)],
                 redeem' = [redeem EXCEPT ![r] = "read"]
          PROVE  redeem' \in [Redeems -> RedeemStates] /\ payout' \in [Redeems -> Nat]
      BY <3>1, <3>2, PayoutNat
    <3>3. CASE redeem' = [redeem EXCEPT ![r] = "failed"] /\ UNCHANGED payout
      BY <3>1, <3>3
    <3>4. QED BY <1>2, <3>2, <3>3 DEF RedeemFetchesPrice
  <2>2. BridgeTypeOK'
    BY <1>2, <2>1 DEF BridgeTypeOK, RedeemFetchesPrice
  <2>3. UpdateIdsMonotonic'
    BY <1>2 DEF RedeemFetchesPrice, UpdateIdsMonotonic, Latest
  <2>4. ViewCoversBurn'
    BY <1>2 DEF BridgeTypeOK, RedeemFetchesPrice, ViewCoversBurn
  <2>5. QED BY <2>2, <2>3, <2>4
<1>3. CASE RedeemReadsLatest(r)
  <2>1. redeem' \in [Redeems -> RedeemStates] /\ view' \in [Redeems -> Checkpoint]
    BY <1>3, LatestType DEF BridgeTypeOK, RedeemReadsLatest
  <2>2. BridgeTypeOK'
    BY <1>3, <2>1 DEF BridgeTypeOK, RedeemReadsLatest
  <2>3. UpdateIdsMonotonic'
    BY <1>3 DEF RedeemReadsLatest, UpdateIdsMonotonic, Latest
  <2>4. ViewCoversBurn'
    BY <1>3 DEF BridgeTypeOK, RedeemReadsLatest, ViewCoversBurn
  <2>5. QED BY <2>2, <2>3, <2>4
<1>4. CASE RedeemSubmitsCheckpoint(r)
  <2>1. view[r] \in Checkpoint /\ RedeemOf[r].amount <= view[r].total
    BY <1>4 DEF BridgeTypeOK, RedeemSubmitsCheckpoint, ViewCoversBurn
  <2>2. view[r].block + 1 \in Nat /\ view[r].total - RedeemOf[r].amount \in Nat
    BY <1>1, <2>1 DEF Checkpoint
  <2>3. SubmitCheckpoint(view[r].block + 1, view[r].total - RedeemOf[r].amount)
    BY <1>4 DEF RedeemSubmitsCheckpoint
  <2>4. /\ checkpoints' \in Seq(Checkpoint) /\ checkpoints' # <<>>
        /\ updateCounter' \in Nat
        /\ UpdateIdsMonotonic'
    BY <2>1, <2>2, <2>3, SubmitKeepsIds
  <2>5. redeem' \in [Redeems -> RedeemStates] /\ drift' \in Int
    <3>1. drift \in Int /\ view[r].total \in Nat /\ Latest.total \in Nat
      BY <2>1, LatestType DEF BridgeTypeOK, Checkpoint
    <3> QED BY <1>4, <3>1 DEF BridgeTypeOK, RedeemSubmitsCheckpoint, Overwrites
  <2>6. BridgeTypeOK'
    BY <1>4, <2>4, <2>5 DEF BridgeTypeOK, RedeemSubmitsCheckpoint
  <2>7. ViewCoversBurn'
    BY <1>4 DEF BridgeTypeOK, RedeemSubmitsCheckpoint, ViewCoversBurn
  <2>8. QED BY <2>4, <2>6, <2>7
<1>5. CASE RedeemDebits(r)
  <2>1. redeem' \in [Redeems -> RedeemStates] /\ balances' \in [Owners -> Nat]
    <3>1. redeem \in [Redeems -> RedeemStates] /\ balances \in [Owners -> Nat]
      BY DEF BridgeTypeOK
    <3>2. CASE /\ DebitWithdrawal(RedeemOf[r].owner, RedeemOf[r].amount)
               /\ redeem' = [redeem EXCEPT ![r] = "payout"]
      <4>1. balances[RedeemOf[r].owner] - RedeemOf[r].amount \in Nat
        BY <1>1, <3>1, <3>2 DEF DebitWithdrawal
      <4>2. balances' \in [Owners -> Nat]
        BY <3>1, <3>2, <4>1 DEF DebitWithdrawal
      <4>3. redeem' \in [Redeems -> RedeemStates]
        BY <3>1, <3>2
      <4>4. QED BY <4>2, <4>3
    <3>3. CASE redeem' = [redeem EXCEPT ![r] = "failed"] /\ UNCHANGED balances
      BY <3>1, <3>3
    <3>4. QED BY <1>5, <3>2, <3>3 DEF RedeemDebits
  <2>0. drift' \in Int
    BY <1>1, <1>5 DEF BridgeTypeOK, RedeemDebits
  <2>2. BridgeTypeOK'
    BY <1>5, <2>0, <2>1 DEF BridgeTypeOK, RedeemDebits
  <2>3. UpdateIdsMonotonic'
    BY <1>5 DEF RedeemDebits, UpdateIdsMonotonic, Latest
  <2>4. ViewCoversBurn'
    BY <1>5 DEF BridgeTypeOK, RedeemDebits, ViewCoversBurn
  <2>5. QED BY <2>2, <2>3, <2>4
<1>6. CASE RedeemPays(r)
  <2>1. PayoutOutcomes \subseteq RedeemStates \ {"submit"}
    BY DEF PayoutOutcomes
  <2>2. redeem' \in [Redeems -> RedeemStates]
    BY <1>6, <2>1 DEF BridgeTypeOK, RedeemPays
  <2>3. BridgeTypeOK'
    BY <1>6, <2>2 DEF BridgeTypeOK, RedeemPays
  <2>4. UpdateIdsMonotonic'
    BY <1>6 DEF RedeemPays, UpdateIdsMonotonic, Latest
  <2>5. ViewCoversBurn'
    BY <1>6, <2>1 DEF BridgeTypeOK, RedeemPays, ViewCoversBurn
  <2>6. QED BY <2>3, <2>4, <2>5
<1>7. QED BY <1>2, <1>3, <1>4, <1>5, <1>6 DEF RedeemStep

(***************************************************************************)
(* A checkpoint posted by the monitor.                                     *)
(***************************************************************************)
LEMMA PostInv ==
    ASSUME BridgeInv, NEW cp \in Posted, PostCheckpoint(cp)
    PROVE  BridgeInv'
<1> USE DEF BridgeInv, depositVars, redeemVars
<1>1. cp.block \in Nat /\ cp.total \in Nat
  BY BridgeAssumption
<1>2. SubmitCheckpoint(cp.block, cp.total)
  BY DEF PostCheckpoint
<1>3. /\ checkpoints' \in Seq(Checkpoint) /\ checkpoints' # <<>>
      /\ updateCounter' \in Nat
      /\ UpdateIdsMonotonic'
  BY <1>1, <1>2, SubmitKeepsIds
<1>4. UNCHANGED <<balances, jobs, result, client, worker, credited, minted,
                  redeem, view, payout>>
  BY DEF PostCheckpoint
<1>5. drift' \in Int
  <2>1. drift \in Int /\ Latest.total \in Nat
    BY LatestType DEF BridgeTypeOK, Checkpoint
  <2> QED BY <1>1, <2>1 DEF PostCheckpoint
<1>6. BridgeTypeOK'
  BY <1>3, <1>4, <1>5 DEF BridgeTypeOK
<1>7. QED BY <1>3, <1>4, <1>6 DEF ViewCoversBurn

(***************************************************************************)
(* A post for another asset, and the end of the worker.                    *)
(***************************************************************************)
LEMMA OtherInv ==
    ASSUME BridgeInv, PostElsewhere \/ StopWorker
    PROVE  BridgeInv'
<1> USE DEF BridgeInv, serviceVars, depositVars, redeemVars
<1>1. CASE PostElsewhere
  <2>1. updateCounter' = updateCounter + 1 /\ updateCounter \in Nat /\ Latest.update_id \in Nat
    BY <1>1, LatestType DEF PostElsewhere, BridgeTypeOK, Checkpoint
  <2>2. BridgeTypeOK'
    BY <1>1, <2>1 DEF PostElsewhere, BridgeTypeOK
  <2>3. UpdateIdsMonotonic' /\ ViewCoversBurn'
    BY <1>1, <2>1 DEF PostElsewhere, UpdateIdsMonotonic, Latest, ViewCoversBurn
  <2> QED BY <2>2, <2>3
<1>2. CASE StopWorker
  <2>1. worker' \in WorkerType
    BY <1>2 DEF StopWorker, WorkerType
  <2>2. BridgeTypeOK'
    BY <1>2, <2>1 DEF StopWorker, BridgeTypeOK
  <2> QED BY <1>2, <2>2 DEF StopWorker, UpdateIdsMonotonic, Latest, ViewCoversBurn
<1> QED BY <1>1, <1>2

(***************************************************************************)
(* The seeded service satisfies the invariant.                             *)
(***************************************************************************)
LEMMA InitInv ==
    ASSUME Init
    PROVE  BridgeInv
<1>1. Seed \in Checkpoint
  <2>1. SumFunction(SeedShares) \in Nat
    BY BridgeAssumption, SumFunctionNat
  <2> QED BY <2>1, BridgeAssumption DEF Seed, Checkpoint
<1>2. checkpoints \in Seq(Checkpoint) /\ checkpoints # <<>> /\ updateCounter \in Nat /\ drift \in Int
  BY <1>1 DEF Init
<1>3. balances \in [Owners -> Nat] /\ jobs \in Seq(Deposits)
  BY BridgeAssumption DEF Init
<1>4. worker \in WorkerType
  BY DEF Init, Idle, WorkerType
<1>5. /\ result \in [Deposits -> {"none", "ok", "error"}]
      /\ client \in [Deposits -> ClientStates]
      /\ credited \in [Deposits -> Nat]
      /\ minted \in [Deposits -> SUBSET {"f", "x"}]
  BY DEF Init, ClientStates
<1>6. /\ redeem \in [Redeems -> RedeemStates]
      /\ view \in [Redeems -> Checkpoint]
      /\ payout \in [Redeems -> Nat]
  BY <1>1 DEF Init, RedeemStates
<1>7. UpdateIdsMonotonic
  BY DEF Init, UpdateIdsMonotonic, Latest, Seed
<1>8. ViewCoversBurn
  BY DEF Init, ViewCoversBurn
<1>9. QED BY <1>2, <1>3, <1>4, <1>5, <1>6, <1>7, <1>8 DEF BridgeInv, BridgeTypeOK

(***************************************************************************)
(* Every step keeps the invariant.                                         *)
(***************************************************************************)
LEMMA NextInv ==
    ASSUME BridgeInv, [Next]_vars
    PROVE  BridgeInv'
<1>1. CASE Next
  BY <1>1, ClientInv, WorkerInv, RedeemInv, PostInv, OtherInv DEF Next
<1>2. CASE UNCHANGED vars
  BY <1>2 DEF BridgeInv, BridgeTypeOK, UpdateIdsMonotonic, Latest, ViewCoversBurn, vars,
              serviceVars, depositVars, redeemVars
<1>3. QED BY <1>1, <1>2

(***************************************************************************)
(* No total and no balance of the bridge goes below zero, and every        *)
(* goroutine holds what its next step needs, whatever is interleaved       *)
(* between reading a checkpoint and submitting the next one.               *)
(***************************************************************************)
THEOREM BridgeTypeCorrect == Spec => []BridgeTypeOK
<1>1. BridgeInv => BridgeTypeOK
  BY DEF BridgeInv
<1>2. QED BY <1>1, InitInv, NextInv, PTL DEF Spec

(***************************************************************************)
(* SubmitCheckpoint's update ids grow from one stored checkpoint to the    *)
(* next, for any number of concurrent deposits, redeems and posts.         *)
(***************************************************************************)
THEOREM BridgeIdsMonotonic == Spec => []UpdateIdsMonotonic
<1>1. BridgeInv => UpdateIdsMonotonic
  BY DEF BridgeInv
<1>2. QED BY <1>1, InitInv, NextInv, PTL DEF Spec

(***************************************************************************)
(* A deposit is in one place at a time: not yet sent, queued once, in the  *)
(* worker's hands, or done.  Until the worker credits it nothing is        *)
(* credited for it, so the credit of a deposit is booked exactly once.     *)
(***************************************************************************)
Unsent == {"idle", "sending"}

QueuedOnce ==
    /\ \A i, j \in 1 .. Len(jobs) : jobs[i] = jobs[j] => i = j
    /\ \A i \in 1 .. Len(jobs) :
          /\ credited[jobs[i]] = 0
          /\ client[jobs[i]] \notin Unsent
          /\ worker.pc \notin {"idle", "stopped"} => jobs[i] # worker.job
    /\ worker.pc \notin {"idle", "stopped"} => client[worker.job] \notin Unsent
    /\ worker.pc \in {"price", "read", "submit", "credit"} => credited[worker.job] = 0
    /\ \A d \in Deposits : client[d] \in Unsent => credited[d] = 0

(***************************************************************************)
(* The books of the bridge: a balance is what was seeded and credited less *)
(* what was burned.                                                        *)
(***************************************************************************)
Books == \A o \in Owners : balances[o] = (SeedShares[o] + CreditedTo(o)) - BurnedBy(o)

LedgerInv == BridgeInv /\ QueuedOnce /\ Books

(***************************************************************************)
(* Credits and burns of an owner are naturals, and so are their sums.      *)
(***************************************************************************)
LEMMA BookTypes ==
    ASSUME BridgeTypeOK, NEW o \in Owners
    PROVE  /\ Credits(o) \in [Deposits -> Nat] /\ CreditedTo(o) \in Nat
           /\ Burns(o) \in [Redeems -> Nat] /\ BurnedBy(o) \in Nat
           /\ balances[o] \in Nat /\ SeedShares[o] \in Nat
<1>1. /\ credited \in [Deposits -> Nat] /\ balances \in [Owners -> Nat]
      /\ \A r \in Redeems : RedeemOf[r].amount \in Nat
      /\ SeedShares \in [Owners -> Nat] /\ IsFiniteSet(Deposits) /\ IsFiniteSet(Redeems)
  BY BridgeAssumption DEF BridgeTypeOK
<1>2. Credits(o) \in [Deposits -> Nat] /\ Burns(o) \in [Redeems -> Nat]
  BY <1>1 DEF Credits, Burns
<1>3. CreditedTo(o) \in Nat /\ BurnedBy(o) \in Nat
  BY <1>1, <1>2, SumFunctionNat DEF CreditedTo, BurnedBy
<1> QED BY <1>1, <1>2, <1>3

(***************************************************************************)
(* A step that credits nothing, debits nothing and takes no redeem over    *)
(* its debit leaves the books as they are.                                 *)
(***************************************************************************)
LEMMA BooksKept ==
    ASSUME Books, balances' = balances, credited' = credited,
           \A r \in Redeems : (redeem'[r] \in Burned) <=> (redeem[r] \in Burned)
    PROVE  Books'
<1> SUFFICES ASSUME NEW o \in Owners
             PROVE  (balances[o] = (SeedShares[o] + CreditedTo(o)) - BurnedBy(o))'
  BY DEF Books
<1>1. Credits(o)' = Credits(o)
  BY DEF Credits
<1>2. Burns(o)' = Burns(o)
  BY DEF Burns
<1> QED BY <1>1, <1>2 DEF Books, CreditedTo, BurnedBy

(***************************************************************************)
(* CreditDeposit books the worker's shares for the deposit's owner.        *)
(***************************************************************************)
LEMMA CreditBooks ==
    ASSUME LedgerInv, WorkerCredits, worker.shares # 0
    PROVE  Books'
<1> DEFINE d == worker.job
           q == worker.shares
<1>1. /\ d \in Deposits /\ q \in Nat /\ worker.pc = "credit" /\ credited[d] = 0
      /\ BridgeTypeOK
  BY WorkerHolds DEF WorkerCredits, LedgerInv, BridgeInv, QueuedOnce
<1>2. /\ balances' = [balances EXCEPT ![DepositOf[d].owner] = @ + q]
      /\ credited' = [credited EXCEPT ![d] = q] /\ redeem' = redeem
      /\ balances \in [Owners -> Nat] /\ credited \in [Deposits -> Nat]
  BY <1>1 DEF WorkerCredits, CreditDeposit, redeemVars, BridgeTypeOK
<1> HIDE DEF d, q
<1> SUFFICES ASSUME NEW o \in Owners
             PROVE  (balances[o] = (SeedShares[o] + CreditedTo(o)) - BurnedBy(o))'
  BY DEF Books
<1>3. BurnedBy(o)' = BurnedBy(o)
  <2>1. Burns(o)' = Burns(o)
    BY <1>2 DEF Burns
  <2> QED BY <2>1 DEF BurnedBy
<1>4. /\ Credits(o) \in [Deposits -> Nat] /\ CreditedTo(o) \in Nat
      /\ BurnedBy(o) \in Nat /\ balances[o] \in Nat /\ SeedShares[o] \in Nat
  BY <1>1, BookTypes
<1>5. balances[o] = (SeedShares[o] + CreditedTo(o)) - BurnedBy(o)
  BY DEF LedgerInv, Books
<1>6. PICK g \in [Deposits -> Nat] :
         g = [k \in Deposits |-> IF DepositOf[k].owner = o
                                 THEN IF k = d THEN q ELSE credited[k] ELSE 0]
  <2> DEFINE g == [k \in Deposits |-> IF DepositOf[k].owner = o
                                      THEN IF k = d THEN q ELSE credited[k] ELSE 0]
  <2>1. g \in [Deposits -> Nat]
    BY <1>1, <1>2
  <2> QED BY <2>1
<1>7. Credits(o)' = g
  BY <1>1, <1>2, <1>6 DEF Credits
<1>8. SumFunction(g) = SumFunction(Credits(o)) - Credits(o)[d] + g[d]
  <2>1. \A i \in Deposits \ {d} : g[i] = Credits(o)[i]
    BY <1>6 DEF Credits
  <2>2. Credits(o) \in [Deposits -> Int] /\ g \in [Deposits -> Int]
    BY <1>4
  <2> QED BY <1>1, <2>1, <2>2, BridgeAssumption, SumFunctionUpdate
<1>9. Credits(o)[d] = 0
  BY <1>1 DEF Credits
<1>10. CreditedTo(o)' = CreditedTo(o) + g[d]
  BY <1>4, <1>7, <1>8, <1>9, <1>1, <1>6 DEF CreditedTo
<1>11. balances'[o] = balances[o] + g[d]
  BY <1>1, <1>2, <1>4, <1>6
<1>12. ASSUME NEW b \in Nat, NEW s \in Nat, NEW c \in Nat, NEW u \in Nat, NEW x \in Nat,
              b = (s + c) - u
       PROVE  b + x = (s + (c + x)) - u
  BY <1>12
<1>13. g[d] \in Nat
  BY <1>1
<1>14. balances[o] + g[d] = (SeedShares[o] + (CreditedTo(o) + g[d])) - BurnedBy(o)
  BY <1>4, <1>5, <1>12, <1>13
<1> QED BY <1>3, <1>10, <1>11, <1>14

(***************************************************************************)
(* DebitWithdrawal books the burn of the redeem's owner.                   *)
(***************************************************************************)
LEMMA DebitBooks ==
    ASSUME LedgerInv, NEW r \in Redeems, redeem[r] = "debit",
           DebitWithdrawal(RedeemOf[r].owner, RedeemOf[r].amount),
           redeem' = [redeem EXCEPT ![r] = "payout"], credited' = credited
    PROVE  Books'
<1> DEFINE a == RedeemOf[r].amount
<1>1. /\ BridgeTypeOK /\ a \in Nat /\ redeem \in [Redeems -> RedeemStates]
      /\ RedeemOf[r].owner \in Owners
  BY BridgeAssumption DEF LedgerInv, BridgeInv, BridgeTypeOK
<1>2. /\ balances' = [balances EXCEPT ![RedeemOf[r].owner] = @ - a]
      /\ a <= balances[RedeemOf[r].owner]
      /\ balances \in [Owners -> Nat]
  BY <1>1 DEF DebitWithdrawal, BridgeTypeOK
<1>0. a = RedeemOf[r].amount
  OBVIOUS
<1> HIDE DEF a
<1> SUFFICES ASSUME NEW o \in Owners
             PROVE  (balances[o] = (SeedShares[o] + CreditedTo(o)) - BurnedBy(o))'
  BY DEF Books
<1>3. CreditedTo(o)' = CreditedTo(o)
  <2>1. Credits(o)' = Credits(o)
    BY DEF Credits
  <2> QED BY <2>1 DEF CreditedTo
<1>4. /\ Burns(o) \in [Redeems -> Nat] /\ CreditedTo(o) \in Nat
      /\ BurnedBy(o) \in Nat /\ balances[o] \in Nat /\ SeedShares[o] \in Nat
  BY <1>1, BookTypes
<1>5. balances[o] = (SeedShares[o] + CreditedTo(o)) - BurnedBy(o)
  BY DEF LedgerInv, Books
<1>6. PICK g \in [Redeems -> Nat] :
         g = [k \in Redeems |->
                IF RedeemOf[k].owner = o /\ (k = r \/ redeem[k] \in Burned)
                THEN RedeemOf[k].amount ELSE 0]
  BY BridgeAssumption
<1>7. Burns(o)' = g
  <2>1. \A k \in Redeems : redeem'[k] \in Burned <=> (k = r \/ redeem[k] \in Burned)
    BY <1>1 DEF Burned
  <2> QED BY <2>1, <1>6 DEF Burns
<1>8. SumFunction(g) = SumFunction(Burns(o)) - Burns(o)[r] + g[r]
  <2>1. \A i \in Redeems \ {r} : g[i] = Burns(o)[i]
    BY <1>6 DEF Burns
  <2>2. Burns(o) \in [Redeems -> Int] /\ g \in [Redeems -> Int]
    BY <1>4
  <2>3. IsFiniteSet(Redeems)
    BY BridgeAssumption
  <2> QED BY ONLY <2>1, <2>2, <2>3, r \in Redeems, SumFunctionUpdate
<1>9. Burns(o)[r] = 0
  BY DEF Burns, Burned
<1>10. g[r] \in Nat
  OBVIOUS
<1>11. BurnedBy(o)' = BurnedBy(o) + g[r]
  BY <1>4, <1>7, <1>8, <1>9, <1>10 DEF BurnedBy
<1>12. balances'[o] = balances[o] - g[r]
  BY <1>0, <1>1, <1>2, <1>4, <1>6
<1>13. ASSUME NEW b \in Nat, NEW s \in Nat, NEW c \in Nat, NEW u \in Nat, NEW x \in Nat,
              b = (s + c) - u
       PROVE  b - x = (s + c) - (u + x)
  BY <1>13
<1>14. balances[o] - g[r] = (SeedShares[o] + CreditedTo(o)) - (BurnedBy(o) + g[r])
  BY <1>4, <1>5, <1>10, <1>13
<1> QED BY <1>3, <1>11, <1>12, <1>14

(***************************************************************************)
(* The caller's steps keep a deposit in one place: Enqueue is the only one *)
(* that queues it, and it leaves Unsent as it does.                        *)
(***************************************************************************)
LEMMA ClientQueuedOnce ==
    ASSUME BridgeTypeOK, QueuedOnce, NEW d \in Deposits,
           SubmitDeposit(d) \/ Enqueue(d) \/ ReceiveResult(d) \/ GiveUp(d)
    PROVE  QueuedOnce'
<1>1. /\ jobs \in Seq(Deposits) /\ client \in [Deposits -> ClientStates]
      /\ worker.pc \notin {"idle", "stopped"} => worker.job \in Deposits
  BY WorkerHolds DEF BridgeTypeOK
<1>2. CASE Enqueue(d)
  <2>1. /\ client[d] = "sending" /\ jobs' = Append(jobs, d)
        /\ client' = [client EXCEPT ![d] = "waiting"]
        /\ worker' = worker /\ credited' = credited
    BY <1>2 DEF Enqueue
  <2>2. credited[d] = 0
    BY <2>1 DEF QueuedOnce, Unsent
  <2>3. /\ Len(jobs') = Len(jobs) + 1 /\ Len(jobs) \in Nat
        /\ jobs'[Len(jobs) + 1] = d
        /\ \A i \in 1 .. Len(jobs) : jobs'[i] = jobs[i] /\ jobs[i] \in Deposits
    BY <1>1, <2>1
  <2>4. \A i \in 1 .. Len(jobs') : i \in 1 .. Len(jobs) \/ i = Len(jobs) + 1
    BY <2>3
  <2>5. \A i \in 1 .. Len(jobs) : jobs[i] # d
    BY <2>1 DEF QueuedOnce, Unsent
  <2>6. worker.pc \notin {"idle", "stopped"} => worker.job # d
    BY <2>1 DEF QueuedOnce, Unsent
  <2>7. \A k \in Deposits : client'[k] \in Unsent => client[k] \in Unsent
    BY <1>1, <2>1 DEF Unsent
  <2>8. client'[d] \notin Unsent
    BY <1>1, <2>1 DEF Unsent
  <2>9. \A i, j \in 1 .. Len(jobs') : jobs'[i] = jobs'[j] => i = j
    BY <2>3, <2>4, <2>5 DEF QueuedOnce
  <2>10. \A i \in 1 .. Len(jobs') :
            /\ credited'[jobs'[i]] = 0
            /\ client'[jobs'[i]] \notin Unsent
            /\ worker'.pc \notin {"idle", "stopped"} => jobs'[i] # worker'.job
    BY <2>1, <2>2, <2>3, <2>4, <2>6, <2>7, <2>8 DEF QueuedOnce
  <2>11. /\ worker'.pc \notin {"idle", "stopped"} => client'[worker'.job] \notin Unsent
         /\ worker'.pc \in {"price", "read", "submit", "credit"} => credited'[worker'.job] = 0
         /\ \A k \in Deposits : client'[k] \in Unsent => credited'[k] = 0
    BY <1>1, <2>1, <2>7 DEF QueuedOnce
  <2> QED BY <2>9, <2>10, <2>11 DEF QueuedOnce
<1>3. CASE SubmitDeposit(d) \/ ReceiveResult(d) \/ GiveUp(d)
  <2>1. jobs' = jobs /\ worker' = worker /\ credited' = credited
    BY <1>3 DEF SubmitDeposit, ReceiveResult, GiveUp
  <2>2. \A k \in Deposits : client'[k] \in Unsent => client[k] \in Unsent
    <3>1. CASE SubmitDeposit(d)
      BY <3>1, <1>1 DEF SubmitDeposit, Unsent
    <3>2. CASE ReceiveResult(d)
      BY <3>2, <1>1 DEF ReceiveResult, Unsent
    <3>3. CASE GiveUp(d)
      BY <3>3, <1>1 DEF GiveUp, Unsent
    <3> QED BY <1>3, <3>1, <3>2, <3>3
  <2>3. \A i \in 1 .. Len(jobs) : jobs[i] \in Deposits
    BY <1>1
  <2> QED BY <1>1, <2>1, <2>2, <2>3 DEF QueuedOnce
<1> QED BY <1>2, <1>3

(***************************************************************************)
(* A step of the worker that takes no job and credits nothing goes on with *)
(* the job it has, or ends it.                                             *)
(***************************************************************************)
LEMMA SameJob ==
    ASSUME QueuedOnce, jobs' = jobs, client' = client, credited' = credited,
           \/ worker'.pc \in {"idle", "stopped"}
           \/ /\ worker.pc \notin {"idle", "stopped"} /\ worker'.job = worker.job
              /\ worker'.pc \in {"price", "read", "submit", "credit"}
                    => worker.pc \in {"price", "read", "submit", "credit"}
    PROVE  QueuedOnce'
BY DEF QueuedOnce

(***************************************************************************)
(* The worker's steps keep a deposit in one place.                         *)
(***************************************************************************)
LEMMA WorkerQueuedOnce ==
    ASSUME BridgeTypeOK, QueuedOnce, WorkerStep
    PROVE  QueuedOnce'
<1>1. CASE TakeJob
  <2>1. /\ worker' = [pc |-> "price", job |-> Head(jobs)] /\ jobs' = Tail(jobs)
        /\ client' = client /\ credited' = credited
        /\ jobs \in Seq(Deposits) /\ jobs # <<>>
    BY <1>1 DEF TakeJob, BridgeTypeOK
  <2>2. /\ Len(jobs) \in Nat \ {0} /\ Len(jobs') = Len(jobs) - 1
        /\ \A i \in 1 .. Len(jobs') : i + 1 \in 2 .. Len(jobs) /\ jobs'[i] = jobs[i + 1]
        /\ worker'.job = jobs[1] /\ 1 \in 1 .. Len(jobs) /\ worker'.pc = "price"
    BY <2>1
  <2>3. \A i \in 1 .. Len(jobs') : i + 1 \in 1 .. Len(jobs) /\ i + 1 # 1
    BY <2>2
  <2>4. \A i, j \in 1 .. Len(jobs') : jobs'[i] = jobs'[j] => i = j
    <3> SUFFICES ASSUME NEW i \in 1 .. Len(jobs'), NEW j \in 1 .. Len(jobs'),
                        jobs'[i] = jobs'[j]
                 PROVE  i = j
      OBVIOUS
    <3>1. i + 1 = j + 1
      BY <2>2, <2>3 DEF QueuedOnce
    <3> QED BY <3>1
  <2>5. \A i \in 1 .. Len(jobs') :
            /\ credited'[jobs'[i]] = 0
            /\ client'[jobs'[i]] \notin Unsent
            /\ jobs'[i] # worker'.job
    BY <2>1, <2>2, <2>3 DEF QueuedOnce
  <2>6. /\ client'[worker'.job] \notin Unsent /\ credited'[worker'.job] = 0
        /\ \A k \in Deposits : client'[k] \in Unsent => credited'[k] = 0
    BY <2>1, <2>2 DEF QueuedOnce
  <2> QED BY <2>4, <2>5, <2>6 DEF QueuedOnce
<1>2. CASE FetchPrice \/ ReadLatest \/ WorkerSubmitsCheckpoint \/ MintFTokens \/ MintXTokens
  <2>1. jobs' = jobs /\ client' = client /\ credited' = credited
    BY <1>2 DEF FetchPrice, ReadLatest, WorkerSubmitsCheckpoint, MintFTokens, MintXTokens
  <2>2. \/ worker'.pc = "idle"
        \/ /\ worker.pc \notin {"idle", "stopped"} /\ worker'.job = worker.job
           /\ worker'.pc \in {"price", "read", "submit", "credit"}
                 => worker.pc \in {"price", "read", "submit", "credit"}
    <3>1. CASE FetchPrice
      BY <3>1 DEF FetchPrice, Reply, Idle
    <3>2. CASE ReadLatest
      BY <3>2 DEF ReadLatest
    <3>3. CASE WorkerSubmitsCheckpoint
      BY <3>3 DEF WorkerSubmitsCheckpoint
    <3>4. CASE MintFTokens
      BY <3>4 DEF MintFTokens, Reply, Idle
    <3>5. CASE MintXTokens
      BY <3>5 DEF MintXTokens, Reply, Idle
    <3> QED BY <1>2, <3>1, <3>2, <3>3, <3>4, <3>5
  <2> QED BY <2>1, <2>2, SameJob
<1>3. CASE WorkerCredits
  <2>1. /\ jobs' = jobs /\ client' = client /\ worker.pc = "credit"
        /\ credited \in [Deposits -> Nat] /\ jobs \in Seq(Deposits)
        /\ worker.job \in Deposits
    BY <1>3, WorkerHolds DEF WorkerCredits, BridgeTypeOK
  <2>2. worker'.pc = "idle" \/ (worker'.pc = "mint_f" /\ worker'.job = worker.job)
    BY <1>3 DEF WorkerCredits, Reply, Idle
  <2>3. \A k \in Deposits : k # worker.job => credited'[k] = credited[k]
    BY <1>3, <2>1 DEF WorkerCredits
  <2>4. \A i \in 1 .. Len(jobs) : jobs[i] \in Deposits
    BY <2>1
  <2> QED BY <2>1, <2>2, <2>3, <2>4 DEF QueuedOnce
<1> QED BY <1>1, <1>2, <1>3 DEF WorkerStep

(***************************************************************************)
(* The seeded service has its books in order.                              *)
(***************************************************************************)
LEMMA InitLedger ==
    ASSUME Init
    PROVE  LedgerInv
<1>1. BridgeInv
  BY InitInv
<1>2. QueuedOnce
  BY DEF Init, QueuedOnce, Idle
<1>3. ASSUME NEW o \in Owners
      PROVE  balances[o] = (SeedShares[o] + CreditedTo(o)) - BurnedBy(o)
  <2>1. Credits(o) \in [Deposits -> Nat] /\ Burns(o) \in [Redeems -> Nat] /\ SeedShares[o] \in Nat
    BY <1>1, BookTypes DEF BridgeInv
  <2>2. \A d \in Deposits : Credits(o)[d] = 0
    BY DEF Init, Credits
  <2>3. \A r \in Redeems : Burns(o)[r] = 0
    BY DEF Init, Burns, Burned
  <2>4. CreditedTo(o) = 0
    <3>1. Credits(o) \in [Deposits -> Int] /\ IsFiniteSet(Deposits)
      BY <2>1, BridgeAssumption
    <3> QED BY ONLY <3>1, <2>2, SumFunctionZero DEF CreditedTo
  <2>5. BurnedBy(o) = 0
    <3>1. Burns(o) \in [Redeems -> Int] /\ IsFiniteSet(Redeems)
      BY <2>1, BridgeAssumption
    <3> QED BY ONLY <3>1, <2>3, SumFunctionZero DEF BurnedBy
  <2> QED BY <2>1, <2>4, <2>5 DEF Init
<1> QED BY <1>1, <1>2, <1>3 DEF LedgerInv, Books

(***************************************************************************)
(* Every step keeps the books.                                             *)
(***************************************************************************)
LEMMA NextLedger ==
    ASSUME LedgerInv, [Next]_vars
    PROVE  LedgerInv'
<1> USE DEF serviceVars, depositVars, redeemVars
<1>1. BridgeInv /\ BridgeInv' /\ BridgeTypeOK /\ QueuedOnce /\ Books
  BY NextInv DEF LedgerInv, BridgeInv
<1>2. ASSUME NEW d \in Deposits,
             SubmitDeposit(d) \/ Enqueue(d) \/ ReceiveResult(d) \/ GiveUp(d)
      PROVE  QueuedOnce' /\ Books'
  <2>1. balances' = balances /\ credited' = credited /\ redeem' = redeem
    BY <1>2 DEF SubmitDeposit, Enqueue, ReceiveResult, GiveUp
  <2> QED BY <1>1, <1>2, <2>1, ClientQueuedOnce, BooksKept
<1>3. ASSUME WorkerStep
      PROVE  QueuedOnce' /\ Books'
  <2>1. QueuedOnce'
    BY <1>1, <1>3, WorkerQueuedOnce
  <2>2. CASE WorkerCredits /\ worker.shares # 0
    BY <2>1, <2>2, CreditBooks
  <2>3. CASE ~(WorkerCredits /\ worker.shares # 0)
    <3>1. balances' = balances /\ credited' = credited /\ redeem' = redeem
      <4>1. CASE TakeJob \/ FetchPrice \/ ReadLatest
        BY <4>1 DEF TakeJob, FetchPrice, ReadLatest
      <4>2. CASE WorkerSubmitsCheckpoint \/ MintFTokens \/ MintXTokens
        BY <4>2 DEF WorkerSubmitsCheckpoint, MintFTokens, MintXTokens
      <4>3. CASE WorkerCredits
        BY <2>3, <4>3 DEF WorkerCredits, CreditDeposit
      <4> QED BY <1>3, <2>3, <4>1, <4>2, <4>3 DEF WorkerStep
    <3> QED BY <1>1, <2>1, <3>1, BooksKept
  <2> QED BY <2>2, <2>3
<1>4. ASSUME NEW r \in Redeems, RedeemStep(r)
      PROVE  QueuedOnce' /\ Books'
  <2>0. redeem \in [Redeems -> RedeemStates] /\ redeem[r] \in RedeemStates
    BY <1>1 DEF BridgeTypeOK
  <2>1. credited' = credited /\ jobs' = jobs /\ client' = client /\ worker' = worker
    BY <1>4 DEF RedeemStep, RedeemFetchesPrice, RedeemReadsLatest, RedeemSubmitsCheckpoint,
                RedeemDebits, RedeemPays
  <2>2. QueuedOnce'
    BY <1>1, <2>1 DEF QueuedOnce
  <2>3. CASE /\ redeem[r] = "debit"
             /\ DebitWithdrawal(RedeemOf[r].owner, RedeemOf[r].amount)
             /\ redeem' = [redeem EXCEPT ![r] = "payout"]
    BY <2>1, <2>2, <2>3, DebitBooks
  <2>4. ASSUME balances' = balances,
               NEW s \in RedeemStates, redeem' = [redeem EXCEPT ![r] = s],
               (s \in Burned) <=> (redeem[r] \in Burned)
        PROVE  QueuedOnce' /\ Books'
    <3>1. \A k \in Redeems : (redeem'[k] \in Burned) <=> (redeem[k] \in Burned)
      BY <2>0, <2>4
    <3> QED BY <1>1, <2>1, <2>2, <2>4, <3>1, BooksKept
  <2>5. CASE RedeemFetchesPrice(r)
    <3>1. /\ redeem[r] = "idle" /\ balances' = balances
          /\ \E s \in {"read", "failed"} : redeem' = [redeem EXCEPT ![r] = s]
      BY <2>5 DEF RedeemFetchesPrice
    <3> QED BY <3>1, <2>4 DEF Burned, RedeemStates
  <2>6. CASE RedeemReadsLatest(r)
    <3>1. /\ redeem[r] = "read" /\ balances' = balances
          /\ \E s \in {"submit", "failed"} : redeem' = [redeem EXCEPT ![r] = s]
      BY <2>6 DEF RedeemReadsLatest
    <3> QED BY <3>1, <2>4 DEF Burned, RedeemStates
  <2>7. CASE RedeemSubmitsCheckpoint(r)
    <3>1. /\ redeem[r] = "submit" /\ balances' = balances
          /\ redeem' = [redeem EXCEPT ![r] = "debit"]
      BY <2>7 DEF RedeemSubmitsCheckpoint
    <3> QED BY <3>1, <2>4 DEF Burned, RedeemStates
  <2>8. CASE RedeemDebits(r)
    <3>1. CASE redeem' = [redeem EXCEPT ![r] = "failed"] /\ UNCHANGED balances
      BY <2>8, <3>1, <2>4 DEF RedeemDebits, Burned, RedeemStates
    <3> QED BY <2>8, <2>3, <3>1 DEF RedeemDebits
  <2>9. CASE RedeemPays(r)
    <3>1. /\ redeem[r] = "payout" /\ balances' = balances
          /\ \E s \in Burned \ {"payout"} : redeem' = [redeem EXCEPT ![r] = s]
      BY <2>9 DEF RedeemPays, PayoutOutcomes, Burned
    <3> QED BY <3>1, <2>4 DEF Burned, RedeemStates
  <2> QED BY <1>4, <2>5, <2>6, <2>7, <2>8, <2>9 DEF RedeemStep
<1>5. ASSUME NEW cp \in Posted, PostCheckpoint(cp)
      PROVE  QueuedOnce' /\ Books'
  <2>1. /\ credited' = credited /\ jobs' = jobs /\ client' = client /\ worker' = worker
        /\ balances' = balances /\ redeem' = redeem
    BY <1>5 DEF PostCheckpoint
  <2>2. QueuedOnce'
    BY <1>1, <2>1 DEF QueuedOnce
  <2> QED BY <1>1, <2>1, <2>2, BooksKept
<1>8. ASSUME PostElsewhere \/ StopWorker
      PROVE  QueuedOnce' /\ Books'
  <2>1. /\ credited' = credited /\ jobs' = jobs /\ client' = client
        /\ balances' = balances /\ redeem' = redeem
        /\ worker' = worker \/ worker'.pc = "stopped"
    BY <1>8 DEF PostElsewhere, StopWorker
  <2>2. QueuedOnce'
    BY <1>1, <2>1 DEF QueuedOnce
  <2> QED BY <1>1, <2>1, <2>2, BooksKept
<1>6. CASE UNCHANGED vars
  <2>1. /\ credited' = credited /\ jobs' = jobs /\ client' = client /\ worker' = worker
        /\ balances' = balances /\ redeem' = redeem
    BY <1>6 DEF vars
  <2>2. QueuedOnce'
    BY <1>1, <2>1 DEF QueuedOnce
  <2>3. Books'
    BY <1>1, <2>1, BooksKept
  <2> QED BY <1>1, <2>2, <2>3 DEF LedgerInv
<1>7. CASE Next
  BY <1>1, <1>2, <1>3, <1>4, <1>5, <1>7, <1>8 DEF Next, LedgerInv
<1> QED BY <1>6, <1>7

(***************************************************************************)
(* Nobody is paid for more shares than were seeded and credited to them:   *)
(* whatever the goroutines read before they run, DebitWithdrawal compares  *)
(* the burn with the balance under the lock, and the balance is exactly    *)
(* what the owner's deposits brought less what their redeems took.         *)
(***************************************************************************)
THEOREM BridgePaidCovered == Spec => []PaidCovered
<1>1. ASSUME LedgerInv PROVE PaidCovered
  <2> SUFFICES ASSUME NEW o \in Owners
               PROVE  BurnedBy(o) <= SeedShares[o] + CreditedTo(o)
    BY DEF PaidCovered
  <2>1. /\ CreditedTo(o) \in Nat /\ BurnedBy(o) \in Nat
        /\ balances[o] \in Nat /\ SeedShares[o] \in Nat
    BY <1>1, BookTypes DEF LedgerInv, BridgeInv
  <2>2. balances[o] = (SeedShares[o] + CreditedTo(o)) - BurnedBy(o)
    BY <1>1 DEF LedgerInv, Books
  <2> QED BY <2>1, <2>2
<1> QED BY <1>1, InitLedger, NextLedger, PTL DEF Spec

-----------------------------------------------------------------------------
TrackInv == BridgeInv /\ TotalAccountedFor

(***************************************************************************)
(* The sums in TotalAccountedFor are naturals.                             *)
(***************************************************************************)
LEMMA DueTypes ==
    ASSUME BridgeTypeOK
    PROVE  /\ DebitsDue \in [Redeems -> Nat] /\ SumFunction(DebitsDue) \in Nat
           /\ SumFunction(balances) \in Nat /\ CreditDue \in Nat
           /\ Latest.block \in Nat /\ Latest.total \in Nat
<1>1. /\ IsFiniteSet(Redeems) /\ IsFiniteSet(Owners) /\ balances \in [Owners -> Nat]
      /\ \A r \in Redeems : RedeemOf[r].amount \in Nat
  BY BridgeAssumption DEF BridgeTypeOK
<1>2. DebitsDue \in [Redeems -> Nat]
  BY <1>1 DEF DebitsDue
<1>3. SumFunction(DebitsDue) \in Nat /\ SumFunction(balances) \in Nat
  BY ONLY <1>1, <1>2, SumFunctionNat
<1>4. CreditDue \in Nat
  BY WorkerHolds DEF CreditDue
<1>5. Latest.block \in Nat /\ Latest.total \in Nat
  BY LatestType DEF Checkpoint
<1> QED BY <1>2, <1>3, <1>4, <1>5

(***************************************************************************)
(* The sum of the debits due changes by what one redeem's step changes.    *)
(***************************************************************************)
LEMMA DebitDueChanges ==
    ASSUME BridgeTypeOK, NEW r \in Redeems, NEW s, redeem' = [redeem EXCEPT ![r] = s]
    PROVE  /\ redeem[r] # "debit" /\ s = "debit"
                 => SumFunction(DebitsDue)' = SumFunction(DebitsDue) + RedeemOf[r].amount
           /\ redeem[r] = "debit" /\ s # "debit"
                 => SumFunction(DebitsDue)' = SumFunction(DebitsDue) - RedeemOf[r].amount
<1>1. /\ DebitsDue \in [Redeems -> Nat] /\ SumFunction(DebitsDue) \in Nat
      /\ RedeemOf[r].amount \in Nat /\ IsFiniteSet(Redeems)
      /\ redeem \in [Redeems -> RedeemStates]
  BY DueTypes, BridgeAssumption DEF BridgeTypeOK
<1>2. PICK g \in [Redeems -> Int] :
         g = [k \in Redeems |-> IF k = r THEN IF s = "debit" THEN RedeemOf[r].amount ELSE 0
                                ELSE DebitsDue[k]]
  <2> DEFINE g == [k \in Redeems |-> IF k = r THEN IF s = "debit" THEN RedeemOf[r].amount ELSE 0
                                     ELSE DebitsDue[k]]
  <2>1. g \in [Redeems -> Int]
    BY <1>1
  <2> QED BY <2>1
<1>3. DebitsDue' = g
  <2>1. redeem'[r] = s /\ \A k \in Redeems : k # r => redeem'[k] = redeem[k]
    BY <1>1
  <2> QED BY <2>1, <1>2 DEF DebitsDue
<1>4. SumFunction(g) = SumFunction(DebitsDue) - DebitsDue[r] + g[r]
  <2>1. DebitsDue \in [Redeems -> Int] /\ \A k \in Redeems \ {r} : g[k] = DebitsDue[k]
    BY <1>1, <1>2
  <2>2. r \in Redeems
    OBVIOUS
  <2> QED BY ONLY <2>1, <2>2, <1>1, g \in [Redeems -> Int], SumFunctionUpdate
<1>5. SumFunction(DebitsDue)' = SumFunction(g)
  BY <1>3
<1>6. /\ DebitsDue[r] = IF redeem[r] = "debit" THEN RedeemOf[r].amount ELSE 0
      /\ g[r] = IF s = "debit" THEN RedeemOf[r].amount ELSE 0
  BY <1>2 DEF DebitsDue
<1> QED BY <1>1, <1>4, <1>5, <1>6

(***************************************************************************)
(* A change of one balance changes the sum of the balances by as much.     *)
(***************************************************************************)
LEMMA BalanceSum ==
    ASSUME balances \in [Owners -> Nat], NEW o \in Owners, NEW x \in Int,
           balances' = [balances EXCEPT ![o] = balances[o] + x]
    PROVE  SumFunction(balances)' = SumFunction(balances) + x
<1>1. PICK g \in [Owners -> Int] : g = [balances EXCEPT ![o] = balances[o] + x]
  <2>1. [balances EXCEPT ![o] = balances[o] + x] \in [Owners -> Int]
    OBVIOUS
  <2> QED BY <2>1
<1>2. balances \in [Owners -> Int] /\ IsFiniteSet(Owners) /\ o \in Owners
  BY BridgeAssumption
<1>3. \A k \in Owners \ {o} : g[k] = balances[k]
  BY <1>1
<1>4. SumFunction(g) = SumFunction(balances) - balances[o] + g[o]
  BY ONLY <1>2, <1>3, g \in [Owners -> Int], SumFunctionUpdate
<1>5. g[o] = balances[o] + x /\ balances[o] \in Int
  BY <1>1
<1>6. SumFunction(balances) \in Nat
  BY <1>2, SumFunctionNat
<1>7. SumFunction(balances)' = SumFunction(g)
  BY <1>1
<1> QED BY <1>4, <1>5, <1>6, <1>7

(***************************************************************************)
(* A step that stores no checkpoint and books nothing.                     *)
(***************************************************************************)
LEMMA AccountsKept ==
    ASSUME TotalAccountedFor, checkpoints' = checkpoints, balances' = balances,
           drift' = drift, CreditDue' = CreditDue,
           \A r \in Redeems : redeem'[r] = "debit" <=> redeem[r] = "debit"
    PROVE  TotalAccountedFor'
<1>1. DebitsDue' = DebitsDue
  BY DEF DebitsDue
<1>2. Latest' = Latest
  BY DEF Latest
<1> QED BY <1>1, <1>2 DEF TotalAccountedFor

(***************************************************************************)
(* updateWalrusCheckpoint: the worker's checkpoint adds its shares to the  *)
(* total they were read from; the credit is now due, and what the total    *)
(* lost by overwriting the latest one is the drift.                        *)
(***************************************************************************)
LEMMA WorkerSubmitsAccounted ==
    ASSUME TrackInv, WorkerSubmitsCheckpoint
    PROVE  TotalAccountedFor'
<1>1. BridgeInv /\ BridgeTypeOK /\ TotalAccountedFor /\ drift \in Int
  BY DEF TrackInv, BridgeInv, BridgeTypeOK
<1>2. PICK b \in Nat, t \in Nat, q \in Nat :
         worker.view.block = b /\ worker.view.total = t /\ worker.shares = q
  BY <1>1, WorkerHolds DEF WorkerSubmitsCheckpoint, Checkpoint
<1>3. /\ worker.pc = "submit" /\ SubmitCheckpoint(b + 1, t + q)
      /\ worker'.pc = "credit" /\ worker'.shares = q
      /\ balances' = balances /\ redeem' = redeem
      /\ drift' = drift + (t - Latest.total)
  BY <1>2 DEF WorkerSubmitsCheckpoint, Overwrites, redeemVars
<1>4. Latest'.total = t + q
  BY <1>1, <1>3, SubmitKeepsIds
<1>5. /\ Latest.total \in Nat /\ SumFunction(DebitsDue) \in Nat
      /\ SumFunction(balances) \in Nat
  BY <1>1, DueTypes
<1>6. CreditDue = 0 /\ CreditDue' = q /\ DebitsDue' = DebitsDue
  BY <1>3 DEF CreditDue, DebitsDue
<1>7. Latest.total + SumFunction(DebitsDue) = (SumFunction(balances) + 0) + drift
  BY <1>1, <1>6 DEF TotalAccountedFor
<1>8. ASSUME NEW x \in Nat, NEW y \in Nat, NEW z \in Nat, NEW w \in Int,
             x + y = (z + 0) + w
      PROVE  (t + q) + y = (z + q) + (w + (t - x))
  BY <1>8
<1>9. (t + q) + SumFunction(DebitsDue)
          = (SumFunction(balances) + q) + (drift + (t - Latest.total))
  BY <1>1, <1>5, <1>7, <1>8
<1> QED BY <1>3, <1>4, <1>6, <1>9 DEF TotalAccountedFor

(***************************************************************************)
(* updateWalrusCheckpointForRedeem: the burn leaves the total it was read  *)
(* from; the debit is now due.                                             *)
(***************************************************************************)
LEMMA RedeemSubmitsAccounted ==
    ASSUME TrackInv, NEW r \in Redeems, RedeemSubmitsCheckpoint(r)
    PROVE  TotalAccountedFor'
<1>1. BridgeInv /\ BridgeTypeOK /\ TotalAccountedFor /\ drift \in Int
  BY DEF TrackInv, BridgeInv, BridgeTypeOK
<1>2. PICK b \in Nat, t \in Nat, a \in Nat :
         view[r].block = b /\ view[r].total = t /\ RedeemOf[r].amount = a /\ a <= t
  BY <1>1, BridgeAssumption DEF BridgeTypeOK, BridgeInv, ViewCoversBurn, Checkpoint,
                                RedeemSubmitsCheckpoint
<1>3. /\ redeem[r] = "submit" /\ SubmitCheckpoint(b + 1, t - a)
      /\ redeem' = [redeem EXCEPT ![r] = "debit"]
      /\ balances' = balances /\ worker' = worker
      /\ drift' = drift + (t - Latest.total)
  BY <1>1, <1>2 DEF RedeemSubmitsCheckpoint, Overwrites, depositVars
<1>4. Latest'.total = t - a
  <2>1. b + 1 \in Nat /\ t - a \in Nat
    BY <1>2
  <2> QED BY <1>1, <1>3, <2>1, SubmitKeepsIds
<1>5. /\ Latest.total \in Nat /\ SumFunction(DebitsDue) \in Nat
      /\ SumFunction(balances) \in Nat /\ CreditDue \in Nat
  BY <1>1, DueTypes
<1>6. CreditDue' = CreditDue
  BY <1>3 DEF CreditDue
<1>7. SumFunction(DebitsDue)' = SumFunction(DebitsDue) + a
  BY <1>1, <1>2, <1>3, DebitDueChanges
<1>8. ASSUME NEW x \in Nat, NEW y \in Nat, NEW z \in Nat, NEW c \in Nat, NEW w \in Int,
             x + y = (z + c) + w
      PROVE  (t - a) + (y + a) = (z + c) + (w + (t - x))
  BY <1>8
<1>9. (t - a) + (SumFunction(DebitsDue) + a)
          = (SumFunction(balances) + CreditDue) + (drift + (t - Latest.total))
  BY <1>1, <1>5, <1>8 DEF TotalAccountedFor
<1> QED BY <1>3, <1>4, <1>6, <1>7, <1>9 DEF TotalAccountedFor

(***************************************************************************)
(* A post replaces the total by one of the monitor's own.                  *)
(***************************************************************************)
LEMMA PostAccounted ==
    ASSUME TrackInv, NEW cp \in Posted, PostCheckpoint(cp)
    PROVE  TotalAccountedFor'
<1>1. BridgeInv /\ BridgeTypeOK /\ TotalAccountedFor /\ drift \in Int
  BY DEF TrackInv, BridgeInv, BridgeTypeOK
<1>2. PICK b \in Nat, t \in Nat : cp.block = b /\ cp.total = t
  BY BridgeAssumption
<1>3. /\ SubmitCheckpoint(b, t) /\ drift' = drift + (t - Latest.total)
      /\ balances' = balances /\ worker' = worker /\ redeem' = redeem
  BY <1>2 DEF PostCheckpoint, depositVars, redeemVars
<1>4. Latest'.total = t
  BY <1>1, <1>3, SubmitKeepsIds
<1>5. /\ Latest.total \in Nat /\ SumFunction(DebitsDue) \in Nat
      /\ SumFunction(balances) \in Nat /\ CreditDue \in Nat
  BY <1>1, DueTypes
<1>6. CreditDue' = CreditDue /\ DebitsDue' = DebitsDue
  BY <1>3 DEF CreditDue, DebitsDue
<1>7. ASSUME NEW x \in Nat, NEW y \in Nat, NEW z \in Nat, NEW c \in Nat, NEW w \in Int,
             x + y = (z + c) + w
      PROVE  t + y = (z + c) + (w + (t - x))
  BY <1>7
<1>8. t + SumFunction(DebitsDue)
          = (SumFunction(balances) + CreditDue) + (drift + (t - Latest.total))
  BY <1>1, <1>5, <1>7 DEF TotalAccountedFor
<1> QED BY <1>3, <1>4, <1>6, <1>8 DEF TotalAccountedFor

(***************************************************************************)
(* CreditDeposit books the credit that was due, or refuses one of nothing. *)
(***************************************************************************)
LEMMA CreditAccounted ==
    ASSUME TrackInv, WorkerCredits
    PROVE  TotalAccountedFor'
<1>1. /\ BridgeTypeOK /\ TotalAccountedFor /\ worker.pc = "credit"
      /\ balances \in [Owners -> Nat]
  BY DEF TrackInv, BridgeInv, WorkerCredits, BridgeTypeOK
<1>2. PICK q \in Nat, o \in Owners : worker.shares = q /\ DepositOf[worker.job].owner = o
  BY <1>1, WorkerHolds, BridgeAssumption
<1>3. /\ checkpoints' = checkpoints /\ redeem' = redeem /\ drift' = drift
      /\ worker'.pc \in {"idle", "mint_f"}
      /\ \/ balances' = [balances EXCEPT ![o] = balances[o] + q]
         \/ balances' = balances /\ q = 0
  BY <1>2 DEF WorkerCredits, CreditDeposit, Reply, Idle, redeemVars
<1>4. SumFunction(balances) \in Nat
  BY <1>1, DueTypes
<1>5. SumFunction(balances)' = SumFunction(balances) + q
  <2>1. CASE balances' = [balances EXCEPT ![o] = balances[o] + q]
    <3>1. q \in Int
      OBVIOUS
    <3> QED BY ONLY <1>1, <2>1, <3>1, o \in Owners, BridgeAssumption, BalanceSum
  <2>2. CASE balances' = balances /\ q = 0
    BY <1>4, <2>2
  <2> QED BY <1>3, <2>1, <2>2
<1>6. CreditDue = q /\ CreditDue' = 0 /\ DebitsDue' = DebitsDue /\ Latest' = Latest
  BY <1>1, <1>2, <1>3 DEF CreditDue, DebitsDue, Latest
<1>7. Latest.total + SumFunction(DebitsDue) = (SumFunction(balances) + q) + drift
  BY <1>1, <1>6 DEF TotalAccountedFor
<1>8. SumFunction(balances) + q = (SumFunction(balances) + q) + 0
  BY <1>4
<1> QED BY <1>3, <1>5, <1>6, <1>7, <1>8 DEF TotalAccountedFor

(***************************************************************************)
(* DebitWithdrawal books the debit that was due; a refused one leaves its  *)
(* burn out of the total.                                                  *)
(***************************************************************************)
LEMMA DebitAccounted ==
    ASSUME TrackInv, NEW r \in Redeems, RedeemDebits(r)
    PROVE  TotalAccountedFor'
<1>1. /\ BridgeTypeOK /\ TotalAccountedFor /\ balances \in [Owners -> Nat]
      /\ drift \in Int
  BY DEF TrackInv, BridgeInv, BridgeTypeOK
<1>2. PICK a \in Nat, o \in Owners : RedeemOf[r].amount = a /\ RedeemOf[r].owner = o
  BY BridgeAssumption
<1>3. PICK s \in {"payout", "failed"} : redeem' = [redeem EXCEPT ![r] = s]
  BY DEF RedeemDebits
<1>4. CreditDue' = CreditDue /\ Latest' = Latest
  BY DEF RedeemDebits, depositVars, CreditDue, Latest
<1>5. SumFunction(DebitsDue)' = SumFunction(DebitsDue) - a
  <2>1. redeem[r] = "debit" /\ s # "debit" /\ redeem' = [redeem EXCEPT ![r] = s]
    BY <1>3 DEF RedeemDebits
  <2>2. /\ redeem[r] # "debit" /\ s = "debit"
             => SumFunction(DebitsDue)' = SumFunction(DebitsDue) + RedeemOf[r].amount
        /\ redeem[r] = "debit" /\ s # "debit"
             => SumFunction(DebitsDue)' = SumFunction(DebitsDue) - RedeemOf[r].amount
    BY <1>1, <2>1, DebitDueChanges, Zenon
  <2> QED BY <1>2, <2>1, <2>2
<1>6. /\ Latest.total \in Nat /\ SumFunction(DebitsDue) \in Nat
      /\ SumFunction(balances) \in Nat /\ CreditDue \in Nat
  BY <1>1, DueTypes
<1>7. ASSUME NEW x \in Nat, NEW y \in Nat, NEW z \in Nat, NEW c \in Nat, NEW w \in Int,
             x + y = (z + c) + w
      PROVE  /\ x + (y - a) = ((z + (0 - a)) + c) + w
             /\ x + (y - a) = (z + c) + (w - a)
  BY <1>7
<1>8. /\ Latest.total + (SumFunction(DebitsDue) - a)
            = ((SumFunction(balances) + (0 - a)) + CreditDue) + drift
      /\ Latest.total + (SumFunction(DebitsDue) - a)
            = (SumFunction(balances) + CreditDue) + (drift - a)
  BY <1>1, <1>6, <1>7 DEF TotalAccountedFor
<1>9. CASE DebitWithdrawal(RedeemOf[r].owner, RedeemOf[r].amount) /\ UNCHANGED drift
  <2>1. balances' = [balances EXCEPT ![o] = balances[o] + (0 - a)]
    <3>1. balances' = [balances EXCEPT ![o] = balances[o] - a]
      BY <1>2, <1>9 DEF DebitWithdrawal
    <3>2. balances[o] \in Nat
      BY <1>1
    <3>3. balances[o] - a = balances[o] + (0 - a)
      BY <3>2
    <3> QED BY <3>1, <3>3
  <2>2. SumFunction(balances)' = SumFunction(balances) + (0 - a)
    <3>1. 0 - a \in Int
      OBVIOUS
    <3> QED BY ONLY <1>1, <2>1, <3>1, o \in Owners, BridgeAssumption, BalanceSum
  <2> QED BY <1>4, <1>5, <1>8, <1>9, <2>2 DEF TotalAccountedFor
<1>10. CASE drift' = drift - RedeemOf[r].amount /\ UNCHANGED balances
  BY <1>2, <1>4, <1>5, <1>8, <1>10 DEF TotalAccountedFor
<1> QED BY <1>9, <1>10 DEF RedeemDebits

(***************************************************************************)
(* The seeded total is the sum of the seeded balances.                     *)
(***************************************************************************)
LEMMA InitAccounted ==
    ASSUME Init
    PROVE  TrackInv
<1>1. BridgeInv /\ BridgeTypeOK
  BY InitInv DEF BridgeInv
<1>2. Latest = Seed /\ drift = 0
  BY DEF Init, Latest
<1>3. DebitsDue \in [Redeems -> Nat] /\ SumFunction(balances) \in Nat
  BY <1>1, DueTypes
<1>4. \A r \in Redeems : DebitsDue[r] = 0
  BY DEF Init, DebitsDue
<1>5. SumFunction(DebitsDue) = 0
  <2>1. DebitsDue \in [Redeems -> Int] /\ IsFiniteSet(Redeems)
    BY <1>3, BridgeAssumption
  <2> QED BY ONLY <2>1, <1>4, SumFunctionZero
<1>6. Latest.total = SumFunction(balances) /\ CreditDue = 0
  BY <1>2 DEF Seed, Init, CreditDue, Idle
<1> QED BY <1>1, <1>2, <1>3, <1>5, <1>6 DEF TrackInv, TotalAccountedFor

(***************************************************************************)
(* Every step accounts for what it does to the total and the balances.     *)
(***************************************************************************)
LEMMA NextAccounted ==
    ASSUME TrackInv, [Next]_vars
    PROVE  TrackInv'
<1> USE DEF serviceVars, depositVars, redeemVars
<1>1. BridgeInv /\ BridgeInv' /\ BridgeTypeOK /\ TotalAccountedFor
  BY NextInv DEF TrackInv, BridgeInv
<1> SUFFICES TotalAccountedFor'
  BY <1>1 DEF TrackInv
<1>2. ASSUME NEW d \in Deposits,
             SubmitDeposit(d) \/ Enqueue(d) \/ ReceiveResult(d) \/ GiveUp(d)
      PROVE  TotalAccountedFor'
  <2>1. UNCHANGED <<checkpoints, balances, drift, redeem, worker>>
    BY <1>2 DEF SubmitDeposit, Enqueue, ReceiveResult, GiveUp
  <2> QED BY <1>1, <2>1, AccountsKept DEF CreditDue
<1>3. CASE WorkerStep
  <2>1. CASE WorkerSubmitsCheckpoint
    BY <2>1, WorkerSubmitsAccounted
  <2>2. CASE WorkerCredits
    BY <2>2, CreditAccounted
  <2>3. CASE TakeJob \/ FetchPrice \/ ReadLatest \/ MintFTokens \/ MintXTokens
    <3>1. UNCHANGED <<checkpoints, balances, drift, redeem>>
      BY <2>3 DEF TakeJob, FetchPrice, ReadLatest, MintFTokens, MintXTokens
    <3>2. worker.pc # "credit" /\ worker'.pc # "credit"
      BY <2>3 DEF TakeJob, FetchPrice, ReadLatest, MintFTokens, MintXTokens, Reply, Idle
    <3> QED BY <1>1, <3>1, <3>2, AccountsKept DEF CreditDue
  <2> QED BY <1>3, <2>1, <2>2, <2>3 DEF WorkerStep
<1>4. ASSUME NEW r \in Redeems, RedeemStep(r)
      PROVE  TotalAccountedFor'
  <2>0. redeem \in [Redeems -> RedeemStates]
    BY <1>1 DEF BridgeTypeOK
  <2>1. ASSUME UNCHANGED <<checkpoints, balances, drift, worker>>,
               NEW s, redeem' = [redeem EXCEPT ![r] = s], redeem[r] # "debit", s # "debit"
        PROVE  TotalAccountedFor'
    <3>1. CreditDue' = CreditDue
      BY <2>1 DEF CreditDue
    <3>2. \A k \in Redeems : redeem'[k] = "debit" <=> redeem[k] = "debit"
      BY <2>0, <2>1
    <3> QED BY <1>1, <2>1, <3>1, <3>2, AccountsKept
  <2>2. CASE RedeemFetchesPrice(r)
    <3>1. \E s \in {"read", "failed"} : redeem' = [redeem EXCEPT ![r] = s]
      BY <2>2 DEF RedeemFetchesPrice
    <3>2. UNCHANGED <<checkpoints, balances, drift, worker>> /\ redeem[r] = "idle"
      BY <2>2 DEF RedeemFetchesPrice
    <3> QED BY <2>1, <3>1, <3>2
  <2>3. CASE RedeemReadsLatest(r)
    <3>1. UNCHANGED <<checkpoints, balances, drift, worker>> /\ redeem[r] = "read"
      BY <2>3 DEF RedeemReadsLatest
    <3>2. \E s \in {"submit", "failed"} : redeem' = [redeem EXCEPT ![r] = s]
      BY <2>3 DEF RedeemReadsLatest
    <3> QED BY <2>1, <3>1, <3>2
  <2>4. CASE RedeemSubmitsCheckpoint(r)
    BY <2>4, RedeemSubmitsAccounted
  <2>5. CASE RedeemDebits(r)
    BY <2>5, DebitAccounted
  <2>6. CASE RedeemPays(r)
    <3>1. UNCHANGED <<checkpoints, balances, drift, worker>> /\ redeem[r] = "payout"
      BY <2>6 DEF RedeemPays
    <3>2. \E s \in {"paid", "debited_unpaid", "receipt_only"} :
             redeem' = [redeem EXCEPT ![r] = s]
      BY <2>6 DEF RedeemPays, PayoutOutcomes
    <3> QED BY <2>1, <3>1, <3>2
  <2> QED BY <1>4, <2>2, <2>3, <2>4, <2>5, <2>6 DEF RedeemStep
<1>5. ASSUME NEW cp \in Posted, PostCheckpoint(cp)
      PROVE  TotalAccountedFor'
  BY <1>5, PostAccounted
<1>6. CASE PostElsewhere \/ StopWorker
  <2>1. UNCHANGED <<checkpoints, balances, drift, redeem>>
    BY <1>6 DEF PostElsewhere, StopWorker
  <2>2. CreditDue' = CreditDue
    BY <1>6 DEF PostElsewhere, StopWorker, CreditDue
  <2> QED BY <1>1, <2>1, <2>2, AccountsKept
<1>7. CASE UNCHANGED vars
  <2>1. UNCHANGED <<checkpoints, balances, drift, redeem, worker>>
    BY <1>7 DEF vars
  <2> QED BY <1>1, <2>1, AccountsKept DEF CreditDue
<1>8. CASE Next
  BY <1>2, <1>3, <1>4, <1>5, <1>6, <1>8 DEF Next
<1> QED BY <1>7, <1>8

(***************************************************************************)
(* For any number of deposits, redeems and posts, in any interleaving, the *)
(* latest total is the sum of the balances, but for what is still to be    *)
(* booked and for what was overwritten, posted or refused on the way.      *)
(***************************************************************************)
THEOREM BridgeTotalAccountedFor == Spec => []TotalAccountedFor
<1>1. TrackInv => TotalAccountedFor
  BY DEF TrackInv
<1>2. TrackInv /\ [Next]_vars => TrackInv'
  BY NextAccounted
<1> QED BY <1>1, <1>2, InitAccounted, PTL DEF Spec

=============================================================================
