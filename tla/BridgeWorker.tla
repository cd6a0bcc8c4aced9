---------------------------- MODULE BridgeWorker ----------------------------
(***************************************************************************)
(* The bridge between an Ethereum vault and Sui kept by the backend:       *)
(* internal/crosschain/bridge_worker.go on top of the in-memory Service of *)
(* service.go, for one chain and asset.                                    *)
(*                                                                         *)
(* Deposits go through a bounded channel to ONE worker goroutine; every    *)
(* redeem (an HTTP request or a bridge_redeem event) runs in a goroutine   *)
(* of its own.  Both read the latest checkpoint, publish it with new       *)
(* totals, and only then submit it: the Service locks each call, nothing   *)
(* locks the sequence of calls.  A monitor may post checkpoints of its own *)
(* over HTTP.  An action is what runs between two calls that can be        *)
(* interleaved: a Service method, a channel operation or a remote call     *)
(* (price, mint, payout), which may fail.                                  *)
(*                                                                         *)
(* The index and the derived valuation of balances are left out; an        *)
(* invalid request is rejected before it changes anything.  Publishing to  *)
(* Walrus only chooses a blob id (a failure falls back to a synthetic      *)
(* one), so it is the gap between reading and submitting a checkpoint.     *)
(*                                                                         *)
(* The key is ETHEREUM:ETH: the one fetchUSDPrice has a price for, so the  *)
(* only one for which a deposit or a redeem gets as far as a checkpoint.   *)
(* It is seeded, so there always is a latest checkpoint.                   *)
(***************************************************************************)
EXTENDS Integers, Sequences, FiniteSets, Functions

CONSTANTS
    Owners,            \* Sui addresses
    Deposits,          \* calls of Submit
    Redeems,           \* calls of Redeem
    DepositOf,         \* deposit -> [owner, eth]
    RedeemOf,          \* redeem -> [owner, token, amount]
    SeedShares,        \* owner -> shares in the seeded balances
    SeedBlock,         \* block number of the seeded checkpoint
    Prices,            \* USD prices the exchange may answer
    Posted,            \* [block, total] of checkpoints posted over HTTP
    MaxPosts,          \* bound: no checkpoint is posted beyond this update id
    QueueCap,          \* 64: capacity of the jobs channel
    HasMintHandler,    \* whether a MintHandler is configured
    HasPayoutHandler   \* whether a PayoutHandler is configured

ASSUME BridgeAssumption ==
    /\ IsFiniteSet(Owners) /\ IsFiniteSet(Deposits) /\ IsFiniteSet(Redeems)
    /\ DepositOf \in [Deposits -> [owner : Owners, eth : Nat \ {0}]]
    /\ RedeemOf \in [Redeems -> [owner : Owners, token : {"f", "x"}, amount : Nat \ {0}]]
    /\ SeedShares \in [Owners -> Nat]
    /\ SeedBlock \in Nat
    /\ Prices \subseteq Nat \ {0}
    /\ Posted \subseteq [block : Nat, total : Nat]
    /\ MaxPosts \in Nat
    /\ QueueCap \in Nat \ {0}
    /\ HasMintHandler \in BOOLEAN /\ HasPayoutHandler \in BOOLEAN

VARIABLES
    checkpoints,       \* Service.checkpoints, oldest first
    updateCounter,     \* Service.updateCounter
    balances,          \* Service.balances: shares per owner
    drift,             \* shares the latest total gained or lost against the
                       \* balances: by overwriting what others stored, by a
                       \* post, by a debit that was refused (history)
    jobs,              \* the jobs channel
    result,            \* the result channel of each job (capacity 1)
    client,            \* where each call of Submit is
    worker,            \* the worker goroutine: its step, job, shares and view
    credited,          \* shares credited for each deposit (history)
    minted,            \* tokens minted on Sui for each deposit
    redeem,            \* where each call of Redeem is
    view,              \* the checkpoint each redeem read
    payout             \* ETH each redeem is to pay, then has paid

serviceVars == <<checkpoints, updateCounter, balances, drift>>
depositVars == <<jobs, result, client, worker, credited, minted>>
redeemVars == <<redeem, view, payout>>
vars == <<serviceVars, depositVars, redeemVars>>

Latest == checkpoints[Len(checkpoints)]

Checkpoint == [update_id : Nat, block : Nat, total : Nat]

\* splitMintAmounts: half the value in fTokens at one dollar, half in xTokens
\* at the price; the shares credited are the sum of both.
MintF(eth, price) == (eth * price) \div 2
MintX(eth, price) == ((eth * price) \div 2) \div price
MintShares(eth, price) == MintF(eth, price) + MintX(eth, price)

\* Redeem: fTokens are paid at the price, xTokens one for one
PayoutEth(r, price) ==
    IF RedeemOf[r].token = "f" THEN RedeemOf[r].amount \div price ELSE RedeemOf[r].amount

-----------------------------------------------------------------------------
(* Service: each operation runs under its mutex. *)

\* Mutant: the id is the counter before it is incremented
SubmitCheckpointOldId(block, total) ==
    /\ updateCounter' = updateCounter + 1
    /\ checkpoints' = Append(checkpoints,
           [update_id |-> updateCounter, block |-> block, total |-> total])

SubmitCheckpoint(block, total) ==
    /\ updateCounter' = updateCounter + 1
    /\ checkpoints' = Append(checkpoints,
           [update_id |-> updateCounter', block |-> block, total |-> total])

\* what is stored takes the place of whatever became the latest after v was read
Overwrites(v) == drift' = drift + (v.total - Latest.total)

CreditDeposit(owner, shares) ==
    /\ shares > 0
    /\ balances' = [balances EXCEPT ![owner] = @ + shares]

\* Mutant: the balance is not checked again under the lock
DebitUnchecked(owner, shares) == balances' = [balances EXCEPT ![owner] = @ - shares]

DebitWithdrawal(owner, shares) ==
    /\ shares <= balances[owner]
    /\ balances' = [balances EXCEPT ![owner] = @ - shares]

-----------------------------------------------------------------------------
(* Submit: the caller's side. *)

SubmitDeposit(d) ==
    /\ client[d] = "idle"
    /\ client' = [client EXCEPT ![d] = "sending"]
    /\ UNCHANGED <<serviceVars, redeemVars, jobs, result, worker, credited, minted>>

Enqueue(d) ==
    /\ client[d] = "sending"
    /\ Len(jobs) < QueueCap
    /\ jobs' = Append(jobs, d)
    /\ client' = [client EXCEPT ![d] = "waiting"]
    /\ UNCHANGED <<serviceVars, redeemVars, result, worker, credited, minted>>

ReceiveResult(d) ==
    /\ client[d] = "waiting"
    /\ result[d] # "none"
    /\ client' = [client EXCEPT ![d] = "answered"]
    /\ UNCHANGED <<serviceVars, redeemVars, jobs, result, worker, credited, minted>>

\* The request's context ends; a job already queued stays queued.
GiveUp(d) ==
    /\ client[d] \in {"sending", "waiting"}
    /\ client' = [client EXCEPT ![d] = "gone"]
    /\ UNCHANGED <<serviceVars, redeemVars, jobs, result, worker, credited, minted>>

-----------------------------------------------------------------------------
(* The worker goroutine: Start's loop, handle and updateWalrusCheckpoint.  *)

Idle == [pc |-> "idle"]

\* the application's context ends: the goroutine returns, whatever is queued
StopWorker ==
    /\ worker.pc = "idle"
    /\ worker' = [pc |-> "stopped"]
    /\ UNCHANGED <<serviceVars, redeemVars, jobs, result, client, credited, minted>>

TakeJob ==
    /\ worker.pc = "idle"
    /\ jobs # <<>>
    /\ worker' = [pc |-> "price", job |-> Head(jobs)]
    /\ jobs' = Tail(jobs)
    /\ UNCHANGED <<serviceVars, redeemVars, result, client, credited, minted>>

\* Mutant: the result channel has no buffer, so sending waits for the caller
ReplyUnbuffered(d, outcome) ==
    /\ client[d] = "waiting"
    /\ result' = [result EXCEPT ![d] = outcome]
    /\ worker' = Idle

\* job.result <- result: capacity 1, so the worker never waits for the caller
Reply(d, outcome) ==
    /\ result' = [result EXCEPT ![d] = outcome]
    /\ worker' = Idle

FetchPrice ==
    /\ worker.pc = "price"
    /\ \/ /\ \E p \in Prices :
                worker' = [pc |-> "read", job |-> worker.job,
                           shares |-> MintShares(DepositOf[worker.job].eth, p)]
          /\ UNCHANGED result
       \/ Reply(worker.job, "error")
    /\ UNCHANGED <<serviceVars, redeemVars, jobs, client, credited, minted>>

ReadLatest ==
    /\ worker.pc = "read"
    /\ worker' = [pc |-> "submit", job |-> worker.job, shares |-> worker.shares,
                  view |-> Latest]
    /\ UNCHANGED <<serviceVars, redeemVars, jobs, result, client, credited, minted>>

\* Mutant: a deposit is credited although the checkpoint failed to count it
WorkerSkipsCheckpoint ==
    /\ worker.pc = "submit"
    /\ worker' = [pc |-> "credit", job |-> worker.job, shares |-> worker.shares]
    /\ UNCHANGED <<serviceVars, redeemVars, jobs, result, client, credited, minted>>

WorkerSubmitsCheckpoint ==
    /\ worker.pc = "submit"
    /\ SubmitCheckpoint(worker.view.block + 1, worker.view.total + worker.shares)
    /\ Overwrites(worker.view)
    /\ worker' = [pc |-> "credit", job |-> worker.job, shares |-> worker.shares]
    /\ UNCHANGED <<balances, redeemVars, jobs, result, client, credited, minted>>

\* CreditDeposit refuses a deposit too small for a share; the checkpoint stays
WorkerCredits ==
    /\ worker.pc = "credit"
    /\ \/ /\ CreditDeposit(DepositOf[worker.job].owner, worker.shares)
          /\ credited' = [credited EXCEPT ![worker.job] = worker.shares]
          /\ \/ /\ HasMintHandler
                /\ worker' = [pc |-> "mint_f", job |-> worker.job]
                /\ UNCHANGED result
             \/ /\ ~HasMintHandler
                /\ Reply(worker.job, "ok")
       \/ /\ worker.shares = 0
          /\ Reply(worker.job, "error")
          /\ UNCHANGED <<balances, credited>>
    /\ UNCHANGED <<checkpoints, updateCounter, drift, redeemVars, jobs, client, minted>>

(***************************************************************************)
(* SuiBridgeMinter.Mint: one transaction for each token.  Each may fail,   *)
(* and one whose answer is lost or late (40 s) is reported as failed       *)
(* although it minted.                                                     *)
(***************************************************************************)
MintFTokens ==
    /\ worker.pc = "mint_f"
    /\ \/ /\ minted' = [minted EXCEPT ![worker.job] = {"f"}]
          /\ worker' = [pc |-> "mint_x", job |-> worker.job]
          /\ UNCHANGED result
       \/ /\ \E S \in {{}, {"f"}} : minted' = [minted EXCEPT ![worker.job] = S]
          /\ Reply(worker.job, "error")
    /\ UNCHANGED <<serviceVars, redeemVars, jobs, client, credited>>

MintXTokens ==
    /\ worker.pc = "mint_x"
    /\ \/ /\ minted' = [minted EXCEPT ![worker.job] = @ \cup {"x"}]
          /\ Reply(worker.job, "ok")
       \/ /\ \E S \in {{}, {"x"}} : minted' = [minted EXCEPT ![worker.job] = @ \cup S]
          /\ Reply(worker.job, "error")
    /\ UNCHANGED <<serviceVars, redeemVars, jobs, client, credited>>

-----------------------------------------------------------------------------
(* Redeem and updateWalrusCheckpointForRedeem. *)

RedeemFetchesPrice(r) ==
    /\ redeem[r] = "idle"
    /\ \/ \E p \in Prices :
             /\ PayoutEth(r, p) > 0
             /\ payout' = [payout EXCEPT ![r] = PayoutEth(r, p)]
             /\ redeem' = [redeem EXCEPT ![r] = "read"]
       \/ /\ redeem' = [redeem EXCEPT ![r] = "failed"]
          /\ UNCHANGED payout
    /\ UNCHANGED <<serviceVars, depositVars, view>>

\* Mutant: the burn is not compared with the total
RedeemReadsUnchecked(r) ==
    /\ redeem[r] = "read"
    /\ view' = [view EXCEPT ![r] = Latest]
    /\ redeem' = [redeem EXCEPT ![r] = "submit"]
    /\ UNCHANGED <<serviceVars, depositVars, payout>>

RedeemReadsLatest(r) ==
    /\ redeem[r] = "read"
    /\ \/ /\ RedeemOf[r].amount <= Latest.total
          /\ view' = [view EXCEPT ![r] = Latest]
          /\ redeem' = [redeem EXCEPT ![r] = "submit"]
       \/ /\ RedeemOf[r].amount > Latest.total      \* burn exceeds tracked shares
          /\ redeem' = [redeem EXCEPT ![r] = "failed"]
          /\ UNCHANGED view
    /\ UNCHANGED <<serviceVars, depositVars, payout>>

RedeemSubmitsCheckpoint(r) ==
    /\ redeem[r] = "submit"
    /\ SubmitCheckpoint(view[r].block + 1, view[r].total - RedeemOf[r].amount)
    /\ Overwrites(view[r])
    /\ redeem' = [redeem EXCEPT ![r] = "debit"]
    /\ UNCHANGED <<balances, depositVars, view, payout>>

\* A refused debit leaves the checkpoint that already counted it.
RedeemDebits(r) ==
    /\ redeem[r] = "debit"
    /\ \/ /\ DebitWithdrawal(RedeemOf[r].owner, RedeemOf[r].amount)
          /\ redeem' = [redeem EXCEPT ![r] = "payout"]
          /\ UNCHANGED drift
       \/ /\ RedeemOf[r].amount > balances[RedeemOf[r].owner]
          /\ redeem' = [redeem EXCEPT ![r] = "failed"]
          /\ drift' = drift - RedeemOf[r].amount
          /\ UNCHANGED balances
    /\ UNCHANGED <<checkpoints, updateCounter, depositVars, view, payout>>

\* The debit is not undone when the payout handler fails; with no handler the
\* receipt is returned all the same.
PayoutOutcomes ==
    IF HasPayoutHandler THEN {"paid", "debited_unpaid"} ELSE {"receipt_only"}

RedeemPays(r) ==
    /\ redeem[r] = "payout"
    /\ \E outcome \in PayoutOutcomes : redeem' = [redeem EXCEPT ![r] = outcome]
    /\ UNCHANGED <<serviceVars, depositVars, view, payout>>

\* The monitor's request (api SubmitCheckpoint): any block, the next one included,
\* and any total (a negative one is accepted too, and left out here)
PostCheckpoint(cp) ==
    /\ updateCounter < MaxPosts
    /\ SubmitCheckpoint(cp.block, cp.total)
    /\ drift' = drift + (cp.total - Latest.total)
    /\ UNCHANGED <<balances, depositVars, redeemVars>>

\* A post for another chain or asset goes to a list of its own and only takes a
\* number from the counter they share.
PostElsewhere ==
    /\ updateCounter < MaxPosts
    /\ updateCounter' = updateCounter + 1
    /\ UNCHANGED <<checkpoints, balances, drift, depositVars, redeemVars>>

-----------------------------------------------------------------------------

\* seedDefaults: one verified checkpoint whose total is the seeded balance
Seed == [update_id |-> 1, block |-> SeedBlock, total |-> SumFunction(SeedShares)]

Init ==
    /\ checkpoints = <<Seed>>
    /\ updateCounter = 1
    /\ balances = SeedShares
    /\ drift = 0
    /\ jobs = <<>>
    /\ result = [d \in Deposits |-> "none"]
    /\ client = [d \in Deposits |-> "idle"]
    /\ worker = Idle
    /\ credited = [d \in Deposits |-> 0]
    /\ minted = [d \in Deposits |-> {}]
    /\ redeem = [r \in Redeems |-> "idle"]
    /\ view = [r \in Redeems |-> Seed]
    /\ payout = [r \in Redeems |-> 0]

WorkerStep ==
    \/ TakeJob
    \/ FetchPrice
    \/ ReadLatest
    \/ WorkerSubmitsCheckpoint
    \/ WorkerCredits
    \/ MintFTokens
    \/ MintXTokens

RedeemStep(r) ==
    \/ RedeemFetchesPrice(r)
    \/ RedeemReadsLatest(r)
    \/ RedeemSubmitsCheckpoint(r)
    \/ RedeemDebits(r)
    \/ RedeemPays(r)

Next ==
    \/ \E d \in Deposits : SubmitDeposit(d)
    \/ \E d \in Deposits : Enqueue(d)
    \/ \E d \in Deposits : ReceiveResult(d)
    \/ \E d \in Deposits : GiveUp(d)
    \/ WorkerStep
    \/ StopWorker
    \/ \E r \in Redeems : RedeemStep(r)
    \/ \E cp \in Posted : PostCheckpoint(cp)
    \/ PostElsewhere

Spec == Init /\ [][Next]_vars

(***************************************************************************)
(* The worker goroutine and a started redeem keep running, their remote    *)
(* calls return (with an answer or an error), a caller whose result is     *)
(* there receives it, and a blocked send on the jobs channel is served in  *)
(* its turn: Go queues the senders of a full channel first in first out.   *)
(* Nothing obliges a caller to give up or to call.                         *)
(***************************************************************************)
FairSpec ==
    /\ Spec
    /\ WF_vars(WorkerStep)
    /\ \A d \in Deposits : SF_vars(Enqueue(d)) /\ WF_vars(ReceiveResult(d))
    /\ \A r \in Redeems : WF_vars(redeem[r] # "idle" /\ RedeemStep(r))

-----------------------------------------------------------------------------

ClientStates == {"idle", "sending", "waiting", "answered", "gone"}
RedeemStates == {"idle", "read", "submit", "debit", "payout", "failed",
                 "paid", "debited_unpaid", "receipt_only"}

\* what the worker goroutine holds at each of its steps
WorkerType ==
    [pc : {"idle", "stopped"}]
        \cup [pc : {"price", "mint_f", "mint_x"}, job : Deposits]
        \cup [pc : {"read", "credit"}, job : Deposits, shares : Nat]
        \cup [pc : {"submit"}, job : Deposits, shares : Nat, view : Checkpoint]

(***************************************************************************)
(* Type invariant.  That totals and balances are naturals says that no     *)
(* burn takes a total or a balance below zero.                             *)
(***************************************************************************)
BridgeTypeOK ==
    /\ checkpoints \in Seq(Checkpoint) /\ checkpoints # <<>>
    /\ updateCounter \in Nat
    /\ balances \in [Owners -> Nat]
    /\ drift \in Int
    /\ jobs \in Seq(Deposits)
    /\ result \in [Deposits -> {"none", "ok", "error"}]
    /\ client \in [Deposits -> ClientStates]
    /\ worker \in WorkerType
    /\ credited \in [Deposits -> Nat]
    /\ minted \in [Deposits -> SUBSET {"f", "x"}]
    /\ redeem \in [Redeems -> RedeemStates]
    /\ view \in [Redeems -> Checkpoint]
    /\ payout \in [Redeems -> Nat]

(***************************************************************************)
(* Update ids grow in the order in which the checkpoints are stored and    *)
(* none is given twice, whatever the interleaving of the worker, the       *)
(* redeem goroutines and the posts for this and for other assets           *)
(* (SubmitCheckpoint; "Monotonic update counter").                         *)
(***************************************************************************)
UpdateIdsMonotonic ==
    /\ \A i \in 1 .. Len(checkpoints) - 1 :
          checkpoints[i].update_id < checkpoints[i + 1].update_id
    /\ Latest.update_id <= updateCounter

\* shares owner o burned in redeems that paid, or were about to
Burned == {"payout", "paid", "debited_unpaid", "receipt_only"}

Burns(o) ==
    [r \in Redeems |->
        IF RedeemOf[r].owner = o /\ redeem[r] \in Burned THEN RedeemOf[r].amount ELSE 0]

BurnedBy(o) == SumFunction(Burns(o))

\* shares credited to owner o
Credits(o) == [d \in Deposits |-> IF DepositOf[d].owner = o THEN credited[d] ELSE 0]

CreditedTo(o) == SumFunction(Credits(o))

(***************************************************************************)
(* Nobody is paid for more shares than were credited to them: concurrent   *)
(* redeems of one owner, each of which saw enough shares in the checkpoint *)
(* it read, cannot be paid from the same balance twice.                    *)
(***************************************************************************)
PaidCovered == \A o \in Owners : BurnedBy(o) <= SeedShares[o] + CreditedTo(o)

\* shares in the latest total that are not in the balances yet, and shares
\* out of the total that are still in the balances
CreditDue == IF worker.pc = "credit" THEN worker.shares ELSE 0
DebitsDue == [r \in Redeems |-> IF redeem[r] = "debit" THEN RedeemOf[r].amount ELSE 0]

(***************************************************************************)
(* The latest total differs from the sum of the balances by the credit and *)
(* the debits that are still to be booked and by exactly what was lost or  *)
(* added on the way: the updates of others that a goroutine overwrote      *)
(* because it had read the total before them, a monitor's post, and the    *)
(* burns whose debit was refused.  There is no fourth way for the two to   *)
(* part: with none of these the total is the sum (TotalShares: "Total      *)
(* vault shares"; updateWalrusCheckpoint, updateWalrusCheckpointForRedeem, *)
(* CreditDeposit, DebitWithdrawal).                                        *)
(***************************************************************************)
TotalAccountedFor ==
    Latest.total + SumFunction(DebitsDue) = (SumFunction(balances) + CreditDue) + drift

(***************************************************************************)
(* Every call of Submit returns, even though callers may leave while their *)
(* job is queued or running and the channel may be full, unless the worker *)
(* is stopped.                                                             *)
(***************************************************************************)
EverySubmitReturns ==
    \A d \in Deposits :
        client[d] = "sending" ~> (client[d] \in {"answered", "gone"} \/ worker.pc = "stopped")

(***************************************************************************)
(* A queued deposit is handled to its end, whether or not its caller is    *)
(* still there: an abandoned job never blocks the worker.                  *)
(***************************************************************************)
QueuedJobHandled ==
    \A d \in Deposits :
        (\E i \in 1 .. Len(jobs) : jobs[i] = d) ~> (result[d] # "none" \/ worker.pc = "stopped")

\* Deposits make progress: callers come back and jobs are handled (Submit, Start).
DepositsProgress == EverySubmitReturns /\ QueuedJobHandled

=============================================================================
