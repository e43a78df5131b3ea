# A TLA+ model of the liquid staking program

The repository holds one Solana program,
`src/programs/marinade-forking-smart-contract`: a fork of a liquid staking
protocol. Users give lamports (or whole stake accounts) and get mSOL, whose
price rises with the staking rewards; a bot stakes what the reserve has too
much of and unstakes what tickets need; a liquidity pool pays for instant
unstaking. This directory models the whole program in TLA+, checks it with TLC
on small instances, and proves all its safety properties but one (what the
events tell) for all instances with TLAPS.

Paths below are relative to `src/programs/marinade-forking-smart-contract/src`.

## 1. The system

| Component | State it keeps | Operations |
|---|---|---|
| State (`state/mod.rs`) | virtual reserve, mSOL supply, ticket counters, emergency cooling, moved stake, fees and limits, pause | price, `stake_delta`, transfers, `on_stake_moved` |
| User instructions (`instructions/user`) | – (writes State, lists, pool) | deposit, deposit_stake_account, withdraw_stake_account |
| Delayed unstake (`instructions/delayed_unstake`) | one account per ticket | order_unstake, claim |
| Crank (`instructions/crank`) | – (writes State and both lists) | update_active, update_deactivated, stake_reserve, deactivate_stake, merge_stakes, redelegate |
| Management (`instructions/management`) | – | add_validator, remove_validator, set_validator_score, config_validator_system, emergency_unstake, partial_unstake |
| Liquidity pool (`state/liq_pool.rs`, `instructions/liq_pool`) | LP supply, fees, the two legs | add_liquidity, remove_liquidity, liquid_unstake |
| Admin (`instructions/admin`) | the configuration | initialize, config_lp, config_marinade, change_authority, pause, resume, realloc of both lists |
| StakeSystem, ValidatorSystem, List (`state/…`) | two arrays in account data, totals of scores, of active and of cooling stake | add, get_checked, set, remove |
| Arithmetic (`calc.rs`, `state/fee.rs`) | – | proportional, shares, fees |
| Events (`events`) | – (the transaction log, for readers off the chain) | one event at the end of most instructions |
| The chain (external) | clock, native stake accounts, mints, wallets | epochs, rewards, slashing, transfers, burns |

**How they interact.** There is one State account, which every instruction
writes, so the runtime serialises the instructions and each is atomic: a failed
check, or a panic of checked arithmetic (`overflow-checks = true` in
`src/Cargo.toml`), rolls everything back. All concurrency is therefore the order
of instructions of different actors (users, bot, manager, admin, anybody) and of
the chain's own steps between them. All state is shared. State holds *copies* of
what other accounts hold (the reserve's lamports, the supplies, each native
delegation, the sum of the tickets), and the copies are brought up to date by
hand.

**What is hard.** Counters kept beside the records they sum up (tickets, active
and cooling stake, scores). Copies that go stale between two updates (reserve,
supplies, delegations). Splitting, merging and redelegating accounts through
code paths that each adjust five places. Rounding at fractional prices. Commands
the bot repeats or runs for several validators in one epoch. Indices into a
swap-remove list. Tickets that compete for what the reserve has. Events whose
parts are captured by hand, before or after the changes. `PROJECT.json` lists the
hazards one by one with their lines and the properties aimed at them; the ones
no property covers have a note.

**What makes each component correct.**

* State: its counters are the sums of the records; the virtual reserve and
  supplies err on one side only, and are exact while nobody acts behind the
  program; towards the holders the program is a vault, in which no step but a
  rounded withdrawal costs those who stay.
* Delayed unstake: the ticket counters agree with the tickets, tickets are
  covered, and only other tickets can keep one waiting for ever.
* Crank and management: native accounts hold what the records say; staking takes
  only the surplus over the tickets, unstaking little more than they lack, and
  in the end both are done; a move of stake ends near the targets and under the
  cap of the epoch; the treasury takes no more than its share of a reward.
* Pool: no LP loses to rounding; an instant unstake costs at least the minimum fee.
* Admin: limits hold after any partial change; the pause stops everything.
* Lists: they are a set of records, whatever index a caller names.
* Events: what an event captured and the amounts in it give the books as the
  instruction leaves them.

## 2. Modules

```
Calc, Totals                         pure operators
  MarinadeState                      variables, Init, methods of State and lists
    Users  Crank  Management  LiquidityPool  Admin  Solana(external)
      Marinade  --refines--> Vault   Next, Spec, the properties
        Events                       what is logged, and what a reader learns
          Documented                 what comments say and the code does not do
            MCMarinade               scaled limits shared by the instances
              MCDelayed MCValidators MCWithdraw MCPool MCShocks
              MCAdmin MCWhole MCPayout
SwapList --refines--> RecordSet      the lists;  MCSwapList
CalcChecks                           Calc against reference definitions
TotalsProofs, CalcProofs             lemmas
CalcChecksProofs, SwapListProofs     theorems on the arithmetic and on the lists
MarinadeProofs                       the inductive invariant of Marinade
  CountersProofs                     tickets, scores, pause
  StakeProofs                        delegations and what moves them
    HoldersProofs                    prices, tickets, books, vault, pool, treasury
```

* **MarinadeState** has one variable for each field or account the instructions
  decide by, under the source's name. `stake_list` and `validator_list` map an
  address to its record: every instruction names an index *and* an account and
  compares the two (`get_checked`), and `SwapList` shows that arrays with
  swap-remove then behave as such maps. `config` collects what the admin sets,
  the sizes of the list accounts included.
* **Users, Crank, Management, LiquidityPool, Admin** have one action for each
  instruction, or one for each way it ends where two ways write different
  things: `DeactivateWholeStake`/`DeactivateSplitStake`,
  `RedelegateWholeStake`/`RedelegateSplitStake`,
  `PartialUnstakeWhole`/`PartialUnstakeSplit`, `StakeReserve`/
  `StakeReserveReturnsEarly`. Guards stand in the order of the code's checks. An
  early return that changes nothing is a stutter and has no action; the one of
  `stake_reserve` that has spent an extra run by then does.
* **Vault** is what the program promises: a value, shares in it, and lamports
  owed. Its four steps are a gain, a promise for shares given up, the payment of
  a promise, and a withdrawal at once. `Holders` in `Marinade` maps
  `total_virtual_staked_lamports`, `msol_supply` and
  `circulating_ticket_balance` to them.
* **Events** has the record type of each event, an operator that fills it with
  what the instruction has captured by then, and for each event what a reader
  concludes from it (with the reader's own balances where it captured none).
  `EventsTellTheBooks` says that the conclusions are right.
* **Solana** is external: the clock, epoch boundaries with rewards, slashing,
  payments to the reserve or a stake account, burns by holders, delegations of
  users. It is modelled from what the instructions read.
* **Variants.** Definitions commented "A variant" are the mutants `PROJECT.json`
  pairs with the properties that catch them. No specification uses them.

Abstractions, and why they are sound for the properties:

* *Epochs are relative.* The code only asks whether a stored epoch is the current
  one or earlier: `stake_delta_ran`, `stake_move_is_current` and a validator's
  `ran` are those comparisons, and `created_epoch` of a ticket is -1 (any earlier
  epoch), 0 or 1.
* *The clock within an epoch* is a phase: `start` (shorter than
  `EXTRA_WAIT_SECONDS`), `open`, `window` (the last `slots_for_stake_delta`
  slots).
* *Warm-up and cool-down are whole*: a delegation becomes effective or inactive
  at the next epoch boundary. The program has no behaviour that depends on a part.
* *Rent*: `balance` and `stake` of a native account exclude the rent reserve,
  which the payer of a transaction pays and gets back.
* *Users* are one purse: no instruction asks who they are. Authorities are
  nondeterministic: the admin, the manager and the bot may send anything that the
  instances' constants allow.
* *Widths.* `FeeApply` and `FeeCentsApply` keep the low bits of their result, like
  the cast in the code. All other results are unbounded naturals, those of
  `proportional` included: in the code a result of `proportional` over `u64` is an
  error and the overflow of a sum a panic, either of which undoes the whole
  instruction, so the model has all behaviours of the code and some more.
* *Dropped*: `msol_price` and `StakeRecord.last_update_epoch` (written, and never
  read for a decision), log messages, error codes, seeds and owners of accounts.

## 3. Runs

Amounts are a handful of lamports. The limits are scaled so that they are met:
the denominators of fees are 4 (10 000 and 1 000 000 in the code), `min_stake`
is 1, rents are 1, lists have 3 slots. `InitialSol` bounds everything, since
lamports are conserved; there is no other bound and no state constraint. Stake
addresses and tickets are reused once they are free, so a run covers any number
of epochs and tickets with two or three at a time. Deadlock is checked in every
run but `calc`, whose walk through the arguments ends.

| Run | Question | Properties |
|---|---|---|
| `delayed` | deposits, tickets with a fee, claims and the bot, in any order: do the counters, the reserve and the promises stay right? | TicketsAreCounted, StakeIsCounted, TicketsAreCovered, BooksAreExact, ImplementsVault, UnstakesLittleTooMuch, EventsTellTheBooks |
| `validators` | two validators, three accounts: staking, redelegation, merges, emergency and partial unstakes, removals | StakeIsCounted, ScoresAreCounted, StakeIsBacked, StaysNearTarget, MovesAreCapped, EventsTellTheBooks |
| `withdraw` | stake accounts in and out, with fees, rewards and paid lamports | StakeIsCounted, StakeIsBacked, ImplementsVault, TheTreasuryTakesItsShare, EventsTellTheBooks |
| `pool` | the pool at fractional prices, with burns behind its back | BooksAreConservative, MsolPriceNeverFalls, LpPriceNeverFalls, UnstakeNowCostsTheFee, EventsTellTheBooks |
| `shocks` | slashing, payments and burns between any two instructions | StakeIsCounted, BooksAreConservative, StakesOnlyTheSurplus |
| `admin` | from `initialize`: arguments at and over each limit, pauses, reallocations | ConfigWithinLimits, PauseStopsTheBooks, EventsTellTheBooks |
| `whole` | `Spec` itself on the smallest instance: do the types hold, and does a pause stop the instructions `admin` leaves out? (Splits, merges and redelegations need more accounts: for them it is the theorem `PauseStopsEverything` that says so.) | TypeOK, PauseStopsTheBooks |
| `payout` | liveness of tickets and of staking with a full list | OnlyTicketsDelayTickets, SurplusIsStaked |
| `calc` | the arithmetic for all arguments up to 16 | DepositAndRedeemGainsNothing, SplittingGainsNothing, CheckedFeesAreMonotone, LinearFeeFalls |
| `swap_list` | four addresses, arrays of two or four slots, any index | AddressesAreUnique, CountFits, ImplementsRecordSet |
| `doc_claim_balance`, `doc_claim_retry` | a comment or a message against the code | violated on purpose, see section 5 |

Why the bounds suffice: two stake accounts let one be split or merged while the
other cools down; three are what a split redelegation writes; two tickets
overlap; two validators are the least that share a target. Two amounts, one of
them odd, make prices fractional as soon as a fee or reward is taken.
`validators` and `withdraw` use symmetry of the stake addresses, which no
definition tells apart (all their properties are safety properties). `withdraw`
has larger amounts and a reward fee of three quarters: with less, the fee on a
reward is rounded away before charging it twice could take too much. `payout` has
a list of two slots for two accounts, so that nothing can be split while both are
listed.

**Liveness.** `OnlyTicketsDelayTickets` says that a ticket is paid, or that
tickets are paid for ever while it waits. The bot therefore never gets stuck:
not on accounts too small to be split, not on a full list, not by staking what it
has just unstaked. `SurplusIsStaked` is the other half: when there is enough to
stake, it is staked in the end or new tickets need it. That *each* ticket is paid
does not hold (`doc_claim_retry`, section 5).

**Fairness.** Weak fairness of the clock, of updating each listed account and of
deactivating some account: the commands are permissionless, the bot calls them
again and again, and once enabled they stay so until something they are for
happens. Strong fairness of staking and of merging some pair of accounts, which
are enabled in a part of each epoch only: the bot calls them in every epoch.
Strong fairness of each claim, because other claims and staking can take the
lamports of the reserve away before the owner's call comes in: the owner keeps
trying. `deposit` and `order_unstake` have no fairness. `RentIsKept` says that
the bot can always pay the rent of the accounts it creates: rewards and deposits
of the instance do not use its lamports up. In `payout` one of the accounts may
earn rewards, in `doc_claim_retry` both. Both have the initial `min_withdraw` of
1, so no ticket is of zero lamports, which `claim` would refuse.

## 4. Proofs

TLC checks small instances; the theorems hold for every value of the constants
that `StateAssumption` and `CalcAssumption` admit: any finite sets of
validators, stake accounts and tickets, any fees, limits and amounts. What they
assume of the constants is what the code has: rents and limits are naturals,
`MIN_STAKE_LOWER_LIMIT` and `MAX_WITHDRAW_ATOM` are not zero, the maximal
fees are no more than the whole (`MAX_REWARD_FEE` is 10 %, `state/mod.rs:106`),
and the amounts in arguments are `u64`s, so that a fee on one loses no bits to
the cast in `Fee::apply`.

**Specifications.** `Spec` has every step. The chain around the program can
break some properties, and for these the theorem names what may happen:

| Specification | Steps | Theorems |
|---|---|---|
| `Spec` | all | `TypesAreKept`, `ConfigStaysWithinLimits`, `BooksStayConservative`, `TicketsStayCounted`, `ScoresStayCounted`, `PauseStopsEverything`, `StakeStaysCounted`, `StakesTheSurplus`, `UnstakesWhatTicketsNeed`, `MovesStayCapped`, `StakeStaysNearTarget`, `InstantUnstakeCostsTheFee` |
| `UnslashedSpec` | no slash | `StakeStaysBacked`, `TicketsStayCovered`, `PriceOfMsolNeverFalls`, `PriceOfLpNeverFalls`, `TreasuryTakesItsShare` |
| `BookedSpec` | no payment to the reserve and no burn behind the program | `BooksStayExact` |
| `ProgramSpec` | neither | `ProgramImplementsVault` |

**The invariants, from the ground up.**

* `IInv == TypeOK /\ ConfigWithinLimits /\ BooksAreConservative`
  (**MarinadeProofs**). `TypeOK` alone is not inductive: an amount such as
  `sol_value - fee` is a natural number only because the fee is within the limits
  that `config_marinade` checks; what leaves the pool is one only because the
  pool keeps its rent; `begin` keeps the virtual reserve natural only because the
  account holds the rent. There is a lemma for each instruction, a step in it for
  each group of variables it writes, and `Untouched` for the rest.
* Ticket and score counters (**CountersProofs**), under `IInv`. Sums are `Total`
  of `Totals`: the number of units, a cardinality, so that the lemmas about
  finite sets apply and no recursion is needed.
* `Counted` (**StakeProofs**), under `IInv`. `StakeIsCounted` sums over sets of
  records that change with every step. `Counted` says the same with sums over
  *all* addresses, where an address without a record counts for zero
  (`TotalIgnoresZeros`), so that an instruction changes a sum at the one, two or
  three addresses it names (`TotalFollowsOne`, `Two`, `Three`). Its conjuncts need
  each other: `remove_validator` is safe only because a validator whose
  `active_balance` is zero has no active record, and `update_deactivated`
  subtracts within the naturals only because its record is part of the sum.
* `Backed` (**StakeProofs**), which is `StakeIsBacked` and, for an active record,
  that the account still delegates what the record says. `update_active` finds a
  loss otherwise. It fails after a slash and after nothing else.
* `TicketsAreCovered` (**HoldersProofs**), under `IInv` and `Backed`: an order
  takes no more than the value of the mSOL it burns, a withdrawn account is worth
  no more than its mSOL, and an update never finds a loss.
* `BooksAreExact` (**HoldersProofs**), under `IInv`.

**The steps.** The proofs about prices rest on a classification: whatever is not
an order, a claim, a deposit, a withdrawn account or an update leaves the
lamports under control, the tickets and the supply alone (`WhoChangesTheValue`),
and each of these changes them by amounts that are compared at the price before
(`DepositChanges`, `OrderUnstakeChanges`, ...). `TwoFeesAtThePriceBefore` is the
heart of the update: its two fees are charged one after the other, at prices that
already count the first one's lamports and, the second time, its shares; together
they are worth no more than one fee at the price before.
From the classification follow the price of mSOL, the share of the treasury and,
with the books exact, every step of the refinement of `Vault`. `LpPriceNeverFalls`
adds what the pool's own instructions round (`ShareOfTheLeg` for what is paid out
in mSOL, `ValueOfTwo` for an instant unstake), and `UnstakeNowCostsTheFee` that
the linear fee is never below its minimum and that `Fee::apply` is monotone.
The properties of steps that move stake (`StakesOnlyTheSurplus`,
`UnstakesLittleTooMuch`, `MovesAreCapped`, `StaysNearTarget`) follow from
`IInv` and, for the moves, `Counted`: which steps move stake, and how far the
rule that no account is left with less than `min_stake` can carry them.

* **CalcChecksProofs** on top of **CalcProofs**: the four properties of `calc`
  for all arguments, from lemmas on division (rounded down, greatest, monotone).
* **SwapListProofs**: the list implements `RecordSet`, for any capacity and any
  addresses. `ListInv` says that the bytes are items, that the counted ones have
  different addresses and that they fit. The lemmas `PushKeeps`, `SetKeeps` and
  `RemoveKeeps` say for any bytes what a method of `List` does to the records; a
  merge is `SetKeeps` followed by `RemoveKeeps`, which needs the source's index
  to be the same in between: that is the "index invalidation" of
  `merge_stakes.rs:206`.

**What the proofs corrected.** Four properties were true of the instances and not
of the specification, and are stated more exactly since: the price of mSOL is
that of mSOL which exists (after all of it is burnt, an update sets the supply to
zero while the value stays); the treasury's share is taken at the real supply,
which an update aligns first, and not at the virtual one; a promise of zero
lamports is a step of the vault too, and so is a withdrawal whose fee is the
whole of what it gives up; and a withdrawn stake account, whose fee is rounded,
moves the price of an LP token with that of mSOL, by less than a unit's worth.

**Only model-checked**: the liveness properties (`OnlyTicketsDelayTickets`,
`SurplusIsStaked`) and the `ENABLED` of `Documented`, which are out of the
prover's reach, as is induction over data; and `EventsTellTheBooks`, one formula
over all instructions and events, which is in the plan.

## 5. Where comments and code disagree

Checked by a run each:

* `claim.rs:102` says "use real balance not virtual field"; the transfer also
  debits the virtual balance (`state/mod.rs:261`), so a claim that only the real
  balance covers panics until an update aligns the two (`doc_claim_balance`).
* `claim.rs:109` says "Requested to claim {} when only {} ready. Wait a few hours
  and retry" (and `error.rs:72` likewise). Claims are paid in the order they come
  in, and a ticket is due at once, so newer and smaller tickets can take what is
  ready again and again: in the run a ticket of 3 lamports is never paid although
  its owner keeps retrying and the bot keeps working, while tickets of 2 and of 1
  come and go (`doc_claim_retry`).

Seen while modelling, and modelled as the code has it: `WAIT_EPOCHS` is 0, not
the 1 that `claim.rs:3-10` describes, so that a ticket is due in the epoch it is
ordered in; the window test of `deactivate_stake` and `redelegate` is commented
out (`deactivate_stake.rs:105-113`, `redelegate.rs:116-125`), while
`stake_reserve` still has it; the comment at `deactivate_stake.rs:218` says that
more than twice `min_stake` is split off, whereas the code ensures that at least
twice `min_stake` *stays behind*; `fee.rs:44` says "LMT no error possible",
while the cast truncates what exceeds 64 bits, and `config_marinade` stores the
cap on moved stake unchecked (on purpose, `config_marinade.rs:201`);
`events/crank.rs:107` says "MSOL price used", but `update_active` captures the
price before `begin` aligns the supply and before the extra lamports enter the
reserve (`update.rs:272`), so that the fees in the event were not computed at the
price in the event; `emergency_unstake` and `partial_unstake` emit no event
(`events/management.rs:13`), so that a reader of the log alone has to look at the
accounts after them.

## 6. Not modelled

Error codes (an error rolls everything back, whatever its code), the TypeScript
client, seeds, signers and owners of accounts (Anchor constraints: the program
compares them with keys it stores, and there is no step between the comparison
and the use), the byte layout of records, events that carry keys only,
partial warm-up of stake, the account of the transient rent of an unused split
account (created and closed within the instruction).

## 7. Plan

The order is by what a mistake would cost the holders.

1. *Done, modelling*: all instructions and the chain in one model; counters,
   books, prices, targets, caps; the vault the holders see; liveness of tickets
   and of staking without spare slots; the events and what they tell; the
   swap-remove list; the arithmetic.
2. *Done, proofs*: types, limits, books, ticket and score counters, pause, the
   arithmetic, the list as a set of records;
   `StakeIsCounted` and `StakeIsBacked`; covered tickets and exact books; the
   refinement of the vault; the prices of mSOL and of LP tokens; the fee of an
   instant unstake and the share of the treasury; surplus, targets and caps.
3. *Next, proofs*: `EventsTellTheBooks` under `ProgramSpec`, instruction by
   instruction, from `IInv`, `Backed` and `BooksAreExact`; a form of
   `TicketsAreCovered` that survives a slash.
