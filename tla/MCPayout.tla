------------------------------ MODULE MCPayout -----------------------------
(***************************************************************************)
(* Delayed unstaking to the end: a clock that runs, a bot that keeps       *)
(* calling its commands, and owners of tickets who keep trying to claim    *)
(* while others deposit and order.  The list holds two stake accounts: a   *)
(* full one needs a merge or a release before an account can be split.     *)
(***************************************************************************)
EXTENDS MCMarinade

CONSTANTS v1, s1, s2, t1, t2,
          Earning       \* the stake accounts that earn rewards

ASSUME EarningAssumption == Earning \subseteq StakeAccount

PayoutInit ==
  Configured(With([stake_list_capacity |-> 2]), FALSE, [v \in {v1} |-> 1])

\* The bot's lamports for the rent of new accounts are its own: no deposit and
\* no reward is paid from them.
RentIsKept ==
  outside_sol' >=
    StakeRent * Cardinality(StakeAccount \ DOMAIN stake_accounts')

Clock ==
  \/ Tick
  \/ \E rewarded \in SUBSET (Earning \cap DOMAIN stake_accounts) :
       NextEpoch(rewarded) /\ RentIsKept

PayoutNext ==
  \/ \E l \in Lamports : Deposit(l) /\ RentIsKept
  \/ \E t \in Ticket, m \in Lamports : OrderUnstake(t, m)
  \/ \E t \in DOMAIN tickets : Claim(t)
  \/ CrankNext
  \/ Clock

\* What the bot and the owner of a ticket keep calling
ClaimIfThere(t) == t \in DOMAIN tickets /\ Claim(t)
Update(a) == a \in DOMAIN stake_list /\ (UpdateActive(a) \/ UpdateDeactivated(a))
Deactivate ==
  \E a \in DOMAIN stake_list :
    \/ DeactivateWholeStake(a)
    \/ \E b \in StakeAccount : DeactivateSplitStake(a, b)
Stake == \E v \in DOMAIN validator_list, a \in StakeAccount : StakeReserve(v, a)
Merge == \E dst, src \in DOMAIN stake_list : MergeStakes(dst, src)

Fairness ==
  /\ WF_vars(Clock)
  /\ \A a \in StakeAccount : WF_vars(Update(a))
  /\ WF_vars(Deactivate)
  /\ SF_vars(Stake)
  /\ SF_vars(Merge)
  /\ \A t \in Ticket : SF_vars(ClaimIfThere(t))

PayoutSpec == PayoutInit /\ [][PayoutNext]_vars /\ Fairness

Paid ==
  DOMAIN tickets' \subseteq DOMAIN tickets /\ DOMAIN tickets' # DOMAIN tickets

\* The bot always unstakes enough in the end: however small the accounts it
\* has to split and merge, and whatever is deposited meanwhile, a ticket that
\* is never paid can only stay behind tickets that are, without end.
OnlyTicketsDelayTickets ==
  \A t \in Ticket : []<>(t \notin DOMAIN tickets) \/ []<><<Paid>>_vars

\* Lamports that no ticket needs do not stay in the reserve: whenever there is
\* enough to stake, in the end it is staked or promised, although staking
\* waits for the last slots of an epoch and needs free places in the list.
SurplusIsStaked == stake_delta >= min_stake ~> stake_delta < min_stake

\* claim.rs:107-111, "Requested to claim {} when only {} ready. Wait a few
\* hours and retry": who orders an unstake and keeps retrying is paid.
RetryingPays ==
  \A t \in Ticket : t \in DOMAIN tickets ~> t \notin DOMAIN tickets
============================================================================
