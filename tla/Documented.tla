----------------------------- MODULE Documented ----------------------------
(***************************************************************************)
(* What comments of the code say of the program, and the program does not  *)
(* do.  Each formula is checked in a run of its own that refutes it.       *)
(***************************************************************************)
EXTENDS Events

\* claim.rs:102, "use real balance not virtual field": a ticket that is ready
\* and that the real balance of the reserve covers can be claimed.
RealBalanceDecidesClaims ==
  \A t \in DOMAIN tickets :
    /\ ~ paused
    /\ TicketReady(t)
    /\ tickets[t].lamports_amount <= reserve_pda - TokenRent
    => ENABLED Claim(t)
============================================================================
