------------------------------ MODULE RunLedger ------------------------------
(***************************************************************************)
(* What the agent run scheduler promises about a run, independently of     *)
(* queues, tasks, locks and crashes: a durable ledger in which every run   *)
(* waits, is granted a slot once, and is settled for good; and in which    *)
(* the runs that hold a slot respect the per-user and the global limit.    *)
(***************************************************************************)
EXTENDS Naturals, FiniteSets

CONSTANTS
  Runs, Users,
  Limits    \* the limits that may be configured

VARIABLES
  owner,   \* the user of each run
  ledger   \* "none" | "waiting" | "granted" | "settled"

lvars == <<owner, ledger>>

Granted == {r \in Runs : ledger[r] = "granted"}

Init ==
  /\ owner \in [Runs -> Users]
  /\ ledger = [r \in Runs |-> "none"]

Move(S, to) ==
  /\ ledger' = [r \in Runs |-> IF r \in S THEN to ELSE ledger[r]]
  /\ UNCHANGED owner

Accept(r) == ledger[r] = "none" /\ Move({r}, "waiting")

\* A slot is granted to a waiting run whose user holds none, below
\* a limit.
Grant(r) ==
  /\ ledger[r] = "waiting"
  /\ \A q \in Granted : owner[q] # owner[r]
  /\ \E l \in Limits : Cardinality(Granted) < l
  /\ Move({r}, "granted")

\* A waiting run may be cancelled, expire or be refused; a granted one ends.
Settle(r) == ledger[r] \in {"waiting", "granted"} /\ Move({r}, "settled")

\* A restart ends all runs that held a slot and no run that was waiting.
Interrupt == Move(Granted, "settled")

Next ==
  \/ \E r \in Runs : Accept(r) \/ Grant(r) \/ Settle(r)
  \/ Interrupt

Spec == Init /\ [][Next]_lvars
=============================================================================
