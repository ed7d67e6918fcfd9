------------------------------ MODULE Backoff ------------------------------
(***************************************************************************)
(* bowst-venue: the delays between reconnects.  Backoff (backoff.rs) and   *)
(* the loop of MdSession::run that uses it: a connection that lasted       *)
(* healthy_after resets it, and every lost connection or failed connect    *)
(* takes the next delay.                                                   *)
(*                                                                         *)
(* A u32 has ShiftBits bits here, and a random one is a fraction of        *)
(* RandomSteps steps.                                                      *)
(***************************************************************************)
EXTENDS Integers

CONSTANTS
  InitialDelay,   \* reconnect_initial
  MaxDelay,       \* reconnect_max
  ShiftBits,      \* 32
  RandomSteps     \* u32::MAX

ASSUME BackoffAssumption ==
  /\ {InitialDelay, MaxDelay, ShiftBits} \subseteq Nat
  /\ RandomSteps \in Nat \ {0}

VARIABLES
  attempt,    \* Backoff::attempt
  delay,      \* the last delay taken, 0 for none since the last reset
  longest     \* the longest that delay could have been

backoffVars == <<attempt, delay, longest>>

\* Backoff::new
Most == IF MaxDelay > InitialDelay THEN MaxDelay ELSE InitialDelay

BackoffInit ==
  /\ attempt = 0
  /\ delay = 0
  /\ longest = 0

\* 1 << n
Shifted[n \in Nat] == IF n = 0 THEN 1 ELSE 2 * Shifted[n - 1]

\* Mutant: the shift wraps, as << does in release builds.
FactorWrapping(n) == Shifted[n % ShiftBits]

\* 1.checked_shl(n), or u32::MAX
Factor(n) == IF n < ShiftBits THEN Shifted[n] ELSE Shifted[ShiftBits] - 1

Step(n) == IF InitialDelay * Factor(n) < Most THEN InitialDelay * Factor(n) ELSE Most

\* Backoff::next_delay(random)
NextDelay(random) ==
  LET half == Step(attempt) \div 2
  IN  half + (half * random) \div RandomSteps

\* A connection is lost or not made, and the next attempt waits.  The attempts are
\* bounded by twice the bits of the shift.
WaitBeforeReconnect(random) ==
  /\ attempt < 2 * ShiftBits
  /\ delay' = NextDelay(random)
  /\ longest' = NextDelay(RandomSteps)
  /\ attempt' = attempt + 1

\* Backoff::reset, after a connection that lasted healthy_after
HealthyConnection ==
  /\ attempt' = 0
  /\ delay' = 0
  /\ longest' = 0

BackoffNext == HealthyConnection \/ \E random \in 0 .. RandomSteps : WaitBeforeReconnect(random)

BackoffSpec == BackoffInit /\ [][BackoffNext]_backoffVars

-----------------------------------------------------------------------------

\* Reconnects slow down and neither speed up again nor stop: until a healthy connection
\* resets them, the next delay may be as long as the last could have been and is at least
\* half of that, and all lie between half of the first step and the limit, for as many
\* attempts as there are, past the width of the shift (backoff.rs:27-46).
DelaysSlowDown ==
  /\ NextDelay(RandomSteps) >= longest
  /\ 2 * NextDelay(0) >= longest
  /\ attempt > 0 => /\ InitialDelay \div 2 <= delay
                    /\ delay <= longest
                    /\ longest <= Most

=============================================================================
