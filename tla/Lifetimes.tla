------------------------------- MODULE Lifetimes -------------------------------
(***************************************************************************)
(* The ttl_seconds of a token or an invite: createToken and createInvite   *)
(* turn it into nanoseconds (time.Duration, an int64) before they compare  *)
(* it with the limits.                                                     *)
(***************************************************************************)
EXTENDS Integers

CONSTANTS
    Half,               \* 2^63: the integers are those from -Half to Half - 1
    Second,             \* 10^9 nanoseconds
    MaxSeconds,         \* thirty days
    DefaultSeconds      \* an hour for a token, a week for an invite

ASSUME LifetimesAssumption ==
    /\ Half \in Nat \ {0} /\ Second \in Nat \ {0}
    /\ MaxSeconds \in Nat /\ DefaultSeconds \in 1..MaxSeconds
    /\ MaxSeconds * Second < Half

Words == -Half .. (Half - 1)
Wrap(n) == ((n + Half) % (2 * Half)) - Half

\* What expires_at is from now; ttl_seconds is 0 when it is left out.
Lifetime(asked) == IF asked = 0 THEN DefaultSeconds * Second ELSE Wrap(asked * Second)

\* Others are refused as a bad request.
Granted(asked) == 0 < Lifetime(asked) /\ Lifetime(asked) <= MaxSeconds * Second
-------------------------------------------------------------------------------
\* Whoever asks for a lifetime within the limits gets that lifetime, who asks for none
\* gets the default, and others are refused, unless their nanoseconds do not fit an
\* int64.
GrantedAsAsked ==
    /\ Granted(0)
    /\ \A asked \in 1..MaxSeconds : Granted(asked) /\ Lifetime(asked) = asked * Second
    /\ \A asked \in Words :
          Granted(asked) => asked \in 0..MaxSeconds \/ asked * Second \notin Words

\* What createToken tells the client it refuses (tokens.go:26): "ttl_seconds must be
\* between 1 and 2592000".  It does not hold of values that wrap around.
LimitsAsStated ==
    \A asked \in Words : Granted(asked) => asked \in 0..MaxSeconds
===============================================================================
