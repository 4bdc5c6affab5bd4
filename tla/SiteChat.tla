------------------------------- MODULE SiteChat -------------------------------
(***************************************************************************)
(* The chat's sockets and, side by side with them, the limiter of one user *)
(* of the chat.  The limiter keeps deques and a lock of its own and its    *)
(* answer only decides whether a handler goes on, so an execution takes    *)
(* one of the two and leaves the other as it began.                        *)
(***************************************************************************)
EXTENDS Chat

CONSTANTS
  Callers,                    \* threads that call the limiter
  BurstLimit, BurstWindow, HourlyLimit, Hour, JoinLimit, JoinWindow,
  MaxDelay, MaxTime           \* RateLimiter

\* The hour outlasts the burst's window and any wait for the lock.
ASSUME LimiterAssumption ==
  /\ BurstLimit \in Nat \ {0} /\ HourlyLimit \in Nat \ {0} /\ JoinLimit \in Nat \ {0}
  /\ BurstWindow \in Nat \ {0} /\ JoinWindow \in Nat \ {0} /\ Hour \in Nat
  /\ MaxDelay \in Nat /\ BurstWindow + MaxDelay <= Hour /\ MaxTime \in Nat

VARIABLES now, recent, joins, call, sent, joined   \* RateLimiter

Limiter == INSTANCE RateLimiter WITH Threads <- Callers, messages <- recent

limiterVars == <<now, recent, joins, call, sent, joined>>

ChatInit == Init /\ Limiter!Init

ChatNext ==
  \/ Next /\ Limiter!Init /\ UNCHANGED limiterVars
  \/ Init /\ Limiter!Next /\ UNCHANGED vars

ChatSpec == ChatInit /\ [][ChatNext]_<<vars, limiterVars>>

\* The properties of the module that is composed by INSTANCE: see there.
Quotas == Limiter!Quotas
RefusedOnlyWhenFull == Limiter!RefusedOnlyWhenFull
=============================================================================
