----------------------------- MODULE RateLimits -----------------------------
(***************************************************************************)
(* The fixed-window rate limiters of the federation routes, as one sender  *)
(* (peer, subject key or address) meets them: push_rate_limit.rs,          *)
(* content_rate_limit.rs, backfill_rate_limit.rs, prior_home_rate_limit.rs *)
(* and prior_home_challenge_rate_limit.rs of server/src/federation.        *)
(*                                                                         *)
(* Every call takes the limiter's mutex, so it is one step.  The limiters  *)
(* share no state, so a behaviour calls the one route it draws in Init.    *)
(***************************************************************************)
EXTENDS Integers

CONSTANTS
  Routes,     \* the routes a sender may call
  Window,     \* WINDOW_SECS
  Cap,        \* max requests (objects) per window
  KeyCap,     \* that of the challenge limiter's subject keys
  Batches,    \* sizes of /content batches
  ByteCap,    \* max_bytes_per_window
  Sizes,      \* sizes of backfill responses
  MaxFlying,  \* backfill requests that are served at the same time
  MaxTime     \* bound: seconds that pass

Limiters == {"push", "content", "backfill", "prior_home", "ip", "key"}

ASSUME LimitConfig ==
  /\ Routes \subseteq {"push", "content", "backfill", "prior_home", "challenge"}
  /\ Window \in Nat \ {0} /\ Cap \in Nat /\ KeyCap \in Nat /\ ByteCap \in Nat \ {0}
  /\ Batches \subseteq Nat /\ Sizes \subseteq Nat
  /\ {MaxFlying, MaxTime} \subseteq Nat

VARIABLES
  route,   \* the route the sender calls
  now,     \* the wall clock
  entry,   \* the sender's WindowState in each limiter
  flying,  \* backfill requests admitted and not yet charged
  served   \* served[l][t]: what limiter l has let through by the end of second t

vars == <<route, now, entry, flying, served>>

CapOf(l) == IF l = "key" THEN KeyCap ELSE Cap

Seconds == -1 .. MaxTime

Absent == [present |-> FALSE, start |-> 0, count |-> 0, bytes |-> 0]

Init ==
  /\ route \in Routes
  /\ now = 0
  /\ entry = [l \in Limiters |-> Absent]
  /\ flying = 0
  /\ served = [l \in Limiters |-> [t \in Seconds |-> 0]]

Expired(e) == now - e.start >= Window

\* entry().or_insert() and the roll of an expired window.
Current(e) ==
  IF ~e.present \/ Expired(e)
  THEN [present |-> TRUE, start |-> now, count |-> 0, bytes |-> 0] ELSE e

\* f with n more let through now.
Plus(f, n) == [t \in Seconds |-> IF t >= now THEN f[t] + n ELSE f[t]]

\* try_admit_at() with n units: nothing is charged when it refuses.
Fits(l, e, n) == e.count + n <= CapOf(l)

Admit(l, n, more) ==
  LET e == Current(entry[l])
      ok == Fits(l, e, n) /\ more
  IN  /\ entry' = [entry EXCEPT ![l] = IF ok THEN [e EXCEPT !.count = @ + n] ELSE e]
      /\ served' = IF ok THEN [served EXCEPT ![l] = Plus(@, n)] ELSE served

\* PushRateLimiter::try_admit().
PushAdmit ==
  /\ route = "push"
  /\ Admit("push", 1, TRUE)
  /\ UNCHANGED <<route, now, flying>>

\* ContentRateLimiter::check_and_count(): the whole batch or nothing; an empty
\* batch does not touch the map.
ContentAdmit ==
  /\ route = "content"
  /\ \E n \in Batches \ {0} : Admit("content", n, TRUE)
  /\ UNCHANGED <<route, now, flying>>

\* BackfillRateLimiter::try_admit(): the byte budget only has to be positive.
BytesLeft(e) == e.bytes < ByteCap

BackfillAdmit ==
  /\ route = "backfill"
  /\ flying < MaxFlying
  /\ LET e == Current(entry["backfill"])
     IN  /\ Admit("backfill", 1, BytesLeft(e))
         /\ flying' = IF Fits("backfill", e, 1) /\ BytesLeft(e) THEN flying + 1 ELSE flying
  /\ UNCHANGED <<route, now>>

\* BackfillRateLimiter::charge_bytes(), once the response is built.
BackfillCharge ==
  /\ flying > 0
  /\ \E b \in Sizes :
       entry' = [entry EXCEPT !["backfill"] = [Current(entry["backfill"]) EXCEPT !.bytes = @ + b]]
  /\ flying' = flying - 1
  /\ UNCHANGED <<route, now, served>>

\* A request that fails after it was admitted is never charged.
BackfillError ==
  /\ flying > 0
  /\ flying' = flying - 1
  /\ UNCHANGED <<route, now, entry, served>>

\* PriorHomeRateLimiter::try_admit(), shared by the probe and both bulk routes.
PriorHomeAdmit ==
  /\ route = "prior_home"
  /\ Admit("prior_home", 1, TRUE)
  /\ UNCHANGED <<route, now, flying>>

\* handle_prior_home_challenge(): the address is charged, then the key.  The
\* two maps have a mutex each; nothing reads both, so the two calls are one step.
ChallengeAdmit ==
  /\ route = "challenge"
  /\ LET ip == Current(entry["ip"])
         key == Current(entry["key"])
         Charged(e) == [e EXCEPT !.count = @ + 1]
     IN  \/ /\ ~Fits("ip", ip, 1)
            /\ entry' = [entry EXCEPT !["ip"] = ip]
            /\ UNCHANGED served
         \/ /\ Fits("ip", ip, 1) /\ ~Fits("key", key, 1)
            /\ entry' = [entry EXCEPT !["ip"] = Charged(ip), !["key"] = key]
            /\ served' = [served EXCEPT !["ip"] = Plus(@, 1)]
         \/ /\ Fits("ip", ip, 1) /\ Fits("key", key, 1)
            /\ entry' = [entry EXCEPT !["ip"] = Charged(ip), !["key"] = Charged(key)]
            /\ served' = [served EXCEPT !["ip"] = Plus(@, 1), !["key"] = Plus(@, 1)]
  /\ UNCHANGED <<route, now, flying>>

\* cleanup_stale_at(), from cleanup_loop().
Stale_Early(e) == now - e.start >= Window - 1
Stale(e) == now - e.start >= Window

Cleanup ==
  /\ \E l \in Limiters : entry[l].present /\ Stale(entry[l])
  /\ entry' = [l \in Limiters |-> IF Stale(entry[l]) THEN Absent ELSE entry[l]]
  /\ UNCHANGED <<route, now, flying, served>>

Tick ==
  /\ now < MaxTime
  /\ now' = now + 1
  /\ UNCHANGED <<route, entry, flying, served>>

Next ==
  \/ PushAdmit \/ ContentAdmit \/ BackfillAdmit \/ BackfillCharge \/ BackfillError
  \/ PriorHomeAdmit \/ ChallengeAdmit \/ Cleanup \/ Tick

Spec == Init /\ [][Next]_vars

-----------------------------------------------------------------------------
(* Properties *)

TypeOK ==
  /\ route \in Routes
  /\ now \in 0..MaxTime
  /\ entry \in [Limiters -> [present : BOOLEAN, start : 0..MaxTime, count : Nat, bytes : Nat]]
  /\ \A l \in Limiters : entry[l].count <= CapOf(l)
  /\ flying \in 0..MaxFlying
  /\ served \in [Limiters -> [Seconds -> Nat]]

\* Whatever the phase of the windows, and whichever entries the sweep has
\* dropped, no interval of one window's length (up to second b) sees more than
\* twice the cap.  That is what prior_home_rate_limit.rs says ("bounded by 2 *
\* PRIOR_HOME_PROBES_PER_DAY_PER_KEY over two adjacent windows"), and all that is true of
\* the other limiters as well: a full window that ends is followed at once by another,
\* which is more than the batch, the response or the request over the cap that the
\* headers of content_, backfill_ and push_rate_limit.rs give as the surplus.
AtMostTwoCaps ==
  \A l \in Limiters, b \in 0..MaxTime :
    served[l][b] - served[l][IF b < Window THEN -1 ELSE b - Window] <= 2 * CapOf(l)

\* Once the byte budget of a window is used up, only the responses that were
\* being built at that moment are still charged: m is the largest of them.
OnlyInFlightOverrun ==
  \A m \in Sizes : (\A s \in Sizes : s <= m) =>
    entry["backfill"].bytes + flying * m <= ByteCap - 1 + MaxFlying * m

\* Within any window a limiter admits at most two caps, and bytes overrun only by the
\* responses that were in flight (the limiters of the federation routes).
LimitsHold == TypeOK /\ AtMostTwoCaps /\ OnlyInFlightOverrun
=============================================================================
