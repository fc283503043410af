----------------------------- MODULE HealthProbe -----------------------------
(***************************************************************************)
(* Health probes of an adapter: adapter/health/health.go.  Callers of      *)
(* Runner.Probe share, per target, a cached result and the governance      *)
(* state: the circuit and the backoff.  One target is modelled; targets    *)
(* share nothing but the options.  A critical section of Runner.mu is one  *)
(* action.  A call reads the clock and the options once, at its start, and *)
(* goes by them until its end, however long its probe takes.               *)
(***************************************************************************)
EXTENDS Naturals, FiniteSets

CONSTANTS
    Probers,                 \* goroutines that call Probe
    HealthOptions,           \* what UpdateOptions sets: which governances are enabled
    MaxHealthTime,           \* bound on the clock
    ResultTTL,               \* RunnerOptions.CacheTTL
    BackoffDelays,           \* what computeBackoffDelay may return
    ProbeFailureThreshold,   \* CircuitOptions.FailureThreshold
    CircuitOpenDuration,     \* CircuitOptions.OpenDuration
    HalfOpenMaxProbe,        \* CircuitOptions.HalfOpenMaxProbe
    HalfOpenSuccessThreshold \* CircuitOptions.HalfOpenSuccessThreshold

ASSUME HealthAssumption ==
    /\ IsFiniteSet(Probers)
    /\ HealthOptions \subseteq [circuit : BOOLEAN, backoff : BOOLEAN]
    /\ MaxHealthTime \in Nat /\ ResultTTL \in Nat \ {0} /\ BackoffDelays \subseteq Nat
    /\ ProbeFailureThreshold \in Nat \ {0} /\ CircuitOpenDuration \in Nat \ {0}
    /\ HalfOpenMaxProbe \in Nat \ {0} /\ HalfOpenSuccessThreshold \in Nat \ {0}

VARIABLES
    healthClock,    \* Runner.now
    governance,     \* Runner.states of the target; times are 0 when not set
    cachedUntil,    \* Runner.entries of the target: its expiresAt, 0 if there is none
    prober          \* per goroutine: where its call is, and what it read and reserved

healthVars == <<healthClock, governance, cachedUntil, prober>>

\* A goroutine outside of Probe.
IdleProber == [at |-> "idle", now |-> 0, opts |-> [circuit |-> FALSE, backoff |-> FALSE], reserved |-> FALSE]

HealthInit ==
    /\ healthClock = 1
    /\ governance = [circuit |-> "closed", fails |-> 0, successes |-> 0, inFlight |-> 0,
                     openUntil |-> 0, nextProbeAt |-> 0]
    /\ cachedUntil = 0
    /\ prober = [p \in Probers |-> IdleProber]

-----------------------------------------------------------------------------
(* The clock *)

HealthTick ==
    /\ healthClock < MaxHealthTime
    /\ healthClock' = healthClock + 1
    /\ UNCHANGED <<governance, cachedUntil, prober>>

-----------------------------------------------------------------------------
(* Probe, up to the probe itself *)

Governed(p) == prober[p].opts.circuit \/ prober[p].opts.backoff

ProberAt(p, where) ==
    prober' = [prober EXCEPT ![p] = IF where = "idle" THEN IdleProber ELSE [@ EXCEPT !.at = where]]

\* The options are those of the last UpdateOptions, which may come at any time.
ProbeBegins(p) ==
    /\ prober[p].at = "idle"
    /\ \E options \in HealthOptions :
        prober' = [prober EXCEPT ![p] = [at |-> "begun", now |-> healthClock,
                                         opts |-> options, reserved |-> FALSE]]
    /\ UNCHANGED <<healthClock, governance, cachedUntil>>

\* loadCachedGoverned: no cached result while the circuit is not closed ...
LooksAtCircuit(p) ==
    /\ prober[p].at = "begun"
    /\ ProberAt(p, IF prober[p].opts.circuit /\ governance.circuit # "closed" THEN "gate" ELSE "lookup")
    /\ UNCHANGED <<healthClock, governance, cachedUntil>>

\* ... but the cache is read after the circuit was.
LooksAtCache(p) ==
    /\ prober[p].at = "lookup"
    /\ ProberAt(p, IF cachedUntil # 0 /\ prober[p].now <= cachedUntil THEN "idle"
                   ELSE IF Governed(p) THEN "gate" ELSE "probing")
    /\ UNCHANGED <<healthClock, governance, cachedUntil>>

\* The circuit as beforeProbeGovernance finds it.
Elapsed(g, now) == g.circuit = "open" /\ now >= g.openUntil

\* The governance with its circuit changed.
SetCircuit(g, circuit, fails, successes, openUntil) ==
    [circuit |-> circuit, fails |-> fails, successes |-> successes, openUntil |-> openUntil,
     inFlight |-> g.inFlight, nextProbeAt |-> g.nextProbeAt]

HalfOpened(g) == SetCircuit(g, "half_open", g.fails, 0, g.openUntil)

Reopening(g, now) == IF Elapsed(g, now) THEN [HalfOpened(g) EXCEPT !.inFlight = 0] ELSE g

Refuses(g, now, opts) ==
    \/ opts.circuit /\ g.circuit = "open"
    \/ opts.circuit /\ g.circuit = "half_open" /\ g.inFlight >= HalfOpenMaxProbe
    \/ opts.backoff /\ now < g.nextProbeAt

BeforeProbe(p) ==
    LET now   == prober[p].now
        opts  == prober[p].opts
        found == IF opts.circuit THEN Reopening(governance, now) ELSE governance
        reserves == opts.circuit /\ found.circuit = "half_open" IN
    /\ prober[p].at = "gate"
    /\ \/ /\ Refuses(found, now, opts)
          /\ governance' = found
          /\ ProberAt(p, "idle")
       \/ /\ ~Refuses(found, now, opts)
          /\ governance' = IF reserves THEN [found EXCEPT !.inFlight = @ + 1] ELSE found
          /\ prober' = [prober EXCEPT ![p] = [@ EXCEPT !.at = "probing", !.reserved = reserves]]
    /\ UNCHANGED <<healthClock, cachedUntil>>

-----------------------------------------------------------------------------
(* The probe returns: execute, afterProbeGovernance, storeCached *)

\* Mutant of Released: the slot is given back only while the circuit is half open.
ReleasedWhileHalfOpen(g, reserved) ==
    IF reserved /\ g.inFlight > 0 /\ g.circuit = "half_open" THEN [g EXCEPT !.inFlight = @ - 1] ELSE g

Released(g, reserved) ==
    IF reserved /\ g.inFlight > 0 THEN [g EXCEPT !.inFlight = @ - 1] ELSE g

OpenedAt(g, now, fails) == SetCircuit(g, "open", fails, 0, now + CircuitOpenDuration)

JudgedHalfOpen(g, now, status) ==
    IF status = "unavailable" THEN OpenedAt(g, now, 0)
    ELSE IF status = "degraded" THEN g
    ELSE IF g.successes + 1 >= HalfOpenSuccessThreshold THEN SetCircuit(g, "closed", 0, 0, 0)
    ELSE [g EXCEPT !.successes = @ + 1]

JudgedClosed(g, now, status) ==
    IF status # "unavailable" THEN [g EXCEPT !.fails = 0]
    ELSE IF g.fails + 1 >= ProbeFailureThreshold THEN OpenedAt(g, now, g.fails + 1)
    ELSE [g EXCEPT !.fails = @ + 1]

\* The result of a probe is judged in the state the circuit is in by now.
Judged(g, now, status) ==
    IF g.circuit = "half_open" THEN JudgedHalfOpen(g, now, status)
    ELSE IF g.circuit = "closed" THEN JudgedClosed(g, now, status)
    ELSE IF Elapsed(g, now) THEN HalfOpened(g)
    ELSE g

BackedOff(g, now, status, delay) ==
    [g EXCEPT !.nextProbeAt = IF status = "unavailable" THEN now + delay ELSE 0]

\* A timeout, an error and an unknown status count as unavailable.
ProbeReturns(p) ==
    LET now  == prober[p].now
        opts == prober[p].opts IN
    /\ prober[p].at = "probing"
    /\ \E status \in {"healthy", "degraded", "unavailable"}, delay \in BackoffDelays :
        LET released == Released(governance, prober[p].reserved)
            judged   == IF opts.circuit THEN Judged(released, now, status) ELSE released
            after    == IF opts.backoff THEN BackedOff(judged, now, status, delay) ELSE judged IN
        /\ governance' = IF Governed(p) THEN after ELSE governance
        /\ ProberAt(p, IF opts.circuit /\ after.circuit = "open" THEN "idle" ELSE "storing")
    /\ UNCHANGED <<healthClock, cachedUntil>>

StoreCached(p) ==
    /\ prober[p].at = "storing"
    /\ cachedUntil' = prober[p].now + ResultTTL
    /\ ProberAt(p, "idle")
    /\ UNCHANGED <<healthClock, governance>>

-----------------------------------------------------------------------------
HealthNext ==
    \/ HealthTick
    \/ \E p \in Probers :
        \/ ProbeBegins(p) \/ LooksAtCircuit(p) \/ LooksAtCache(p) \/ BeforeProbe(p)
        \/ ProbeReturns(p) \/ StoreCached(p)

HealthSpec == HealthInit /\ [][HealthNext]_healthVars

-----------------------------------------------------------------------------
(* Properties *)

(***************************************************************************)
(* Every slot of the half-open circuit is held by a probe that is still    *)
(* running.  The circuit may reopen, and turn half open again, while a     *)
(* probe runs, and a caller may have started under other options; still no *)
(* slot is left behind, which would reject probes when none is running     *)
(* (beforeProbeGovernance, afterProbeGovernance).                          *)
(***************************************************************************)
ProbeSlotsInUse ==
    governance.inFlight <=
        Cardinality({p \in Probers : prober[p].at = "probing" /\ prober[p].reserved})
=============================================================================
