----------------------------- MODULE RequestGate -----------------------------
(***************************************************************************)
(* The gate every protected request passes: who sends it, is its signature *)
(* fresh and made with a key in force, was it served before, and is the    *)
(* principal within its quota.                                             *)
(*                                                                         *)
(* controllers/main.py (_resolve_principal, _resolve_signing_key,          *)
(* _verify_integrity, _security_gate), models/api_nonce.py, rate_limit.py, *)
(* emergency_access.py, security_config.py, mezze_terminal.py and the      *)
(* policies of domain/.  Signatures are taken to be correct; a message may *)
(* arrive any number of times.  The deployment is in production, where the *)
(* signing mode is relaxed only during an emergency activation.            *)
(***************************************************************************)
EXTENDS Naturals, FiniteSets

CONSTANTS Server,
          Req,         \* requests, each signed once
          AdminReq,    \* those of them made with the shared admin token
          Skew,        \* clock_skew_seconds
          Retention,   \* nonce_retention_seconds
          Grace,       \* key_grace_seconds
          Window, PerWindow, \* quota: PerWindow requests in each Window
          Life,        \* length of an emergency activation
          MaxRun,      \* longest a request runs before its worker is recycled
          MaxTime,     \* bound on the clock
          MaxKey,      \* bound on rotations
          MaxDeliver   \* bound on deliveries of one request

ASSUME GateAssumption ==
  /\ {Skew, Retention, Grace, PerWindow, Life, MaxRun, MaxTime, MaxDeliver} \subseteq Nat
  /\ Window \in Nat \ {0} /\ MaxKey \in Nat \ {0} /\ AdminReq \subseteq Req
  /\ Retention >= 2 * Skew + MaxRun

VARIABLES now,
          terminal,   \* [active, kid, prev, rotated]
          signing,    \* the signing mode of the endpoint: "enforce" or "observe"
          emergency,  \* expiry of the live activation, or 0
          sent,       \* [Req -> [at, kid] or Unsent]
          delivered,  \* [Req -> Nat]
          nonces,     \* committed claims: set of [req, at]
          hits,       \* [window -> Nat]: mezze.rate.limit
          work,       \* [Server -> request in flight, or NoWork]
          effects,    \* [Req -> Nat]: times the handler's effect was committed
          inForce,    \* history: [key -> when it was last the active one]
          served,     \* history: [window -> requests that passed the limiter]
          exempt      \* history: requests that met a relaxed or failing gate

gateVars == <<now, terminal, signing, emergency, sent, delivered, nonces, hits,
              work, effects, inForce, served, exempt>>

Unsent == [at |-> 0, kid |-> 0]
NoWork == [phase |-> "idle"]
Windows == {t \in 0 .. MaxTime : (t % Window) = 0}
WindowOf(t) == t - (t % Window)

GateInit ==
  /\ now = 0 /\ signing = "enforce" /\ emergency = 0
  /\ terminal = [active |-> TRUE, kid |-> 1, prev |-> 0, rotated |-> 0]
  /\ sent = [r \in Req |-> Unsent] /\ delivered = [r \in Req |-> 0]
  /\ nonces = {} /\ hits = [t \in Windows |-> 0]
  /\ work = [w \in Server |-> NoWork] /\ effects = [r \in Req |-> 0]
  /\ inForce = [k \in 1 .. MaxKey |-> 0] /\ served = [t \in Windows |-> 0]
  /\ exempt = {}

(***************************************************************************)
(* Time, keys and settings                                                 *)
(***************************************************************************)
requestVars == <<sent, delivered, nonces, hits, work, effects, served, exempt>>

Tick == /\ now < MaxTime
        /\ \A w \in Server : work[w] # NoWork => now < work[w].since + MaxRun
        /\ now' = now + 1
        /\ inForce' = [inForce EXCEPT ![terminal.kid] = now']
        /\ UNCHANGED <<terminal, signing, emergency, requestVars>>

\* rotate_token: the outgoing key is kept for the grace window.
Rotate == /\ terminal.kid < MaxKey
          /\ terminal' = [active |-> terminal.active, kid |-> terminal.kid + 1,
                          prev |-> terminal.kid, rotated |-> now]
          /\ inForce' = [inForce EXCEPT ![terminal.kid + 1] = now]
          /\ UNCHANGED <<now, signing, emergency, requestVars>>

\* revoke_key closes the grace window; an inactive terminal is refused.
RevokeKey == /\ terminal.prev # 0
             /\ terminal' = [active |-> terminal.active, kid |-> terminal.kid,
                             prev |-> 0, rotated |-> now]
             /\ UNCHANGED <<now, signing, emergency, inForce, requestVars>>
Deactivate == /\ terminal.active
              /\ terminal' = [terminal EXCEPT !.active = FALSE]
              /\ UNCHANGED <<now, signing, emergency, inForce, requestVars>>

Live == emergency > now

\* activate, revoke; an activation that has run out is not current.
Activate == /\ ~Live /\ emergency' = now + Life
            /\ UNCHANGED <<now, terminal, signing, inForce, requestVars>>
RevokeEmergency == /\ Live /\ emergency' = 0
                   /\ UNCHANGED <<now, terminal, signing, inForce, requestVars>>

\* set_param refuses to weaken production outside an emergency.
SetSigning(mode) == /\ mode # signing /\ (mode = "observe" => Live)
                    /\ signing' = mode
                    /\ UNCHANGED <<now, terminal, emergency, inForce, requestVars>>

(***************************************************************************)
(* A request                                                               *)
(***************************************************************************)
settingVars == <<now, terminal, signing, emergency, inForce>>

\* A client signs with its key, by a clock that may be ahead.
Send(r) == /\ sent[r] = Unsent
           /\ \E d \in {0, Skew} : sent' = [sent EXCEPT ![r] = [at |-> now + d, kid |-> terminal.kid]]
           /\ UNCHANGED <<settingVars, delivered, nonces, hits, work, effects, served, exempt>>

Principal(r) == IF r \in AdminReq THEN Live ELSE terminal.active

\* The transaction's snapshot is taken and the principal resolved.
Receive(w, r) ==
  /\ work[w] = NoWork /\ sent[r] # Unsent /\ delivered[r] < MaxDeliver
  /\ delivered' = [delivered EXCEPT ![r] = @ + 1]
  /\ work' = IF ~Principal(r) THEN work
             ELSE [work EXCEPT ![w] = [phase |-> "verify", req |-> r, since |-> now, claim |-> {},
                                       key |-> terminal, mode |-> signing, counted |-> {}]]
  /\ exempt' = IF signing = "enforce" THEN exempt ELSE exempt \union {r}
  /\ UNCHANGED <<settingVars, sent, nonces, hits, effects, served>>

\* Mutant: the previous key is good for as long as it is kept.
PrevAlways(key, kid) == kid = key.prev

InGrace(key, kid) == kid = key.prev /\ now <= key.rotated + Grace

\* _resolve_signing_key
KeyGood(key, kid) == kid = key.kid \/ InGrace(key, kid)

InTime(r) == sent[r].at <= now + Skew /\ now <= sent[r].at + Skew

\* The request goes on to phase p, with the claim and the count it holds.
Holding(w, p, claim, counted) ==
  work' = [work EXCEPT ![w] =
    [phase |-> p, req |-> work[w].req, since |-> work[w].since, key |-> work[w].key,
     mode |-> work[w].mode, claim |-> claim, counted |-> counted]]
Phase(w, p) == Holding(w, p, work[w].claim, work[w].counted)
Release(w) == work' = [work EXCEPT ![w] = NoWork]

\* _verify_integrity up to the nonce; the shared token has no key id.
Verify(w) ==
  LET r == work[w].req
      good == InTime(r) /\ (r \in AdminReq \/ KeyGood(work[w].key, sent[r].kid))
  IN /\ work[w].phase = "verify"
     /\ IF good THEN Phase(w, "claim")
        ELSE IF work[w].mode = "enforce" THEN Release(w) ELSE Phase(w, "limit")
     /\ UNCHANGED <<settingVars, sent, delivered, nonces, hits, effects, served, exempt>>

Seen(r) == \E n \in nonces : n.req = r

\* claim: the unique index waits for whoever holds the same pair.
Claim(w) ==
  LET r == work[w].req
  IN /\ work[w].phase = "claim"
     /\ \A v \in Server \ {w} : work[v] # NoWork /\ work[v].req = r => work[v].claim = {}
     /\ IF ~Seen(r)
        THEN Holding(w, "limit", {[req |-> r, at |-> now]}, work[w].counted)
        ELSE IF work[w].mode = "enforce" THEN Release(w) ELSE Phase(w, "limit")
     /\ UNCHANGED <<settingVars, sent, delivered, nonces, hits, effects, served, exempt>>

\* hit, on a connection of its own: counted whatever becomes of the request.
\* A request over the limit, or one whose limiter is unavailable, is answered
\* and commits its claim.
Quota(w) ==
  LET t == WindowOf(now)
  IN /\ work[w].phase = "limit"
     /\ \/ /\ hits' = [hits EXCEPT ![t] = @ + 1]
           /\ IF hits[t] < PerWindow
              THEN /\ Holding(w, "run", work[w].claim, {t})
                   /\ served' = [served EXCEPT ![t] = @ + 1] /\ UNCHANGED nonces
              ELSE Release(w) /\ nonces' = nonces \union work[w].claim /\ UNCHANGED served
        \/ Release(w) /\ nonces' = nonces \union work[w].claim /\ UNCHANGED <<hits, served>>
     /\ UNCHANGED <<settingVars, sent, delivered, effects, exempt>>

\* An error inside the gate lets the request through, unclaimed and uncounted
\* from that point on.
GateRaises(w) == /\ work[w].phase \in {"verify", "claim", "limit"}
                 /\ Phase(w, "run") /\ exempt' = exempt \union {work[w].req}
                 /\ UNCHANGED <<settingVars, sent, delivered, nonces, hits, effects, served>>

\* The handler answers: with its effect, or with an error it caught.
Finish(w) == /\ work[w].phase = "run" /\ Release(w)
             /\ nonces' = nonces \union work[w].claim
             /\ \/ effects' = [effects EXCEPT ![work[w].req] = @ + 1]
                \/ UNCHANGED effects
             /\ UNCHANGED <<settingVars, sent, delivered, hits, served, exempt>>

\* Mutant: the hit is undone with the request.
HitsUndone(w) == [t \in Windows |-> IF t \in work[w].counted THEN hits[t] - 1 ELSE hits[t]]

HitsAfterRollBack(w) == hits

\* The transaction is rolled back, and its claim with it.
RollBack(w) == /\ work[w] # NoWork /\ Release(w) /\ hits' = HitsAfterRollBack(w)
            /\ UNCHANGED <<settingVars, sent, delivered, nonces, effects, served, exempt>>

\* Mutant: claims are kept for the time of one clock skew.
OlderThanSkew(n) == n.at + Skew < now

Stale(n) == n.at + Retention < now

\* _cron_gc of the nonces
CollectNonces == /\ \E n \in nonces : Stale(n)
                 /\ nonces' = {n \in nonces : ~Stale(n)}
                 /\ UNCHANGED <<settingVars, sent, delivered, hits, work, effects, served, exempt>>

(***************************************************************************)
(* Specification                                                           *)
(***************************************************************************)
GateNext ==
  \/ Tick \/ Rotate \/ RevokeKey \/ Deactivate \/ Activate \/ RevokeEmergency
  \/ \E mode \in {"enforce", "observe"} : SetSigning(mode)
  \/ \E r \in Req : Send(r) \/ \E w \in Server : Receive(w, r)
  \/ \E w \in Server : Verify(w) \/ Claim(w) \/ Quota(w) \/ GateRaises(w) \/ Finish(w) \/ RollBack(w)
  \/ CollectNonces

GateSpec == GateInit /\ [][GateNext]_gateVars

(***************************************************************************)
(* Properties                                                              *)
(***************************************************************************)
\* A signed request takes effect once at most, however often it arrives, on
\* whatever workers, through rollbacks, key rotations and the collection of
\* old nonces, as long as signing is enforced and the gate itself works.
TakesEffectOnce == \A r \in Req \ exempt : effects[r] <= 1

\* The limiter lets no more requests into the handlers in a window than its
\* limit, however many workers race for it and however many of those requests
\* are rolled back.
QuotaHeld == \A t \in Windows : served[t] <= PerWindow

\* A request that passed verification was signed with the terminal's key, or
\* with one that was in force no longer than the grace window before: a key
\* rotated out twice, or revoked, is no good however recent.
OldKeysRetire ==
  \A w \in Server :
    work[w].phase \in {"claim"} /\ work[w].req \notin AdminReq
      => inForce[sent[work[w].req].kid] + Grace + MaxRun >= now
=============================================================================
