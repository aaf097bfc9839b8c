------------------------- MODULE RequestGate_proofs -------------------------
(***************************************************************************)
(* Proofs about RequestGate: a signed request takes effect once at most,   *)
(* no window serves more than its quota, and a key that was rotated out is *)
(* no good past its grace.                                                 *)
(***************************************************************************)
EXTENDS RequestGate, TLAPS

(***************************************************************************)
(* The inductive invariants                                                *)
(***************************************************************************)
KeyRecord == [active : BOOLEAN, kid : 1 .. MaxKey, prev : 0 .. MaxKey, rotated : Nat]
WorkRecord == [phase : {"verify", "claim", "limit", "run"}, req : Req, since : Nat,
               key : KeyRecord, mode : {"enforce", "observe"},
               claim : SUBSET [req : Req, at : Nat], counted : SUBSET {WindowOf(t) : t \in Nat}]

GateTypeOK ==
  /\ now \in Nat /\ terminal \in KeyRecord /\ signing \in {"enforce", "observe"}
  /\ sent \in [Req -> [at : Nat, kid : 0 .. MaxKey]]
  /\ nonces \subseteq [req : Req, at : Nat]
  /\ work \in [Server -> WorkRecord \union {NoWork}]
  /\ effects \in [Req -> Nat] /\ exempt \subseteq Req
  /\ inForce \in [1 .. MaxKey -> Nat]

Busy(w) == work[w].phase # "idle"

\* Each request a worker runs was sent, and does not run for longer than it may.
Alive == \A w \in Server : Busy(w) => /\ sent[work[w].req] # Unsent
                                      /\ work[w].since <= now /\ now <= work[w].since + MaxRun

(***************************************************************************)
(* Keys                                                                    *)
(***************************************************************************)
\* When a key was last in force, as far as the terminal or a snapshot tells.
KeyDated(key, since) == /\ inForce[key.kid] >= since
                        /\ key.prev # 0 => inForce[key.prev] >= key.rotated

KeysDated == /\ \A k \in 1 .. MaxKey : inForce[k] <= now
             /\ KeyDated(terminal, now)
             /\ \A w \in Server : Busy(w) => KeyDated(work[w].key, work[w].since)
             /\ \A r \in Req : sent[r] # Unsent => sent[r].kid # 0

\* What passed verification was signed within the grace of its first statement.
SignedInGrace == \A w \in Server : work[w].phase = "claim" /\ work[w].req \notin AdminReq
                   => inForce[sent[work[w].req].kid] + Grace >= work[w].since

KeyInv == GateTypeOK /\ Alive /\ KeysDated /\ SignedInGrace

(***************************************************************************)
(* Nonces                                                                  *)
(***************************************************************************)
\* A request that met a gate in force everywhere.
Plain(w) == Busy(w) /\ work[w].req \notin exempt

Enforced == \A w \in Server : Plain(w) => work[w].mode = "enforce"

Unstarted == \A r \in Req : sent[r] = Unsent => effects[r] = 0 /\ \A n \in nonces : n.req # r

\* What was verified began while it was in time.
VerifiedInTime == \A w \in Server : Plain(w) /\ work[w].phase # "verify" =>
                    LET r == work[w].req
                    IN work[w].since <= sent[r].at + Skew /\ sent[r].at <= now + Skew

\* A worker past the claim holds one, for a request without an effect.
ClaimsHeld ==
  /\ \A w \in Server : Busy(w) => \A c \in work[w].claim : c.req = work[w].req
  /\ \A w \in Server : Plain(w) =>
       IF work[w].phase \in {"verify", "claim"} THEN work[w].claim = {}
       ELSE /\ work[w].claim # {} /\ effects[work[w].req] = 0
            /\ \A c \in work[w].claim : sent[c.req].at <= c.at + Skew

OneClaim == \A v, w \in Server :
  v # w /\ Plain(v) /\ Plain(w) /\ work[v].req = work[w].req => work[v].claim = {} \/ work[w].claim = {}

NoncesDated == \A n \in nonces : n.req \notin exempt => sent[n.req].at <= n.at + Skew

\* An effect is remembered for as long as its request could still be verified.
Remembered == \A r \in Req \ exempt :
  effects[r] > 0 => Seen(r) \/ now > sent[r].at + Skew + MaxRun

OnceInv == /\ Enforced /\ Unstarted /\ VerifiedInTime /\ ClaimsHeld /\ OneClaim /\ NoncesDated
           /\ Remembered /\ TakesEffectOnce

(***************************************************************************)
(* The phases of a request                                                 *)
(***************************************************************************)
LEMMA Bounds == /\ Skew \in Nat /\ Retention \in Nat /\ Grace \in Nat /\ PerWindow \in Nat
                /\ MaxRun \in Nat /\ MaxKey \in Nat \ {0}
BY GateAssumption

LEMMA BusyType == ASSUME GateTypeOK, NEW w \in Server
                  PROVE  Busy(w) <=> work[w] \in WorkRecord
BY DEF GateTypeOK, Busy, WorkRecord, NoWork

\* Going on to another phase keeps the request, its snapshot and its start.
LEMMA HoldingStep ==
  ASSUME GateTypeOK, NEW w \in Server, Busy(w), NEW p \in {"claim", "limit", "run"},
         NEW c \in SUBSET [req : Req, at : Nat], NEW n \in SUBSET {WindowOf(t) : t \in Nat}, Holding(w, p, c, n)
  PROVE  /\ work' \in [Server -> WorkRecord \union {NoWork}]
         /\ \A v \in Server : v # w => work'[v] = work[v]
         /\ work'[w].phase = p /\ work'[w].claim = c /\ work'[w].req = work[w].req
         /\ work'[w].since = work[w].since /\ work'[w].key = work[w].key
         /\ work'[w].mode = work[w].mode
BY BusyType DEF Holding, GateTypeOK, WorkRecord

LEMMA ReleaseStep ==
  ASSUME GateTypeOK, NEW w \in Server, Release(w)
  PROVE  /\ work' \in [Server -> WorkRecord \union {NoWork}]
         /\ \A v \in Server : v # w => work'[v] = work[v]
         /\ work'[w] = NoWork /\ work'[w].phase = "idle"
BY DEF Release, GateTypeOK, NoWork

(***************************************************************************)
(* Keys are good while they should be                                      *)
(***************************************************************************)
LEMMA KeyInit == GateInit => KeyInv
<1> SUFFICES ASSUME GateInit PROVE KeyInv
  OBVIOUS
<1> USE GateAssumption DEF GateInit
<1>1. GateTypeOK
  BY DEF GateTypeOK, KeyRecord, Unsent, NoWork
<1>2. Alive /\ SignedInGrace
  BY DEF Alive, SignedInGrace, Busy, NoWork
<1>3. KeysDated
  BY DEF KeysDated, KeyDated, Busy, NoWork
<1> QED BY <1>1, <1>2, <1>3 DEF KeyInv

\* A key that was in force at some time stays dated as the clock goes on.
LEMMA LaterKey ==
  ASSUME inForce \in [1 .. MaxKey -> Nat], inForce' \in [1 .. MaxKey -> Nat],
         \A k \in 1 .. MaxKey : inForce'[k] >= inForce[k],
         NEW key \in KeyRecord, NEW s \in Nat, KeyDated(key, s)
  PROVE  inForce'[key.kid] >= s /\ (key.prev # 0 => inForce'[key.prev] >= key.rotated)
<1>1. key.kid \in 1 .. MaxKey /\ key.prev \in 0 .. MaxKey /\ key.rotated \in Nat /\ MaxKey \in Nat
  BY GateAssumption DEF KeyRecord
<1>2. inForce'[key.kid] >= s
  <2>1. inForce[key.kid] \in Nat /\ inForce'[key.kid] \in Nat /\ inForce'[key.kid] >= inForce[key.kid]
    BY <1>1
  <2> QED BY <2>1 DEF KeyDated
<1>3. ASSUME key.prev # 0 PROVE inForce'[key.prev] >= key.rotated
  <2>1. key.prev \in 1 .. MaxKey
    BY <1>1, <1>3
  <2>2. inForce[key.prev] \in Nat /\ inForce'[key.prev] \in Nat /\ inForce'[key.prev] >= inForce[key.prev]
    BY <2>1
  <2> QED BY <1>1, <1>3, <2>2 DEF KeyDated
<1> QED BY <1>2, <1>3

\* So do the keys of all snapshots.
LEMMA LaterKeys ==
  ASSUME KeyInv, inForce' \in [1 .. MaxKey -> Nat], UNCHANGED <<sent, work>>,
         \A k \in 1 .. MaxKey : inForce'[k] >= inForce[k]
  PROVE  /\ (\A w \in Server : Busy(w) => KeyDated(work[w].key, work[w].since))'
         /\ SignedInGrace'
<1> USE GateAssumption DEF KeyInv
<1>1. ASSUME NEW w \in Server, Busy(w) PROVE KeyDated(work[w].key, work[w].since)'
  <2>1. work[w] \in WorkRecord /\ KeyDated(work[w].key, work[w].since)
    BY <1>1, BusyType DEF KeysDated
  <2>2. work[w].key \in KeyRecord /\ work[w].since \in Nat
    BY <2>1 DEF WorkRecord
  <2>3. /\ inForce'[work[w].key.kid] >= work[w].since
        /\ work[w].key.prev # 0 => inForce'[work[w].key.prev] >= work[w].key.rotated
    BY <2>1, <2>2, LaterKey DEF GateTypeOK
  <2> QED BY <2>3 DEF KeyDated
<1>2. ASSUME NEW w \in Server, work[w].phase = "claim", work[w].req \notin AdminReq
      PROVE  inForce'[sent[work[w].req].kid] + Grace >= work[w].since
  <2>1. Busy(w) /\ work[w] \in WorkRecord
    BY <1>2, BusyType DEF Busy
  <2> DEFINE k == sent[work[w].req].kid
  <2>2. work[w].since \in Nat /\ work[w].req \in Req
    BY <2>1 DEF WorkRecord
  <2>a. sent[work[w].req] # Unsent
    BY <2>1 DEF Alive
  <2>b. k # 0 /\ k \in 0 .. MaxKey
    BY <2>2, <2>a DEF KeysDated, GateTypeOK
  <2>3. k \in 1 .. MaxKey
    BY <2>b, Bounds
  <2>4. inForce[k] \in Nat /\ inForce'[k] \in Nat /\ inForce'[k] >= inForce[k]
    BY <2>3 DEF GateTypeOK
  <2>5. inForce[k] + Grace >= work[w].since
    BY <1>2 DEF SignedInGrace
  <2> HIDE DEF k
  <2>6. inForce'[k] + Grace >= work[w].since
    <3>1. \A a, b, g, s \in Nat : b >= a /\ a + g >= s => b + g >= s
      OBVIOUS
    <3>2. Grace \in Nat
      BY Bounds
    <3> HIDE DEF KeyInv
    <3> QED BY <2>2, <2>4, <2>5, <3>1, <3>2
  <2> QED BY <2>6 DEF k
<1>3. \A w \in Server : Busy(w)' <=> Busy(w)
  BY DEF Busy
<1> QED BY <1>1, <1>2, <1>3 DEF SignedInGrace

\* The clock stops for a request that has run for as long as it may.
LEMMA KeyTick == ASSUME KeyInv, Tick PROVE KeyInv'
<1> USE GateAssumption DEF KeyInv, GateTypeOK
<1>1. /\ now' = now + 1 /\ inForce' = [inForce EXCEPT ![terminal.kid] = now + 1]
      /\ UNCHANGED <<terminal, signing, emergency, requestVars>>
      /\ \A w \in Server : Busy(w) => now < work[w].since + MaxRun
  BY DEF Tick, Busy, NoWork
<1>2. terminal.kid \in 1 .. MaxKey
  BY DEF KeyRecord
<1>3. GateTypeOK'
  <2>1. now' \in Nat /\ inForce' \in [1 .. MaxKey -> Nat]
    BY <1>1, <1>2
  <2> QED BY <1>1, <2>1 DEF requestVars
<1>4. \A w \in Server : Busy(w)' <=> Busy(w)
  BY <1>1 DEF requestVars, Busy
<1>5. Alive'
  <2> HIDE DEF KeyInv, GateTypeOK
  <2>1. UNCHANGED <<sent, work>>
    BY <1>1 DEF requestVars
  <2>2. ASSUME NEW w \in Server, Busy(w)
        PROVE  sent[work[w].req] # Unsent /\ work[w].since <= now' /\ now' <= work[w].since + MaxRun
    <3>1. sent[work[w].req] # Unsent /\ work[w].since <= now /\ work[w].since \in Nat
      BY <2>2, BusyType DEF KeyInv, Alive, WorkRecord
    <3>2. now' = now + 1 /\ now < work[w].since + MaxRun
      BY <1>1, <2>2
    <3>3. now \in Nat
      BY DEF KeyInv, GateTypeOK
    <3> QED BY <3>1, <3>2, <3>3, Bounds
  <2> QED BY <2>1, <2>2, <1>4 DEF Alive
<1>6. \A k \in 1 .. MaxKey : inForce'[k] >= inForce[k] /\ inForce'[k] <= now'
  <2> SUFFICES ASSUME NEW k \in 1 .. MaxKey PROVE inForce'[k] >= inForce[k] /\ inForce'[k] <= now + 1
    BY <1>1
  <2>1. inForce[k] \in Nat /\ inForce[k] <= now
    BY DEF KeysDated
  <2>2. inForce'[k] = IF k = terminal.kid THEN now + 1 ELSE inForce[k]
    BY <1>1
  <2>3. now \in Nat
    OBVIOUS
  <2> HIDE DEF KeyInv, GateTypeOK
  <2> QED BY <2>1, <2>2, <2>3
<1>7. (\A w \in Server : Busy(w) => KeyDated(work[w].key, work[w].since))' /\ SignedInGrace'
  <2>1. inForce' \in [1 .. MaxKey -> Nat] /\ UNCHANGED <<sent, work>>
    BY <1>1, <1>3 DEF requestVars
  <2> HIDE DEF KeyInv, GateTypeOK
  <2> QED BY <1>6, <2>1, LaterKeys
<1>8. KeysDated'
  <2>1. inForce'[terminal.kid] = now + 1
    BY <1>1, <1>2
  <2>2. terminal.prev # 0 => inForce'[terminal.prev] >= terminal.rotated
    <3>1. terminal \in KeyRecord /\ KeyDated(terminal, now) /\ inForce' \in [1 .. MaxKey -> Nat]
      BY <1>3 DEF KeysDated
    <3> QED BY <1>6, <3>1, LaterKey
  <2>3. KeyDated(terminal, now)'
    BY <1>1, <2>1, <2>2 DEF KeyDated
  <2>4. (\A k \in 1 .. MaxKey : inForce[k] <= now)'
    BY <1>6
  <2>5. \A r \in Req : sent'[r] # Unsent => sent'[r].kid # 0
    BY <1>1 DEF requestVars, KeysDated
  <2> QED BY <1>7, <2>3, <2>4, <2>5 DEF KeysDated, KeyDated
<1> QED BY <1>3, <1>5, <1>7, <1>8

\* A rotation puts the next key in force and remembers when it took over.
LEMMA KeyRotate == ASSUME KeyInv, Rotate PROVE KeyInv'
<1> USE GateAssumption DEF KeyInv, GateTypeOK
<1>1. /\ terminal.kid < MaxKey /\ terminal.kid \in 1 .. MaxKey
      /\ terminal' = [active |-> terminal.active, kid |-> terminal.kid + 1,
                      prev |-> terminal.kid, rotated |-> now]
      /\ inForce' = [inForce EXCEPT ![terminal.kid + 1] = now]
      /\ UNCHANGED <<now, signing, emergency, requestVars>>
  BY DEF Rotate, KeyRecord
<1>2. terminal' \in KeyRecord
  <2> DEFINE n == terminal.kid
  <2>a. n \in 1 .. MaxKey /\ n < MaxKey /\ terminal.active \in BOOLEAN /\ now \in Nat
    BY <1>1 DEF KeyRecord
  <2> HIDE DEF n
  <2>b. n + 1 \in 1 .. MaxKey /\ n \in 0 .. MaxKey
    BY <2>a, Bounds
  <2>1. /\ terminal.active \in BOOLEAN /\ terminal.kid + 1 \in 1 .. MaxKey
        /\ terminal.kid \in 0 .. MaxKey /\ now \in Nat
    BY <2>a, <2>b DEF n
  <2>2. [active |-> terminal.active, kid |-> terminal.kid + 1, prev |-> terminal.kid, rotated |-> now]
           \in KeyRecord
    BY <2>1, Zenon DEF KeyRecord
  <2> QED BY <1>1, <2>2
<1>3. GateTypeOK'
  BY <1>1, <1>2 DEF requestVars
<1>4. \A k \in 1 .. MaxKey : inForce'[k] >= inForce[k] /\ inForce'[k] <= now'
  <2> SUFFICES ASSUME NEW k \in 1 .. MaxKey PROVE inForce'[k] >= inForce[k] /\ inForce'[k] <= now
    BY <1>1
  <2>1. inForce[k] \in Nat /\ inForce[k] <= now /\ now \in Nat
    BY DEF KeysDated
  <2>2. inForce'[k] = now \/ inForce'[k] = inForce[k]
    BY <1>1
  <2> QED BY <2>1, <2>2
<1>5. Alive'
  BY <1>1 DEF requestVars, Alive, Busy
<1>6. (\A w \in Server : Busy(w) => KeyDated(work[w].key, work[w].since))' /\ SignedInGrace'
  <2>1. inForce' \in [1 .. MaxKey -> Nat] /\ UNCHANGED <<sent, work>>
    BY <1>1, <1>3 DEF requestVars
  <2> HIDE DEF KeyInv, GateTypeOK
  <2> QED BY <1>4, <2>1, LaterKeys
<1>7. KeysDated'
  <2>1. inForce'[terminal.kid + 1] = now /\ inForce'[terminal.kid] = inForce[terminal.kid]
    <3> DEFINE k == terminal.kid
    <3>1. k \in 1 .. MaxKey /\ k < MaxKey
      BY <1>1
    <3>2. inForce' = [inForce EXCEPT ![k + 1] = now] /\ inForce \in [1 .. MaxKey -> Nat]
      BY <1>1
    <3> HIDE DEF k, KeyInv, GateTypeOK
    <3>3. inForce'[k + 1] = now /\ inForce'[k] = inForce[k]
      BY <3>1, <3>2, Bounds
    <3> QED BY <3>3 DEF k
  <2>2. KeyDated(terminal, now)'
    BY <1>1, <2>1 DEF KeysDated, KeyDated
  <2>3. (\A k \in 1 .. MaxKey : inForce[k] <= now)'
    BY <1>4
  <2>4. \A r \in Req : sent'[r] # Unsent => sent'[r].kid # 0
    BY <1>1 DEF requestVars, KeysDated
  <2> QED BY <1>6, <2>2, <2>3, <2>4 DEF KeysDated, KeyDated
<1> QED BY <1>3, <1>5, <1>6, <1>7

\* The other settings leave the clock and the keys in force alone.
LEMMA KeySettings ==
  ASSUME KeyInv, RevokeKey \/ Deactivate \/ Activate \/ RevokeEmergency
                   \/ \E mode \in {"enforce", "observe"} : SetSigning(mode)
  PROVE  KeyInv' /\ UNCHANGED <<now, inForce, requestVars>>
<1> USE GateAssumption DEF KeyInv, GateTypeOK
<1>1. UNCHANGED <<now, inForce, requestVars>>
  BY DEF RevokeKey, Deactivate, Activate, RevokeEmergency, SetSigning
<1>2. /\ terminal' \in KeyRecord /\ signing' \in {"enforce", "observe"}
      /\ terminal'.kid = terminal.kid
      /\ terminal'.prev # 0 => terminal'.prev = terminal.prev /\ terminal'.rotated = terminal.rotated
  <2>1. CASE RevokeKey
    <3>1. terminal' = [active |-> terminal.active, kid |-> terminal.kid, prev |-> 0, rotated |-> now]
      BY <2>1 DEF RevokeKey
    <3>2. terminal.active \in BOOLEAN /\ terminal.kid \in 1 .. MaxKey /\ 0 \in 0 .. MaxKey /\ now \in Nat
      BY Bounds DEF KeyRecord
    <3>3. [active |-> terminal.active, kid |-> terminal.kid, prev |-> 0, rotated |-> now] \in KeyRecord
      BY <3>2, Zenon DEF KeyRecord
    <3>4. terminal'.kid = terminal.kid /\ terminal'.prev = 0
      BY <3>1
    <3> QED BY <2>1, <3>1, <3>3, <3>4 DEF RevokeKey
  <2>2. CASE Deactivate
    BY <2>2 DEF Deactivate, KeyRecord
  <2>3. CASE Activate \/ RevokeEmergency \/ \E mode \in {"enforce", "observe"} : SetSigning(mode)
    BY <2>3 DEF Activate, RevokeEmergency, SetSigning
  <2> QED BY <2>1, <2>2, <2>3
<1>3. GateTypeOK'
  BY <1>1, <1>2 DEF requestVars
<1>4. Alive' /\ SignedInGrace'
  BY <1>1 DEF Alive, SignedInGrace, Busy, requestVars
<1>5. KeysDated'
  BY <1>1, <1>2 DEF KeysDated, KeyDated, Busy, requestVars
<1> QED BY <1>1, <1>3, <1>4, <1>5

\* A request that goes on keeps its key; one that is verified had a good one.
LEMMA KeyRequest ==
  ASSUME KeyInv, GateTypeOK', UNCHANGED <<now, terminal, inForce, sent>>,
         \A w \in Server : Busy(w)' =>
           /\ Busy(w) /\ work'[w].req = work[w].req /\ work'[w].since = work[w].since
           /\ work'[w].key = work[w].key
           /\ work'[w].phase = "claim" /\ work[w].req \notin AdminReq =>
                work[w].phase = "claim" \/ KeyGood(work[w].key, sent[work[w].req].kid)
  PROVE  KeyInv'
<1> USE DEF KeyInv
<1>1. Alive'
  BY DEF Alive, Busy
<1>2. KeysDated'
  BY DEF KeysDated, KeyDated, Busy
<1>3. SignedInGrace'
  <2> SUFFICES ASSUME NEW w \in Server, work'[w].phase = "claim", work[w].req \notin AdminReq, Busy(w)'
               PROVE  inForce[sent[work[w].req].kid] + Grace >= work[w].since
    BY DEF SignedInGrace, Busy
  <2>1. Busy(w) /\ work[w] \in WorkRecord
    BY BusyType
  <2>2. CASE work[w].phase = "claim"
    BY <2>2 DEF SignedInGrace
  <2>3. CASE work[w].phase # "claim"
    <3> DEFINE key == work[w].key
               kid == sent[work[w].req].kid
    <3>1. KeyGood(key, kid) /\ KeyDated(key, work[w].since)
      BY <2>1, <2>3 DEF KeysDated
    <3>2. key \in KeyRecord /\ work[w].since \in Nat /\ work[w].req \in Req
      BY <2>1 DEF WorkRecord
    <3>3. kid \in 1 .. MaxKey
      BY <2>1, <3>2, Bounds DEF Alive, KeysDated, GateTypeOK
    <3>4. work[w].since <= now /\ now \in Nat
      BY <2>1 DEF Alive, GateTypeOK
    <3>5. inForce[kid] \in Nat
      BY <3>3 DEF GateTypeOK
    <3> HIDE DEF key, kid
    <3>6. key.rotated \in Nat
      BY <3>2 DEF KeyRecord
    <3>7. inForce[kid] + Grace >= work[w].since
      BY <3>1, <3>2, <3>3, <3>4, <3>5, <3>6, Bounds DEF KeyGood, InGrace, KeyDated
    <3> QED BY <3>7 DEF kid
  <2> QED BY <2>2, <2>3
<1> QED BY <1>1, <1>2, <1>3

\* The steps of a worker, up to the answer, keep the kinds of the variables.
LEMMA WorkerType ==
  ASSUME KeyInv, NEW w \in Server,
         Verify(w) \/ Claim(w) \/ Quota(w) \/ GateRaises(w) \/ Finish(w) \/ RollBack(w)
  PROVE  /\ GateTypeOK' /\ Busy(w) /\ UNCHANGED <<settingVars, sent, delivered>>
         /\ \A v \in Server : v # w => work'[v] = work[v]
         /\ work'[w].phase # "idle" =>
              /\ work'[w].req = work[w].req /\ work'[w].since = work[w].since
              /\ work'[w].key = work[w].key /\ work'[w].mode = work[w].mode
<1> USE DEF KeyInv
<1>1. Busy(w) /\ work[w] \in WorkRecord
  BY BusyType DEF Verify, Claim, Quota, GateRaises, Finish, RollBack, Busy, GateTypeOK, NoWork
<1>2. UNCHANGED <<settingVars, sent, delivered>>
  BY DEF Verify, Claim, Quota, GateRaises, Finish, RollBack
<1>3. /\ work[w].claim \in SUBSET [req : Req, at : Nat] /\ work[w].counted \in SUBSET {WindowOf(t) : t \in Nat}
      /\ work[w].req \in Req
  BY <1>1 DEF WorkRecord
<1>4. \/ Release(w)
      \/ \E p \in {"claim", "limit", "run"}, c \in SUBSET [req : Req, at : Nat], n \in SUBSET {WindowOf(t) : t \in Nat} :
           Holding(w, p, c, n)
  <2>1. {[req |-> work[w].req, at |-> now]} \in SUBSET [req : Req, at : Nat]
    BY <1>3 DEF GateTypeOK
  <2>2. {WindowOf(now)} \in SUBSET {WindowOf(t) : t \in Nat}
    BY DEF GateTypeOK
  <2>3. CASE Verify(w)
    BY <1>3, <2>3 DEF Verify, Phase
  <2>4. CASE Claim(w)
    BY <1>3, <2>1, <2>4 DEF Claim, Phase
  <2>5. CASE Quota(w)
    BY <1>3, <2>2, <2>5 DEF Quota
  <2>6. CASE GateRaises(w)
    BY <1>3, <2>6 DEF GateRaises, Phase
  <2> QED BY <2>3, <2>4, <2>5, <2>6 DEF Finish, RollBack
<1>5. /\ work' \in [Server -> WorkRecord \union {NoWork}]
      /\ \A v \in Server : v # w => work'[v] = work[v]
      /\ work'[w].phase # "idle" =>
           /\ work'[w].req = work[w].req /\ work'[w].since = work[w].since
           /\ work'[w].key = work[w].key /\ work'[w].mode = work[w].mode
  BY <1>1, <1>4, HoldingStep, ReleaseStep
<1>6. nonces' \subseteq [req : Req, at : Nat]
  BY <1>3 DEF Verify, Claim, Quota, GateRaises, Finish, RollBack, GateTypeOK
<1>7. effects' \in [Req -> Nat] /\ exempt' \subseteq Req
  <2>1. \/ UNCHANGED <<effects, exempt>>
        \/ UNCHANGED exempt /\ effects' = [effects EXCEPT ![work[w].req] = @ + 1]
        \/ UNCHANGED effects /\ exempt' = exempt \union {work[w].req}
    BY DEF Verify, Claim, Quota, GateRaises, Finish, RollBack
  <2> QED BY <1>3, <2>1 DEF GateTypeOK
<1>8. GateTypeOK'
  BY <1>2, <1>5, <1>6, <1>7 DEF GateTypeOK, settingVars
<1> QED BY <1>1, <1>2, <1>5, <1>8

LEMMA KeyWorker ==
  ASSUME KeyInv, NEW w \in Server,
         Verify(w) \/ Claim(w) \/ Quota(w) \/ GateRaises(w) \/ Finish(w) \/ RollBack(w)
  PROVE  KeyInv'
<1>1. /\ GateTypeOK' /\ Busy(w) /\ UNCHANGED <<settingVars, sent, delivered>>
      /\ \A v \in Server : v # w => work'[v] = work[v]
      /\ work'[w].phase # "idle" =>
           /\ work'[w].req = work[w].req /\ work'[w].since = work[w].since
           /\ work'[w].key = work[w].key
  BY WorkerType
<1>2. GateTypeOK
  BY DEF KeyInv
<1>3. ASSUME work'[w].phase = "claim", work[w].req \notin AdminReq
      PROVE  KeyGood(work[w].key, sent[work[w].req].kid)
  <2>1. CASE Verify(w)
    <3>1. \/ work[w].req \in AdminReq \/ KeyGood(work[w].key, sent[work[w].req].kid)
          \/ Release(w) \/ Phase(w, "limit")
      BY <2>1 DEF Verify
    <3>2. Release(w) \/ Phase(w, "limit") => work'[w].phase # "claim"
      BY <1>2 DEF Release, Phase, Holding, NoWork, GateTypeOK
    <3> QED BY <1>3, <3>1, <3>2
  <2>2. CASE Claim(w) \/ Quota(w) \/ GateRaises(w) \/ Finish(w) \/ RollBack(w)
    <3>1. \/ Release(w) \/ \E p \in {"limit", "run"} : \E c, n : Holding(w, p, c, n)
      BY <2>2 DEF Claim, Quota, GateRaises, Finish, RollBack, Phase
    <3>2. work'[w].phase # "claim"
      BY <1>2, <3>1 DEF Release, Holding, NoWork, GateTypeOK
    <3> QED BY <1>3, <3>2
  <2> QED BY <2>1, <2>2
<1>4. \A v \in Server : Busy(v)' =>
           /\ Busy(v) /\ work'[v].req = work[v].req /\ work'[v].since = work[v].since
           /\ work'[v].key = work[v].key
           /\ work'[v].phase = "claim" /\ work[v].req \notin AdminReq =>
                work[v].phase = "claim" \/ KeyGood(work[v].key, sent[work[v].req].kid)
  BY <1>1, <1>3 DEF Busy
<1> QED BY <1>1, <1>4, KeyRequest DEF settingVars

\* A request is signed with the key in force, and served from a snapshot.
LEMMA KeySend == ASSUME KeyInv, NEW r \in Req, Send(r) PROVE KeyInv'
<1> USE DEF KeyInv
<1>1. PICK d \in {0, Skew} : sent' = [sent EXCEPT ![r] = [at |-> now + d, kid |-> terminal.kid]]
  BY DEF Send
<1>2. UNCHANGED <<now, terminal, signing, inForce, work, nonces, effects, exempt>> /\ sent[r] = Unsent
  BY DEF Send, settingVars
<1>3. terminal.kid \in 1 .. MaxKey
  BY DEF GateTypeOK, KeyRecord
<1> DEFINE msg == [at |-> now + d, kid |-> terminal.kid]
<1>4. msg \in [at : Nat, kid : 0 .. MaxKey] /\ msg.kid = terminal.kid
  BY <1>3, Bounds DEF GateTypeOK
<1> HIDE DEF msg
<1>5. sent' = [sent EXCEPT ![r] = msg]
  BY <1>1 DEF msg
<1>6. GateTypeOK'
  BY <1>2, <1>4, <1>5 DEF GateTypeOK
<1>7. \A q \in Req : sent[q] # Unsent => sent'[q] = sent[q]
  BY <1>2, <1>5 DEF GateTypeOK
<1>8. \A w \in Server : Busy(w) => work[w].req \in Req /\ sent'[work[w].req] = sent[work[w].req]
  BY <1>7, BusyType DEF Alive, WorkRecord
<1>9. Alive' /\ SignedInGrace'
  BY <1>2, <1>8 DEF Alive, SignedInGrace, Busy
<1>10. KeysDated'
  <2>1. \A q \in Req : sent'[q] # Unsent => sent'[q].kid # 0
    BY <1>3, <1>4, <1>5 DEF KeysDated, GateTypeOK
  <2> QED BY <1>2, <2>1 DEF KeysDated, KeyDated, Busy
<1> QED BY <1>6, <1>9, <1>10

LEMMA KeyReceive == ASSUME KeyInv, NEW w \in Server, NEW r \in Req, Receive(w, r) PROVE KeyInv'
<1> USE DEF KeyInv
<1> DEFINE new == [phase |-> "verify", req |-> r, since |-> now, claim |-> {}, key |-> terminal,
                   mode |-> signing, counted |-> {}]
<1>1. /\ UNCHANGED <<now, terminal, signing, inForce, sent, nonces, effects>>
      /\ work[w] = NoWork /\ sent[r] # Unsent /\ exempt' \subseteq exempt \union {r}
      /\ work' = work \/ work' = [work EXCEPT ![w] = new]
  BY DEF Receive, settingVars
<1>2. new \in WorkRecord /\ new.phase = "verify" /\ new.req = r /\ new.since = now /\ new.key = terminal
  BY DEF WorkRecord, GateTypeOK
<1> HIDE DEF new
<1>3. GateTypeOK'
  BY <1>1, <1>2 DEF GateTypeOK
<1>4. \A v \in Server : work'[v] = work[v] \/ (v = w /\ work'[v] = new)
  <2>1. work \in [Server -> WorkRecord \union {NoWork}]
    BY DEF GateTypeOK
  <2>2. CASE work' = [work EXCEPT ![w] = new]
    BY <2>1, <2>2
  <2> QED BY <1>1, <2>2
<1>5. Alive'
  BY <1>1, <1>2, <1>4, Bounds DEF Alive, Busy, GateTypeOK
<1>6. KeysDated'
  BY <1>1, <1>2, <1>4 DEF KeysDated, KeyDated, Busy
<1>7. SignedInGrace'
  BY <1>1, <1>2, <1>4 DEF SignedInGrace
<1> QED BY <1>3, <1>5, <1>6, <1>7

LEMMA KeyStep == KeyInv /\ [GateNext]_gateVars => KeyInv'
<1> SUFFICES ASSUME KeyInv, [GateNext]_gateVars PROVE KeyInv'
  OBVIOUS
<1>1. CASE CollectNonces
  <2>1. UNCHANGED <<now, terminal, signing, inForce, sent, work, effects, exempt>> /\ nonces' \subseteq nonces
    BY <1>1 DEF CollectNonces, settingVars
  <2> QED BY <2>1 DEF KeyInv, GateTypeOK, Alive, KeysDated, KeyDated, SignedInGrace, Busy
<1>2. CASE UNCHANGED gateVars
  BY <1>2 DEF gateVars, KeyInv, GateTypeOK, Alive, KeysDated, KeyDated, SignedInGrace, Busy
<1> QED BY <1>1, <1>2, KeyTick, KeyRotate, KeySettings, KeySend, KeyReceive, KeyWorker DEF GateNext

\* A request that was let on was signed no longer ago than the grace allows.
LEMMA KeysRetire == KeyInv => OldKeysRetire
<1> SUFFICES ASSUME KeyInv, NEW w \in Server, work[w].phase = "claim", work[w].req \notin AdminReq
             PROVE  inForce[sent[work[w].req].kid] + Grace + MaxRun >= now
  BY DEF OldKeysRetire
<1>1. Busy(w) /\ work[w] \in WorkRecord
  BY BusyType DEF Busy, KeyInv
<1>2. /\ work[w].since \in Nat /\ now \in Nat /\ now <= work[w].since + MaxRun
      /\ inForce[sent[work[w].req].kid] + Grace >= work[w].since
  BY <1>1 DEF WorkRecord, KeyInv, GateTypeOK, Alive, SignedInGrace
<1>3. sent[work[w].req].kid \in 1 .. MaxKey
  BY <1>1, Bounds DEF WorkRecord, KeyInv, GateTypeOK, Alive, KeysDated
<1>4. inForce[sent[work[w].req].kid] \in Nat
  BY <1>3 DEF KeyInv, GateTypeOK
<1> DEFINE i == inForce[sent[work[w].req].kid]
           s == work[w].since
<1>5. i \in Nat /\ s \in Nat /\ now <= s + MaxRun /\ i + Grace >= s
  BY <1>2, <1>4
<1> HIDE DEF i, s
<1>6. i + Grace + MaxRun >= now
  BY <1>2, <1>5, Bounds
<1> QED BY <1>6 DEF i

(***************************************************************************)
(* A request takes effect once                                             *)
(***************************************************************************)
LEMMA OnceInit == GateInit => OnceInv
BY DEF GateInit, OnceInv, Enforced, Unstarted, VerifiedInTime, ClaimsHeld, OneClaim, NoncesDated,
       Remembered, TakesEffectOnce, Plain, Busy, NoWork

\* Time passes, a setting changes, or requests are exempted.
LEMMA OnceSettings ==
  ASSUME KeyInv, OnceInv, now' \in Nat, now <= now', UNCHANGED <<sent, nonces, work, effects, exempt>>
  PROVE  OnceInv'
<1> USE DEF OnceInv
<1>1. Enforced' /\ Unstarted' /\ ClaimsHeld' /\ OneClaim' /\ NoncesDated' /\ TakesEffectOnce'
  BY DEF Enforced, Unstarted, ClaimsHeld, OneClaim, NoncesDated, TakesEffectOnce, Plain, Busy
<1>2. \A r \in Req : sent[r].at \in Nat
  BY DEF KeyInv, GateTypeOK
<1>3. now \in Nat
  BY DEF KeyInv, GateTypeOK
<1>4. VerifiedInTime'
  <2> SUFFICES ASSUME NEW w \in Server, Plain(w), work[w].phase # "verify"
               PROVE  /\ work[w].since <= sent[work[w].req].at + Skew
                      /\ sent[work[w].req].at <= now' + Skew
    BY DEF VerifiedInTime, Plain, Busy
  <2>1. /\ work[w].since <= sent[work[w].req].at + Skew
        /\ sent[work[w].req].at <= now + Skew
    BY DEF VerifiedInTime
  <2>2. sent[work[w].req].at \in Nat
    BY <1>2, BusyType DEF Plain, WorkRecord, KeyInv
  <2> QED BY <1>3, <2>1, <2>2, Bounds
<1>5. Remembered'
  <2> SUFFICES ASSUME NEW r \in Req \ exempt, effects[r] > 0, ~Seen(r)
               PROVE  now' > sent[r].at + Skew + MaxRun
    BY DEF Remembered, Seen
  <2>1. now > sent[r].at + Skew + MaxRun
    BY DEF Remembered
  <2> QED BY <1>2, <1>3, <2>1, Bounds
<1> QED BY <1>1, <1>4, <1>5

\* A request that ends without an effect commits its claim, or drops it.
LEMMA OnceIdle ==
  ASSUME KeyInv, OnceInv, NEW w \in Server, Busy(w), UNCHANGED <<now, sent, effects, exempt>>,
         \A v \in Server : v # w => work'[v] = work[v], work'[w].phase = "idle",
         nonces' = nonces \/ nonces' = nonces \union work[w].claim
  PROVE  OnceInv'
<1> USE DEF OnceInv
<1>1. \A v \in Server : Plain(v)' => Plain(v) /\ v # w /\ work'[v] = work[v]
  BY DEF Plain, Busy
<1>2. work[w].req \in Req /\ sent[work[w].req] # Unsent
  BY BusyType DEF KeyInv, WorkRecord, Alive
<1>3. Enforced' /\ VerifiedInTime' /\ OneClaim' /\ TakesEffectOnce'
  BY <1>1 DEF Enforced, VerifiedInTime, OneClaim, TakesEffectOnce
<1>4. ClaimsHeld'
  BY <1>1 DEF ClaimsHeld, Busy, Plain
<1>5. \A n \in nonces' : n \in nonces \/ (n \in work[w].claim /\ n.req = work[w].req)
  <2>1. \A c \in work[w].claim : c.req = work[w].req
    BY DEF ClaimsHeld
  <2> TAKE n \in nonces'
  <2>2. n \in nonces \/ n \in work[w].claim
    OBVIOUS
  <2> QED BY <2>1, <2>2
<1>6. Unstarted'
  BY <1>2, <1>5 DEF Unstarted
<1>7. NoncesDated'
  BY <1>5 DEF NoncesDated, ClaimsHeld, Plain
<1>8. Remembered'
  BY DEF Remembered, Seen
<1> QED BY <1>3, <1>4, <1>6, <1>7, <1>8

\* An effect is the first of its request, whose claim is committed with it.
LEMMA OnceEffect ==
  ASSUME KeyInv, OnceInv, NEW w \in Server, work[w].phase = "run",
         UNCHANGED <<now, sent, exempt>>, effects' = [effects EXCEPT ![work[w].req] = @ + 1],
         \A v \in Server : v # w => work'[v] = work[v], work'[w].phase = "idle",
         nonces' = nonces \union work[w].claim
  PROVE  OnceInv'
<1> USE DEF OnceInv
<1>0. Busy(w)
  BY DEF Busy
<1>1. \A v \in Server : Plain(v)' => Plain(v) /\ v # w /\ work'[v] = work[v]
  BY DEF Plain, Busy
<1>2. work[w].req \in Req /\ sent[work[w].req] # Unsent
  BY <1>0, BusyType DEF KeyInv, WorkRecord, Alive
<1>3. Plain(w) => work[w].claim # {} /\ effects[work[w].req] = 0
  BY DEF ClaimsHeld
<1>4. \A r \in Req : effects'[r] = IF r = work[w].req THEN effects[r] + 1 ELSE effects[r]
  BY <1>2 DEF KeyInv, GateTypeOK
<1>5. Enforced' /\ VerifiedInTime' /\ OneClaim'
  BY <1>1 DEF Enforced, VerifiedInTime, OneClaim
<1>6. ClaimsHeld'
  <2>1. \A v \in Server : Busy(v)' => \A c \in work'[v].claim : c.req = work'[v].req
    BY DEF ClaimsHeld, Busy
  <2>2. ASSUME NEW v \in Server, Plain(v)'
        PROVE  IF work'[v].phase \in {"verify", "claim"} THEN work'[v].claim = {}
               ELSE /\ work'[v].claim # {} /\ effects'[work'[v].req] = 0
                    /\ \A c \in work'[v].claim : sent'[c.req].at <= c.at + Skew
    <3>1. Plain(v) /\ v # w /\ work'[v] = work[v] /\ work[v].req \in Req
      BY <1>1, <2>2, BusyType DEF Plain, KeyInv, WorkRecord
    <3>2. work[v].req = work[w].req => work[v].claim = {}
      BY <1>0, <1>3, <3>1 DEF OneClaim, Plain
    <3> QED BY <1>4, <3>1, <3>2 DEF ClaimsHeld
  <2> QED BY <2>1, <2>2 DEF ClaimsHeld
<1>7. \A n \in nonces' : n \in nonces \/ (n \in work[w].claim /\ n.req = work[w].req)
  <2>1. \A c \in work[w].claim : c.req = work[w].req
    BY <1>0 DEF ClaimsHeld
  <2> TAKE n \in nonces'
  <2>2. n \in nonces \/ n \in work[w].claim
    OBVIOUS
  <2> QED BY <2>1, <2>2
<1>8. Unstarted'
  BY <1>2, <1>4, <1>7 DEF Unstarted
<1>9. NoncesDated'
  BY <1>0, <1>7 DEF NoncesDated, ClaimsHeld, Plain
<1>10. work[w].req \notin exempt => \E n \in nonces' : n.req = work[w].req
  <2> SUFFICES ASSUME work[w].req \notin exempt PROVE \E n \in nonces' : n.req = work[w].req
    OBVIOUS
  <2>1. PICK c \in work[w].claim : TRUE
    BY <1>0, <1>3 DEF Plain
  <2>2. c \in nonces' /\ c.req = work[w].req
    BY <1>0, <2>1 DEF ClaimsHeld
  <2> QED BY <2>2
<1>11. Remembered'
  BY <1>4, <1>10 DEF Remembered, Seen
<1>12. TakesEffectOnce'
  BY <1>0, <1>3, <1>4 DEF TakesEffectOnce, Plain
<1> QED BY <1>5, <1>6, <1>8, <1>9, <1>11, <1>12

\* A request that goes on as it is was in time, or its gate is exempt.
LEMMA OncePhase ==
  ASSUME KeyInv, OnceInv, NEW w \in Server, Busy(w), UNCHANGED <<now, sent, nonces, effects>>,
         exempt \subseteq exempt', \A v \in Server : v # w => work'[v] = work[v],
         work'[w].req = work[w].req, work'[w].since = work[w].since,
         work'[w].mode = work[w].mode, work'[w].claim = work[w].claim, Busy(w)',
         \/ work[w].req \in exempt'
         \/ work[w].phase = "limit" /\ work'[w].phase = "run"
         \/ work[w].phase = "verify" /\ work'[w].phase = "claim" /\ InTime(work[w].req)
  PROVE  OnceInv'
<1> USE DEF OnceInv
<1>1. \A v \in Server : Plain(v)' => Plain(v) /\ (v # w => work'[v] = work[v])
  BY DEF Plain, Busy
<1>2. Enforced' /\ OneClaim'
  <2>1. \A v \in Server : work'[v].req = work[v].req /\ work'[v].claim = work[v].claim
                          /\ work'[v].mode = work[v].mode
    OBVIOUS
  <2> QED BY <1>1, <2>1 DEF Enforced, OneClaim
<1>3. Unstarted' /\ NoncesDated' /\ Remembered' /\ TakesEffectOnce'
  BY DEF Unstarted, NoncesDated, Remembered, TakesEffectOnce, Seen
<1>4. VerifiedInTime'
  <2> SUFFICES ASSUME NEW v \in Server, Plain(v)', work'[v].phase # "verify"
               PROVE  /\ work'[v].since <= sent[work'[v].req].at + Skew
                      /\ sent[work'[v].req].at <= now + Skew
    BY DEF VerifiedInTime
  <2>1. CASE v # w \/ work[v].phase # "verify"
    BY <1>1, <2>1 DEF VerifiedInTime
  <2>2. CASE v = w /\ work[v].phase = "verify"
    <3>1. InTime(work[w].req)
      BY <2>2 DEF Plain
    <3>2. work[w].since \in Nat /\ work[w].req \in Req /\ work[w].since <= now
      BY BusyType DEF KeyInv, WorkRecord, Alive
    <3>3. sent[work[w].req].at \in Nat /\ now \in Nat
      BY <3>2 DEF KeyInv, GateTypeOK
    <3>4. work[w].since <= sent[work[w].req].at + Skew /\ sent[work[w].req].at <= now + Skew
      BY <3>1, <3>2, <3>3, Bounds DEF InTime
    <3> QED BY <2>2, <3>4
  <2> QED BY <2>1, <2>2
<1>5. ClaimsHeld'
  <2>1. \A v \in Server : Busy(v)' => \A c \in work'[v].claim : c.req = work'[v].req
    BY DEF ClaimsHeld, Busy
  <2>2. ASSUME NEW v \in Server, Plain(v)'
        PROVE  IF work'[v].phase \in {"verify", "claim"} THEN work'[v].claim = {}
               ELSE /\ work'[v].claim # {} /\ effects'[work'[v].req] = 0
                    /\ \A c \in work'[v].claim : sent'[c.req].at <= c.at + Skew
    <3>1. Plain(v)
      BY <1>1, <2>2
    <3>2. CASE v # w
      BY <3>1, <3>2 DEF ClaimsHeld
    <3>3. CASE v = w
      BY <2>2, <3>1, <3>3 DEF ClaimsHeld, Plain
    <3> QED BY <3>2, <3>3
  <2> QED BY <2>1, <2>2 DEF ClaimsHeld
<1> QED BY <1>2, <1>3, <1>4, <1>5

\* A claim is granted while its request has had no effect.
LEMMA OnceClaim ==
  ASSUME KeyInv, OnceInv, NEW w \in Server, work[w].phase = "claim", ~Seen(work[w].req),
         UNCHANGED <<now, sent, nonces, effects, exempt>>,
         \A v \in Server \ {w} : work[v] # NoWork /\ work[v].req = work[w].req => work[v].claim = {},
         Holding(w, "limit", {[req |-> work[w].req, at |-> now]}, work[w].counted)
  PROVE  OnceInv'
<1> USE DEF OnceInv
<1> DEFINE r == work[w].req
           new == [req |-> r, at |-> now]
<1>1. Busy(w) /\ work[w] \in WorkRecord
  BY BusyType DEF Busy, KeyInv
<1>2. r \in Req /\ work[w].since \in Nat /\ now \in Nat /\ sent[r].at \in Nat
  BY <1>1 DEF WorkRecord, KeyInv, GateTypeOK
<1>3. new.req = r /\ new.at = now /\ {new} \in SUBSET [req : Req, at : Nat]
  BY <1>2
<1>4. /\ \A v \in Server : v # w => work'[v] = work[v]
      /\ work'[w].phase = "limit" /\ work'[w].claim = {new} /\ work'[w].req = r
      /\ work'[w].since = work[w].since /\ work'[w].mode = work[w].mode
  BY <1>1, <1>3, HoldingStep DEF KeyInv, WorkRecord
<1> HIDE DEF r, new
<1>5. \A v \in Server : Plain(v)' => Plain(v) /\ work'[v].req = work[v].req
  BY <1>1, <1>4 DEF Plain, Busy, r
<1>6. Enforced' /\ VerifiedInTime'
  BY <1>4, <1>5 DEF Enforced, VerifiedInTime, r
<1>7. Unstarted' /\ NoncesDated' /\ Remembered' /\ TakesEffectOnce'
  BY DEF Unstarted, NoncesDated, Remembered, TakesEffectOnce, Seen
<1>8. ASSUME r \notin exempt PROVE effects[r] = 0 /\ sent[r].at <= now + Skew
  <2>1. work[w].since <= sent[r].at + Skew /\ sent[r].at <= now + Skew
    BY <1>1, <1>8 DEF VerifiedInTime, Plain, r
  <2>2. now <= work[w].since + MaxRun
    BY <1>1 DEF KeyInv, Alive
  <2>3. ~(now > sent[r].at + Skew + MaxRun)
    BY <1>2, <2>1, <2>2, Bounds
  <2>4. ~(effects[r] > 0)
    BY <1>2, <1>8, <2>3 DEF Remembered, r
  <2> QED BY <1>2, <2>1, <2>4 DEF KeyInv, GateTypeOK
<1>9. ClaimsHeld'
  <2>1. \A v \in Server : Busy(v)' => \A c \in work'[v].claim : c.req = work'[v].req
    BY <1>3, <1>4 DEF ClaimsHeld, Busy
  <2>2. ASSUME NEW v \in Server, Plain(v)'
        PROVE  IF work'[v].phase \in {"verify", "claim"} THEN work'[v].claim = {}
               ELSE /\ work'[v].claim # {} /\ effects'[work'[v].req] = 0
                    /\ \A c \in work'[v].claim : sent'[c.req].at <= c.at + Skew
    <3>1. CASE v # w
      BY <1>4, <1>5, <2>2, <3>1 DEF ClaimsHeld
    <3>2. CASE v = w
      <4>1. r \notin exempt
        BY <1>4, <2>2, <3>2 DEF Plain
      <4> QED BY <1>3, <1>4, <1>8, <3>2, <4>1
    <3> QED BY <3>1, <3>2
  <2> QED BY <2>1, <2>2 DEF ClaimsHeld
<1>10. OneClaim'
  <2> SUFFICES ASSUME NEW u \in Server, NEW v \in Server, u # v, Plain(u)', Plain(v)',
                      work'[u].req = work'[v].req
               PROVE  work'[u].claim = {} \/ work'[v].claim = {}
    BY DEF OneClaim
  <2>1. Plain(u) /\ Plain(v) /\ work[u].req = work[v].req
    BY <1>5
  <2>2. work[u] # NoWork /\ work[v] # NoWork
    BY <2>1, BusyType DEF Plain, Busy, NoWork
  <2>3. CASE u # w /\ v # w
    BY <1>4, <2>1, <2>3 DEF OneClaim
  <2>4. CASE u = w
    BY <1>4, <2>1, <2>2, <2>4
  <2>5. CASE v = w
    BY <1>4, <2>1, <2>2, <2>5
  <2> QED BY <2>3, <2>4, <2>5
<1> QED BY <1>6, <1>7, <1>9, <1>10

\* Each step of a worker is one of the above.
LEMMA OnceWorker ==
  ASSUME KeyInv, OnceInv, NEW w \in Server,
         Verify(w) \/ Claim(w) \/ Quota(w) \/ GateRaises(w) \/ Finish(w) \/ RollBack(w)
  PROVE  OnceInv'
<1> DEFINE Same == \A v \in Server : v # w => work'[v] = work[v]
<1>1. /\ GateTypeOK /\ Busy(w) /\ UNCHANGED <<now, sent>> /\ Same
      /\ work[w] \in WorkRecord /\ work[w].claim \in SUBSET [req : Req, at : Nat]
      /\ work[w].counted \in SUBSET {WindowOf(t) : t \in Nat}
  BY WorkerType, BusyType DEF KeyInv, WorkRecord, settingVars
<1> HIDE DEF Same
<1>2. ASSUME Release(w), UNCHANGED <<effects, exempt>>,
             nonces' = nonces \/ nonces' = nonces \union work[w].claim
      PROVE  OnceInv'
  <2>1. work'[w].phase = "idle"
    BY <1>1, <1>2, ReleaseStep
  <2> QED BY <1>1, <1>2, <2>1, OnceIdle DEF Same
<1>3. ASSUME NEW p \in {"claim", "limit", "run"}, NEW n \in SUBSET {WindowOf(t) : t \in Nat},
             Holding(w, p, work[w].claim, n), UNCHANGED <<nonces, effects>>, exempt \subseteq exempt',
             \/ work[w].req \in exempt'
             \/ work[w].phase = "limit" /\ p = "run"
             \/ work[w].phase = "verify" /\ p = "claim" /\ InTime(work[w].req)
      PROVE  OnceInv'
  <2>1. /\ work'[w].phase = p /\ work'[w].claim = work[w].claim /\ work'[w].req = work[w].req
        /\ work'[w].since = work[w].since /\ work'[w].mode = work[w].mode
    BY <1>1, <1>3, HoldingStep
  <2>2. Busy(w)'
    BY <2>1 DEF Busy
  <2> QED BY <1>1, <1>3, <2>1, <2>2, OncePhase DEF Same
<1>4. work[w].mode # "enforce" => work[w].req \in exempt
  BY <1>1 DEF OnceInv, Enforced, Plain
<1>5. CASE Verify(w)
  <2>1. UNCHANGED <<nonces, effects, exempt>> /\ work[w].phase = "verify"
    BY <1>5 DEF Verify
  <2>2. \/ Phase(w, "claim") /\ InTime(work[w].req)
        \/ Release(w)
        \/ Phase(w, "limit") /\ work[w].mode # "enforce"
    BY <1>5 DEF Verify
  <2> QED BY <1>1, <1>2, <1>3, <1>4, <2>1, <2>2 DEF Phase
<1>6. CASE Claim(w)
  <2>1. UNCHANGED <<nonces, effects, exempt>> /\ work[w].phase = "claim"
    BY <1>6 DEF Claim
  <2>2. \/ ~Seen(work[w].req) /\ Holding(w, "limit", {[req |-> work[w].req, at |-> now]}, work[w].counted)
        \/ Release(w)
        \/ Phase(w, "limit") /\ work[w].mode # "enforce"
    BY <1>6 DEF Claim
  <2>3. ASSUME ~Seen(work[w].req),
               Holding(w, "limit", {[req |-> work[w].req, at |-> now]}, work[w].counted)
        PROVE  OnceInv'
    <3>1. \A v \in Server \ {w} : work[v] # NoWork /\ work[v].req = work[w].req => work[v].claim = {}
      BY <1>6 DEF Claim
    <3> QED BY <1>1, <2>1, <2>3, <3>1, OnceClaim
  <2> QED BY <1>1, <1>2, <1>3, <1>4, <2>1, <2>2, <2>3 DEF Phase
<1>7. CASE Quota(w)
  <2>1. UNCHANGED <<effects, exempt>> /\ work[w].phase = "limit"
    BY <1>7 DEF Quota
  <2>2. \/ Holding(w, "run", work[w].claim, {WindowOf(now)}) /\ UNCHANGED nonces
        \/ Release(w) /\ nonces' = nonces \union work[w].claim
    BY <1>7 DEF Quota
  <2>3. {WindowOf(now)} \in SUBSET {WindowOf(t) : t \in Nat}
    BY <1>1 DEF GateTypeOK
  <2> QED BY <1>2, <1>3, <2>1, <2>2, <2>3
<1>8. CASE GateRaises(w)
  <2>1. /\ UNCHANGED <<nonces, effects>> /\ exempt' = exempt \union {work[w].req}
        /\ Holding(w, "run", work[w].claim, work[w].counted)
    BY <1>8 DEF GateRaises, Phase
  <2> QED BY <1>1, <1>3, <2>1
<1>9. CASE Finish(w)
  <2>1. /\ work[w].phase = "run" /\ Release(w) /\ nonces' = nonces \union work[w].claim
        /\ UNCHANGED exempt
        /\ effects' = [effects EXCEPT ![work[w].req] = @ + 1] \/ UNCHANGED effects
    BY <1>9 DEF Finish
  <2>2. CASE effects' = [effects EXCEPT ![work[w].req] = @ + 1]
    <3>1. work'[w].phase = "idle"
      BY <1>1, <2>1, ReleaseStep
    <3> QED BY <1>1, <2>1, <2>2, <3>1, OnceEffect DEF Same
  <2> QED BY <1>2, <2>1, <2>2
<1>10. CASE RollBack(w)
  BY <1>2, <1>10 DEF RollBack
<1> QED BY <1>5, <1>6, <1>7, <1>8, <1>9, <1>10

\* Nothing has been done for a request before it is sent.
LEMMA OnceSend == ASSUME KeyInv, OnceInv, NEW r \in Req, Send(r) PROVE OnceInv'
<1> USE DEF OnceInv
<1>1. /\ UNCHANGED <<now, work, nonces, effects, exempt>> /\ sent[r] = Unsent
      /\ \A q \in Req : q # r => sent'[q] = sent[q]
  BY DEF Send, settingVars, KeyInv, GateTypeOK
<1>2. \A w \in Server : Busy(w) => work[w].req \in Req /\ sent'[work[w].req] = sent[work[w].req]
  BY <1>1, BusyType DEF KeyInv, Alive, WorkRecord
<1>3. \A n \in nonces : n.req \in Req /\ n.req # r /\ sent'[n.req] = sent[n.req]
  BY <1>1 DEF Unstarted, KeyInv, GateTypeOK
<1>4. Enforced' /\ OneClaim' /\ TakesEffectOnce'
  BY <1>1 DEF Enforced, OneClaim, TakesEffectOnce, Plain, Busy
<1>5. Unstarted'
  BY <1>1 DEF Unstarted
<1>6. VerifiedInTime' /\ ClaimsHeld'
  BY <1>1, <1>2 DEF VerifiedInTime, ClaimsHeld, Plain, Busy
<1>7. NoncesDated'
  BY <1>1, <1>3 DEF NoncesDated
<1>8. Remembered'
  <2>1. ~(effects[r] > 0)
    BY <1>1 DEF Unstarted
  <2> QED BY <1>1, <2>1 DEF Remembered, Seen
<1> QED BY <1>4, <1>5, <1>6, <1>7, <1>8

LEMMA OnceReceive ==
  ASSUME KeyInv, OnceInv, NEW w \in Server, NEW r \in Req, Receive(w, r) PROVE OnceInv'
<1> USE DEF OnceInv
<1> DEFINE new == [phase |-> "verify", req |-> r, since |-> now, claim |-> {}, key |-> terminal,
                   mode |-> signing, counted |-> {}]
<1>1. /\ UNCHANGED <<now, sent, nonces, effects>> /\ work[w] = NoWork
      /\ exempt' = IF signing = "enforce" THEN exempt ELSE exempt \union {r}
      /\ work' = work \/ work' = [work EXCEPT ![w] = new]
  BY DEF Receive, settingVars
<1>2. /\ new.phase = "verify" /\ new.req = r /\ new.claim = {} /\ new.mode = signing
      /\ work \in [Server -> WorkRecord \union {NoWork}]
  BY DEF KeyInv, GateTypeOK
<1> HIDE DEF new
<1>3. \A v \in Server : work'[v] = work[v] \/ (v = w /\ work'[v] = new)
  <2>1. CASE work' = [work EXCEPT ![w] = new]
    BY <1>2, <2>1
  <2> QED BY <1>1, <2>1
<1>4. ASSUME NEW v \in Server, Plain(v)'
      PROVE  (Plain(v) /\ work'[v] = work[v]) \/ (v = w /\ work'[v] = new /\ r \notin exempt')
  <2>1. CASE work'[v] = work[v]
    BY <1>1, <1>4, <2>1 DEF Plain, Busy
  <2>2. CASE v = w /\ work'[v] = new
    BY <1>2, <1>4, <2>2 DEF Plain
  <2> QED BY <1>3, <2>1, <2>2
<1>5. Enforced' /\ VerifiedInTime' /\ OneClaim'
  BY <1>1, <1>2, <1>4 DEF Enforced, VerifiedInTime, OneClaim
<1>6. ClaimsHeld'
  BY <1>1, <1>2, <1>3, <1>4 DEF ClaimsHeld, Busy
<1>7. Unstarted' /\ NoncesDated' /\ Remembered' /\ TakesEffectOnce'
  BY <1>1 DEF Unstarted, NoncesDated, Remembered, TakesEffectOnce, Seen
<1> QED BY <1>5, <1>6, <1>7

\* A nonce is collected when its request can no longer be verified.
LEMMA OnceCollect == ASSUME KeyInv, OnceInv, CollectNonces PROVE OnceInv'
<1> USE DEF OnceInv
<1>1. UNCHANGED <<now, sent, work, effects, exempt>> /\ nonces' = {n \in nonces : ~Stale(n)}
  BY DEF CollectNonces, settingVars
<1>2. Enforced' /\ Unstarted' /\ VerifiedInTime' /\ ClaimsHeld' /\ OneClaim' /\ NoncesDated'
      /\ TakesEffectOnce'
  BY <1>1 DEF Enforced, Unstarted, VerifiedInTime, ClaimsHeld, OneClaim, NoncesDated, TakesEffectOnce,
              Plain, Busy
<1>3. Remembered'
  <2> SUFFICES ASSUME NEW r \in Req \ exempt, effects[r] > 0, \A n \in nonces' : n.req # r
               PROVE  now > sent[r].at + Skew + MaxRun
    BY <1>1 DEF Remembered, Seen
  <2>1. CASE Seen(r)
    <3>1. PICK n \in nonces : n.req = r
      BY <2>1 DEF Seen
    <3>2. n.at + Retention < now
      BY <1>1, <3>1 DEF Stale
    <3>3. sent[r].at <= n.at + Skew
      BY <3>1 DEF NoncesDated
    <3>4. n.at \in Nat /\ now \in Nat /\ sent[r].at \in Nat
      BY DEF KeyInv, GateTypeOK
    <3>5. Retention >= 2 * Skew + MaxRun
      BY GateAssumption
    <3> QED BY <3>2, <3>3, <3>4, <3>5, Bounds
  <2>2. CASE ~Seen(r)
    BY <2>2 DEF Remembered
  <2> QED BY <2>1, <2>2
<1> QED BY <1>2, <1>3

LEMMA OnceStep == KeyInv /\ OnceInv /\ [GateNext]_gateVars => OnceInv'
<1> SUFFICES ASSUME KeyInv, OnceInv, [GateNext]_gateVars PROVE OnceInv'
  OBVIOUS
<1>0. now \in Nat /\ now <= now
  BY DEF KeyInv, GateTypeOK
<1>1. CASE Tick
  <2>1. now' = now + 1 /\ UNCHANGED <<sent, nonces, work, effects, exempt>>
    BY <1>1 DEF Tick, requestVars
  <2>2. now' \in Nat /\ now <= now'
    BY <1>0, <2>1
  <2> QED BY <2>1, <2>2, OnceSettings
<1>2. CASE \/ Rotate \/ RevokeKey \/ Deactivate \/ Activate \/ RevokeEmergency \/ UNCHANGED gateVars
           \/ \E mode \in {"enforce", "observe"} : SetSigning(mode)
  <2>1. now' = now /\ UNCHANGED <<sent, nonces, work, effects, exempt>>
    BY <1>2, KeySettings DEF Rotate, requestVars, gateVars
  <2> QED BY <1>0, <2>1, OnceSettings
<1> QED BY <1>1, <1>2, OnceSend, OnceReceive, OnceWorker, OnceCollect DEF GateNext

(***************************************************************************)
(* The quota                                                               *)
(***************************************************************************)
\* What was let in was counted, and while the count allowed it.
QuotaInv == /\ hits \in [Windows -> Nat] /\ served \in [Windows -> Nat]
            /\ \A t \in Windows : served[t] <= hits[t] /\ served[t] <= PerWindow

LEMMA QuotaInit == GateInit => QuotaInv
BY Bounds DEF GateInit, QuotaInv

LEMMA QuotaStep == QuotaInv /\ [GateNext]_gateVars => QuotaInv'
<1> SUFFICES ASSUME QuotaInv, [GateNext]_gateVars PROVE QuotaInv'
  OBVIOUS
<1>1. CASE \E w \in Server : Quota(w)
  <2> DEFINE t == WindowOf(now)
  <2>1. \/ UNCHANGED <<hits, served>>
        \/ hits' = [hits EXCEPT ![t] = @ + 1] /\ UNCHANGED served
        \/ /\ hits' = [hits EXCEPT ![t] = @ + 1] /\ served' = [served EXCEPT ![t] = @ + 1]
           /\ hits[t] < PerWindow
    BY <1>1 DEF Quota
  <2> HIDE DEF t
  <2>2. CASE UNCHANGED <<hits, served>>
    BY <2>2 DEF QuotaInv
  <2>3. ASSUME hits' = [hits EXCEPT ![t] = @ + 1]
        PROVE  /\ hits' \in [Windows -> Nat]
               /\ \A x \in Windows : hits'[x] = IF x = t THEN hits[x] + 1 ELSE hits[x]
    <3>1. \A x \in Windows : hits'[x] = IF x = t THEN hits[x] + 1 ELSE hits[x]
      BY <2>3 DEF QuotaInv
    <3>2. \A x \in Windows : hits[x] \in Nat /\ hits[x] + 1 \in Nat
      BY DEF QuotaInv
    <3> QED BY <2>3, <3>1, <3>2 DEF QuotaInv
  <2>4. CASE hits' = [hits EXCEPT ![t] = @ + 1] /\ UNCHANGED served
    <3>1. \A x \in Windows : hits[x] \in Nat /\ served[x] \in Nat
      BY DEF QuotaInv
    <3> QED BY <2>3, <2>4, <3>1, Bounds DEF QuotaInv
  <2>5. CASE /\ hits' = [hits EXCEPT ![t] = @ + 1] /\ served' = [served EXCEPT ![t] = @ + 1]
             /\ hits[t] < PerWindow
    <3>1. \A x \in Windows : served'[x] = IF x = t THEN served[x] + 1 ELSE served[x]
      BY <2>5 DEF QuotaInv
    <3>2. \A x \in Windows : /\ hits[x] \in Nat /\ served[x] \in Nat /\ served[x] + 1 \in Nat
                             /\ served[x] <= hits[x] /\ served[x] <= PerWindow
      BY DEF QuotaInv
    <3>3. served' \in [Windows -> Nat]
      BY <2>5, <3>1, <3>2 DEF QuotaInv
    <3> QED BY <2>3, <2>5, <3>1, <3>2, <3>3, Bounds DEF QuotaInv
  <2> QED BY <2>1, <2>2, <2>4, <2>5
<1>2. ASSUME UNCHANGED <<hits, served>> PROVE QuotaInv'
  BY <1>2 DEF QuotaInv
<1>3. CASE ~\E w \in Server : Quota(w)
  <2>1. UNCHANGED <<hits, served>>
    BY <1>3 DEF GateNext, gateVars, requestVars, Tick, Rotate, RevokeKey, Deactivate, Activate,
       RevokeEmergency, SetSigning, Send, Receive, Verify, Claim, GateRaises, Finish, RollBack,
       HitsAfterRollBack, CollectNonces
  <2> QED BY <1>2, <2>1
<1> QED BY <1>1, <1>3

(***************************************************************************)
(* The gate                                                                *)
(***************************************************************************)
\* For any requests, workers, clock skew, rotations and quota: what is signed
\* takes effect once, no window is overrun, and old keys retire.
THEOREM GateSafety == GateSpec => [](TakesEffectOnce /\ QuotaHeld /\ OldKeysRetire)
<1> DEFINE Inv == KeyInv /\ OnceInv /\ QuotaInv
<1>1. GateInit => Inv
  BY KeyInit, OnceInit, QuotaInit
<1>2. Inv /\ [GateNext]_gateVars => Inv'
  BY KeyStep, OnceStep, QuotaStep
<1>3. Inv => TakesEffectOnce /\ QuotaHeld /\ OldKeysRetire
  BY KeysRetire DEF OnceInv, QuotaInv, QuotaHeld
<1> QED BY <1>1, <1>2, <1>3, PTL DEF GateSpec
=============================================================================
