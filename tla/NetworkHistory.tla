--------------------------- MODULE NetworkHistory ----------------------------
(***************************************************************************)
(* merge_network_history and build_network_baselines                       *)
(* (topgent-core/src/network.rs) with the journal file they are kept in.   *)
(* A sweep reads the file, merges the sockets it saw and replaces the file *)
(* when the rest of the report is done; an operator's reset reads it and   *)
(* replaces it.  Neither takes a lock.                                     *)
(*                                                                         *)
(* A key is one endpoint of one exact agent run; known_hosts and           *)
(* known_ports are the keys they are read off.  Packet and observation     *)
(* counts, families and verdicts are left out.                             *)
(***************************************************************************)
EXTENDS Integers, FiniteSets

CONSTANTS
  Surface,        \* what sweeps or resets
  Agent,          \* exact agent runs
  Key,            \* their endpoints, numbered in the order of the key
  AgentOf,        \* the run of each endpoint
  MaxEndpoints,   \* MAX_NETWORK_RECORDS
  MaxSamples,     \* MAX_NETWORK_SAMPLES
  Warmup,         \* NETWORK_BASELINE_WARMUP_SAMPLES
  Expiry,         \* NETWORK_BASELINE_EXPIRY_MS
  Retention,      \* NETWORK_HISTORY_RETENTION_MS
  MaxScans,       \* bound on the clock
  MaxNetworkBacks \* how often the clock may be stepped back

NetworkAssumption ==
  /\ IsFiniteSet(Key) /\ Key \subseteq Nat /\ AgentOf \in [Key -> Agent]
  /\ MaxEndpoints \in Nat /\ MaxSamples \in Nat \ {0} /\ Warmup \in Nat \ {0}
  /\ Expiry \in Nat /\ Retention \in Nat
  /\ MaxScans \in Nat /\ MaxNetworkBacks \in Nat

VARIABLES
  scannedAt,    \* the clock
  networkBacks, \* how often it was stepped back
  network,      \* network-history.json
  draft,        \* what each surface is about to write, and what that is
  latest,       \* history: the keys of the look saved last
  frozen,       \* history: what a run's baseline held when it became ready
  lost          \* history: whether a sweep took a sample out of the file

networkVars == <<scannedAt, networkBacks, network, draft, latest, frozen, lost>>

NoTime == -1
Absent == [first |-> NoTime, last |-> NoTime, samples |-> {}, current |-> FALSE, changes |-> 0]
Endpoint == [first : Nat, last : Nat, samples : SUBSET Nat, current : BOOLEAN, changes : Nat]
Present(f) == {k \in Key : f[k] # Absent}
OfAgent(f, a) == {k \in Present(f) : AgentOf[k] = a}
Nothing == [k \in Key |-> Absent]
NoDraft == [kind |-> "none", records |-> Nothing, look |-> {}]
NotReady == {NoTime}

NetworkInit ==
  /\ scannedAt = 0 /\ networkBacks = 0
  /\ network = Nothing
  /\ draft = [s \in Surface |-> NoDraft]
  /\ latest = {}
  /\ frozen = [a \in Agent |-> NotReady]
  /\ lost = FALSE

-----------------------------------------------------------------------------
(* What is carried over: nothing from the future, nothing past retention.  *)
Recent(f, t) ==
  [k \in Key |-> IF f[k].last <= t /\ t - f[k].last <= Retention THEN f[k] ELSE Absent]

Freshest(samples) ==
  {x \in samples : Cardinality({y \in samples : y > x}) < MaxSamples}

Hidden(r) ==
  IF r.current THEN [r EXCEPT !.current = FALSE, !.changes = @ + 1] ELSE r

Sighted(r, t) ==
  IF r = Absent
    THEN [first |-> t, last |-> t, samples |-> {t}, current |-> TRUE, changes |-> 1]
    ELSE [r EXCEPT !.last = t, !.samples = Freshest(@ \cup {t}), !.current = TRUE,
                   !.changes = IF r.current THEN @ ELSE @ + 1]

(* The most recently seen come first, then the order of the keys.          *)
Before(f, q, k) == f[q].last > f[k].last \/ (f[q].last = f[k].last /\ q < k)
Ahead(f, k) == {q \in Present(f) : Before(f, q, k)}

(* Mutant: the order of the keys alone decides what goes.                  *)
BoundedByKey(f) ==
  [k \in Key |-> IF Cardinality({q \in Present(f) : q < k}) < MaxEndpoints THEN f[k] ELSE Absent]

Bounded(f) == [k \in Key |-> IF Cardinality(Ahead(f, k)) < MaxEndpoints THEN f[k] ELSE Absent]

Updated(f, look, t) == [k \in Key |-> IF k \in look THEN Sighted(f[k], t) ELSE Hidden(f[k])]
Merge(f, look, t) == Bounded(Updated(Recent(f, t), look, t))

-----------------------------------------------------------------------------
(* The baseline of a run is derived: it is ready at the Warmup-th of the   *)
(* samples that are still there, and knows what was first seen by then.    *)
Samples(f, a) == UNION {f[k].samples : k \in OfAgent(f, a)}
WarmedUp(f, a) == Cardinality(Samples(f, a)) >= Warmup
Earlier(samples, x) == {y \in samples : y < x}
Nth(samples, n) == CHOOSE x \in samples : Cardinality(Earlier(samples, x)) = n - 1
ReadyAt(f, a) == Nth(Samples(f, a), Warmup)
KnownTo(f, a) == {k \in OfAgent(f, a) : WarmedUp(f, a) => f[k].first <= ReadyAt(f, a)}

State(f, a, t) ==
  IF \A k \in OfAgent(f, a) : t - f[k].last > Expiry THEN "expired"
  ELSE IF WarmedUp(f, a) THEN "ready" ELSE "collecting"

-----------------------------------------------------------------------------
(* report_from_sweep reads the history, which is empty if it cannot be     *)
(* read, and merges what its sweep saw.  No two sweeps have one instant:   *)
(* collecting takes longer than the millisecond the clock tells.           *)
Sweep(s) ==
  /\ draft[s] = NoDraft
  /\ scannedAt < MaxScans
  /\ scannedAt' = scannedAt + 1
  /\ \E look \in SUBSET Key, previous \in {network, Nothing} :
       draft' = [draft EXCEPT ![s] =
         [kind |-> "sweep", records |-> Merge(previous, look, scannedAt), look |-> look]]
  /\ UNCHANGED <<networkBacks, network, latest, frozen, lost>>

(* reset_network_baseline: with no record to remove nothing is written.    *)
Cleared(f, a) == [k \in Key |-> IF AgentOf[k] = a THEN Absent ELSE f[k]]
Reset(s) ==
  /\ draft[s] = NoDraft
  /\ \E a \in Agent :
       /\ OfAgent(network, a) # {}
       /\ draft' = [draft EXCEPT ![s] =
            [kind |-> "reset", records |-> Cleared(network, a), look |-> {}]]
  /\ UNCHANGED <<scannedAt, networkBacks, network, latest, frozen, lost>>

Frozen(f) ==
  [a \in Agent |-> IF OfAgent(f, a) = {} THEN NotReady
                   ELSE IF frozen[a] = NotReady /\ WarmedUp(f, a) THEN KnownTo(f, a)
                   ELSE frozen[a]]

(* The file is replaced as a whole.                                        *)
Write(s) ==
  /\ draft[s] # NoDraft
  /\ network' = draft[s].records
  /\ frozen' = Frozen(network')
  /\ IF draft[s].kind = "sweep"
     THEN /\ latest' = draft[s].look
          /\ lost' = (lost \/ \E k \in Key : ~(network[k].samples \subseteq network'[k].samples))
     ELSE /\ latest' = latest \cap Present(network')
          /\ UNCHANGED lost
  /\ draft' = [draft EXCEPT ![s] = NoDraft]
  /\ UNCHANGED <<scannedAt, networkBacks>>

(* The file cannot be written, or the surface is killed before that.       *)
Unwritten(s) ==
  /\ draft[s] # NoDraft
  /\ draft' = [draft EXCEPT ![s] = NoDraft]
  /\ UNCHANGED <<scannedAt, networkBacks, network, latest, frozen, lost>>

TimePasses ==
  /\ scannedAt < MaxScans
  /\ scannedAt' = scannedAt + 1
  /\ UNCHANGED <<networkBacks, network, draft, latest, frozen, lost>>

NetworkBack ==
  /\ networkBacks < MaxNetworkBacks
  /\ networkBacks' = networkBacks + 1
  /\ scannedAt' \in 0..(scannedAt - 1)
  /\ UNCHANGED <<network, draft, latest, frozen, lost>>

(* The bound on the clock is reached.                                      *)
TimeIsUp == scannedAt = MaxScans /\ UNCHANGED networkVars

NetworkNext ==
  \/ \E s \in Surface : Sweep(s) \/ Reset(s) \/ Write(s) \/ Unwritten(s)
  \/ TimePasses \/ NetworkBack \/ TimeIsUp

NetworkSpec == NetworkInit /\ [][NetworkNext]_networkVars

-----------------------------------------------------------------------------
(* journal.rs, network.rs:220: what is in the file, and how much of it.    *)
NetworkFits ==
  /\ \A k \in Present(network) : network[k] \in Endpoint /\ Cardinality(network[k].samples) <= MaxSamples
  /\ Cardinality(Present(network)) <= MaxEndpoints

(* network.rs:334: a baseline that is ready is what it was when it became  *)
(* ready; an endpoint seen later does not teach itself into it.            *)
BaselineFrozen ==
  \A a \in Agent : State(network, a, scannedAt) = "ready" => KnownTo(network, a) = frozen[a]

(* network.rs:134, 138: what is marked as present is what the latest saved *)
(* sweep saw, and every change of the mark was counted.                    *)
PresentIsLatestLook == {k \in Present(network) : network[k].current} = Present(network) \cap latest
VisibilityIsParity ==
  \A k \in Present(network) : network[k].current <=> network[k].changes % 2 = 1

(* network.rs:220: the bound evicts what was seen least recently: it never *)
(* takes an endpoint of the latest sweep for an older one.                 *)
SeenStay ==
  \/ latest \subseteq Present(network)
  \/ Present(network) \subseteq latest /\ Cardinality(Present(network)) = MaxEndpoints

(* network.rs, journal.rs:883-900: the file is within its bounds and       *)
(* counts every change, whoever races; while the clock is not set back the *)
(* bound takes the oldest; with one surface marks are of the latest sweep, *)
(* and as long as no sample went a baseline is what it was when ready.     *)
OneSurface == \A s, t \in Surface : s = t
NetworkHolds ==
  /\ NetworkFits /\ VisibilityIsParity
  /\ networkBacks = 0 => SeenStay
  /\ OneSurface => PresentIsLatestLook
  /\ OneSurface /\ networkBacks = 0 /\ ~lost => BaselineFrozen
=============================================================================
