------------------------------- MODULE MCFiles -------------------------------
(***************************************************************************)
(* Instances of the files Topgent keeps: approvals, response transitions,  *)
(* sensor health, the network history, the policy, the attestations of the *)
(* sensors' tools and what agents say of themselves.  No file is computed  *)
(* from another, and each has its own writers, so a behaviour is about one *)
(* of them, the focus; the variables of the others are out of use.         *)
(*                                                                         *)
(*   approvals: room for every request and a clock that only advances,     *)
(*     which is what the promises need; tight approvals: neither           *)
(*   network: two surfaces, too little room and a clock that is set back;  *)
(*   one sweeper: one surface and more sweeps                              *)
(*   transitions, health: two keys or sensors, and a clock that is set back*)
(*     once; tight transitions, tight health: room for one                 *)
(*   policy: two calls at a time, kills and a person's edits               *)
(*   one editor: one call at a time that is not killed                     *)
(*   attestation: two surfaces look for one tool, and the file is spoiled; *)
(*   places: one tool at two places; tools: room for one of two            *)
(*   hook: one hook at a time, and the file is cleared; hooks: two race    *)
(***************************************************************************)
EXTENDS Approval, PolicyFile, Attestation, ResponseTransition, SensorHealth, NetworkHistory, TLC

CONSTANTS
  Foci,         \* the instances of a run
  q1, q2, q3, agent, other, app, e1, r1, a1, h1, h2

VARIABLES
  focus,
  instant, kept, enabled, hook, told, count, clears          \* SemanticContext

contextVars == <<instant, kept, enabled, hook, told, count, clears>>
lateVars == <<attestationVars, contextVars>>
allVars == <<focus, vars, transitionVars, healthVars, networkVars, policyVars, lateVars>>

-----------------------------------------------------------------------------
Approvals == INSTANCE Approval WITH
  Request <- {q1, q2, q3}, MaxRecords <- 3, MaxStepsBack <- 0
TightTransitions == INSTANCE ResponseTransition WITH
  MaxTransitions <- 1, MaxSweptAt <- 2, MaxSetBacks <- 0
TightHealth == INSTANCE SensorHealth WITH
  MaxSensors <- 1, MaxObservedAt <- 2, MaxHealthBacks <- 0
ThreeEndpoints == [k \in {1, 2, 3} |-> IF k = 3 THEN other ELSE agent]
OneSweeper == INSTANCE NetworkHistory WITH Surface <- {app}, MaxScans <- 4

AttestedPlaces == INSTANCE Attestation WITH
  Sweeper <- {app}, Candidates <- 2, Kind <- {"absent", "directory", "user file"},
  MaxInstant <- 2, MaxSpoils <- 0
AttestedTools == INSTANCE Attestation WITH
  Sweeper <- {app}, Tool <- {1, 2}, Kind <- {"absent", "system"}, MaxInstant <- 2, MaxSpoils <- 0

(* The hook is process 1: below an agent, in a circle, below an agent too  *)
(* far up, and alone.                                                      *)
Process(family, parent) == [start |-> 1, family |-> family, parent |-> parent]
Trees ==
  {(1 :> Process("", 2)) @@ (2 :> Process("claude-code", 3)) @@ (3 :> Process("claude-code", 0)),
   (1 :> Process("", 2)) @@ (2 :> Process("", 1)) @@ (3 :> Process("ollama", 3)),
   (1 :> Process("", 2)) @@ (2 :> Process("", 3)) @@ (3 :> Process("codex-cli", 0)),
   (1 :> Process("codex-cli", 2))}
OneHook == INSTANCE SemanticContext WITH
  now <- instant, file <- kept,
  Hook <- {h1}, Tables <- Trees, Self <- 1, Session <- {1}, MaxDepth <- 2, MaxRecords <- 2,
  MaxNow <- 2, MaxTold <- 4, MaxClears <- 1
TwoHooks == INSTANCE SemanticContext WITH
  now <- instant, file <- kept,
  Hook <- {h1, h2}, Tables <- {(1 :> Process("codex-cli", 2))}, Self <- 1, Session <- {1},
  MaxDepth <- 2, MaxRecords <- 2, MaxNow <- 2, MaxTold <- 2, MaxClears <- 1

(* A person writes a policy with one rule, or mistypes it.                 *)
ByPerson ==
  {Broken, [watchlist |-> <<[rule |-> r1, response |-> "kill"]>>,
            assets |-> [a \in {a1} |-> "approved"], semantic |-> FALSE]}
OneEditor == INSTANCE PolicyFile WITH Editor <- {e1}, MaxEdits <- 3, MaxFaults <- 0

ASSUME FilesAssumption ==
  /\ ApprovalAssumption /\ Approvals!ApprovalAssumption
  /\ TransitionAssumption /\ TightTransitions!TransitionAssumption
  /\ HealthAssumption /\ TightHealth!HealthAssumption
  /\ NetworkAssumption /\ OneSweeper!NetworkAssumption
  /\ PolicyAssumption /\ OneEditor!PolicyAssumption
  /\ AttestationAssumption /\ AttestedPlaces!AttestationAssumption
  /\ AttestedTools!AttestationAssumption
  /\ OneHook!ContextAssumption /\ TwoHooks!ContextAssumption

(* hooks.rs: who a hook says it is, and what installing the hooks keeps.   *)
ASSUME HooksAreSound == OneHook!IdentityIsNearest /\ OneHook!InstallIsStable

-----------------------------------------------------------------------------
NoApprovals == Init
NoEdges == TransitionInit /\ HealthInit
NoPolicy == PolicyInit /\ policyFile = NoFile
NoAttestation == AttestationInit /\ disk = [t \in Tool |-> [p \in Place |-> "directory"]]
NoContext == instant = 0 /\ kept = 0 /\ enabled = 0 /\ hook = 0 /\ told = 0 /\ count = 0 /\ clears = 0
NoLate == NoAttestation /\ NoContext
AttestationAlone == NoApprovals /\ NoEdges /\ NoPolicy /\ NetworkInit /\ NoContext
ContextAlone == NoApprovals /\ NoEdges /\ NoPolicy /\ NetworkInit /\ NoAttestation
ApprovalsAlone == NoEdges /\ NetworkInit /\ NoPolicy /\ NoLate
EdgesAlone == NoApprovals /\ NetworkInit /\ NoPolicy /\ NoLate
NetworkAlone == NoApprovals /\ NoEdges /\ NoPolicy /\ NoLate
PolicyAlone == NoApprovals /\ NoEdges /\ NetworkInit /\ NoLate

MCInit ==
  /\ focus \in Foci
  /\ \/ focus = "approvals" /\ Approvals!Init /\ ApprovalsAlone
     \/ focus = "tight approvals" /\ Init /\ ApprovalsAlone
     \/ focus \in {"transitions", "tight transitions"} /\ NoEdges /\ EdgesAlone
     \/ focus \in {"health", "tight health"} /\ NoEdges /\ EdgesAlone
     \/ focus = "network" /\ NetworkInit /\ NetworkAlone
     \/ focus = "one sweeper" /\ OneSweeper!NetworkInit /\ NetworkAlone
     \/ focus = "policy" /\ PolicyInit /\ PolicyAlone
     \/ focus = "one editor" /\ OneEditor!PolicyInit /\ PolicyAlone
     \/ focus = "attestation" /\ AttestationInit /\ AttestationAlone
     \/ focus = "places" /\ AttestedPlaces!AttestationInit /\ AttestationAlone
     \/ focus = "tools" /\ AttestedTools!AttestationInit /\ AttestationAlone
     \/ focus = "hook" /\ OneHook!Init /\ ContextAlone
     \/ focus = "hooks" /\ TwoHooks!Init /\ ContextAlone

ApprovalStep ==
  /\ \/ focus = "approvals" /\ Approvals!Next
     \/ focus = "tight approvals" /\ Next
  /\ UNCHANGED <<focus, transitionVars, healthVars, networkVars, policyVars, lateVars>>

TransitionStep ==
  /\ \/ focus = "transitions" /\ TransitionNext
     \/ focus = "tight transitions" /\ TightTransitions!TransitionNext
  /\ UNCHANGED <<focus, vars, healthVars, networkVars, policyVars, lateVars>>

HealthStep ==
  /\ \/ focus = "health" /\ HealthNext
     \/ focus = "tight health" /\ TightHealth!HealthNext
  /\ UNCHANGED <<focus, vars, transitionVars, networkVars, policyVars, lateVars>>

NetworkStep ==
  /\ \/ focus = "network" /\ NetworkNext
     \/ focus = "one sweeper" /\ OneSweeper!NetworkNext
  /\ UNCHANGED <<focus, vars, transitionVars, healthVars, policyVars, lateVars>>

PolicyStep ==
  /\ \/ focus = "policy" /\ PolicyNext
     \/ focus = "one editor" /\ OneEditor!PolicyNext
  /\ UNCHANGED <<focus, vars, transitionVars, healthVars, networkVars, lateVars>>

OtherVars == <<focus, vars, transitionVars, healthVars, policyVars>>
AttestationStep ==
  /\ \/ focus = "attestation" /\ AttestationNext
     \/ focus = "places" /\ AttestedPlaces!AttestationNext
     \/ focus = "tools" /\ AttestedTools!AttestationNext
  /\ UNCHANGED <<OtherVars, networkVars, contextVars>>

ContextStep ==
  /\ \/ focus = "hook" /\ OneHook!Next
     \/ focus = "hooks" /\ TwoHooks!Next
  /\ UNCHANGED <<OtherVars, networkVars, attestationVars>>

MCNext ==
  \/ ApprovalStep \/ TransitionStep \/ HealthStep \/ NetworkStep \/ PolicyStep
  \/ AttestationStep \/ ContextStep

MCSpec == MCInit /\ [][MCNext]_allVars

-----------------------------------------------------------------------------
(* A file is what the code writes of one, and within its bound.            *)
FilesAreSound ==
  /\ focus = "approvals" => Approvals!TypeOK
  /\ focus = "tight approvals" => TypeOK
  /\ focus # "one editor" => PolicyTypeOK

(* approval.rs:3-6, journal.rs:674-676: with room for every request and a  *)
(* clock that advances, no approval is answered twice, and the file is a   *)
(* Lifecycle of its requests.                                              *)
Walk == INSTANCE Lifecycle WITH
  Request <- {q1, q2, q3},
  status <- [q \in {q1, q2, q3} |->
               IF focus = "approvals" THEN Approvals!StatusOf(q) ELSE "unasked"]

(* Every file is what the code writes of one and no longer than its bound, *)
(* no approval is answered twice or reset, what agents say is in order     *)
(* and there once whoever races (journal.rs:814-818), and one hook at a    *)
(* time loses nothing but the oldest; one surface's network history is of  *)
(* its latest sweep.                                                       *)
EveryFileHolds ==
  /\ FilesAreSound
  /\ focus = "one sweeper" => OneSweeper!NetworkHolds
  /\ focus = "approvals" => Approvals!DecidedOnce
  /\ focus \in {"hook", "hooks"} => OneHook!InOrder
  /\ focus = "hook" => OneHook!NothingLost
HistoriesHold == []EveryFileHolds /\ Walk!LSpec

(* CHANGELOG.md:108: a policy that could not be read is not overwritten.   *)
UnreadIsKept == [][focus = "one editor" => OneEditor!OverwritesWhatItRead]_allVars

(* journal.rs:838: what was cleared is gone.                               *)
ClearedIsGone == focus = "hook" => OneHook!ClearedIsGone
=============================================================================
