----------------------------- MODULE PolicyFile ------------------------------
(***************************************************************************)
(* policy.json and its last-known-good copy (topgent-policy/src/lib.rs),   *)
(* as the command line and the interface edit them                         *)
(* (topgent-report/src/actions.rs): load, modify, save, with no lock; a    *)
(* person edits the file by hand, and an editor may be killed anywhere.    *)
(***************************************************************************)
EXTENDS Naturals, Sequences, SequencesExt

CONSTANTS
  Editor,     \* calls that may run at one time
  Rule,       \* a path with a condition
  Response,   \* what a rule may ask for
  Alert,      \* what a new rule asks for
  Asset,      \* discovered assets
  HandMade,   \* policies a person writes
  NoFile,     \* there is no file
  Broken,     \* a file that does not parse
  NoCall,     \* no call yet
  MaxPlace,   \* bound on the places in a watchlist
  MaxEdits,   \* bound on the calls
  MaxHands,   \* bound on the edits by hand
  MaxFaults   \* bound on kills and failed writes

Disposition == {"unreviewed", "approved"}
Entry == [rule : Rule, response : Response]
Watchlist == {s \in Seq(Entry) : \A i, j \in DOMAIN s : s[i].rule = s[j].rule => i = j}
Policy == [watchlist : Watchlist, assets : [Asset -> Disposition], semantic : BOOLEAN]
Default == [watchlist |-> <<>>, assets |-> [a \in Asset |-> "unreviewed"], semantic |-> FALSE]

Edit ==
  [op : {"add"}, rule : Rule]
  \cup [op : {"remove"}, at : 1..MaxPlace]
  \cup [op : {"respond"}, at : 1..MaxPlace, to : Response]
  \cup [op : {"judge"}, asset : Asset, to : Disposition]
  \cup [op : {"semantic"}, to : BOOLEAN]

PolicyAssumption ==
  /\ Alert \in Response
  /\ HandMade \subseteq Policy \cup {Broken}
  /\ NoFile \notin Policy /\ Broken \notin Policy /\ NoFile # Broken
  /\ MaxPlace \in Nat /\ MaxEdits \in Nat /\ MaxHands \in Nat /\ MaxFaults \in Nat

VARIABLES
  policyFile, \* policy.json
  backup,   \* policy.json.last-known-good
  phase,    \* where each call is
  edit,     \* what it is to change
  base,     \* the policy it read
  held,     \* the policy it is to write
  shown,    \* the report in front of whoever makes the call
  edits, hands, faults,  \* how many there were
  unread,   \* history: whether it found a file it could not read
  written,  \* history: the policies that were ever in force
  saved     \* history: the policy saved last

policyFiles == <<policyFile, backup>>
policyBounds == <<edits, hands, faults>>
policyVars == <<policyFiles, phase, edit, base, held, shown, policyBounds, unread, written, saved>>

Whole(f) == f \in Policy

-----------------------------------------------------------------------------
PolicyInit ==
  /\ policyFile \in {NoFile} \cup (HandMade \ {Broken})
  /\ backup = NoFile
  /\ phase = [e \in Editor |-> "idle"]
  /\ edit = [e \in Editor |-> NoCall]
  /\ base = [e \in Editor |-> Default]
  /\ held = [e \in Editor |-> Default]
  /\ shown = [e \in Editor |-> Default]
  /\ edits = 0 /\ hands = 0 /\ faults = 0
  /\ unread = [e \in Editor |-> FALSE]
  /\ written = {IF policyFile = NoFile THEN Default ELSE policyFile}
  /\ saved = NoFile

(* The place at which a rule is replaced; a watchlist has it once.         *)
Without(list, rule) ==
  IF \E i \in DOMAIN list : list[i].rule = rule
  THEN RemoveAt(list, CHOOSE i \in DOMAIN list : list[i].rule = rule)
  ELSE list

(* Policy::add_rule, remove_rule, set_asset_disposition, and the field that *)
(* set_rule_response and set_semantic_enabled assign.                       *)
Applies(policy, change) ==
  change.op \in {"remove", "respond"} => change.at \in DOMAIN policy.watchlist

Apply(policy, change) ==
  CASE change.op = "add" ->
         [policy EXCEPT !.watchlist =
            Append(Without(@, change.rule), [rule |-> change.rule, response |-> Alert])]
    [] change.op = "remove" -> [policy EXCEPT !.watchlist = RemoveAt(@, change.at)]
    [] change.op = "respond" -> [policy EXCEPT !.watchlist[change.at].response = change.to]
    [] change.op = "judge" -> [policy EXCEPT !.assets[change.asset] = change.to]
    [] change.op = "semantic" -> [policy EXCEPT !.semantic = change.to]

(* Policy::load_checked as a report shows it.                              *)
InForce ==
  IF Whole(policyFile) THEN policyFile
  ELSE IF policyFile = Broken /\ Whole(backup) THEN backup
  ELSE Default

(* A scan renders the policy; `index' in the report is the place of a rule *)
(* in the watchlist of that moment.                                        *)
Look(e) ==
  /\ phase[e] = "idle"
  /\ shown' = [shown EXCEPT ![e] = InForce]
  /\ UNCHANGED <<policyFiles, phase, edit, base, held, policyBounds, unread, written, saved>>

(* A call that can go no further, and one that read a policy to change.    *)
End(e) == phase' = [phase EXCEPT ![e] = "idle"] /\ UNCHANGED <<base, held>>

Modify(e, policy, change) ==
  IF ~Applies(policy, change) THEN End(e)
  ELSE /\ base' = [base EXCEPT ![e] = policy]
       /\ held' = [held EXCEPT ![e] = Apply(policy, change)]
       /\ phase' = [phase EXCEPT ![e] = "save"]

(* An index is only ever given for a rule that is shown.                   *)
Call(e, change) ==
  /\ phase[e] = "idle"
  /\ edits < MaxEdits
  /\ Applies(shown[e], change)
  /\ edits' = edits + 1
  /\ edit' = [edit EXCEPT ![e] = change]
  /\ unread' = [unread EXCEPT ![e] = policyFile = Broken]
  /\ CASE Whole(policyFile) -> Modify(e, policyFile, change)
       [] policyFile = NoFile -> Modify(e, Default, change)
       [] policyFile = Broken -> phase' = [phase EXCEPT ![e] = "recover"] /\ UNCHANGED <<base, held>>
  /\ UNCHANGED <<policyFiles, shown, hands, faults, written, saved>>

(* Policy::recover; editable_policy refuses when there is no copy either.  *)
Recover(e) ==
  /\ phase[e] = "recover"
  /\ IF Whole(backup) THEN Modify(e, backup, edit[e]) ELSE End(e)
  /\ UNCHANGED <<policyFiles, edit, shown, policyBounds, unread, written, saved>>

(* Mutant: the file is written where it is.                                *)
RenameInPlace(e) ==
  /\ phase[e] = "save"
  /\ policyFile' \in {held[e], Broken}
  /\ phase' = [phase EXCEPT ![e] = "refresh"]
  /\ written' = written \cup {held[e]}
  /\ saved' = held[e]
  /\ UNCHANGED <<backup, edit, base, held, shown, policyBounds, unread>>

(* Policy::save_to writes a file of its own and renames it.                *)
Rename(e) ==
  /\ phase[e] = "save"
  /\ policyFile' = held[e]
  /\ phase' = [phase EXCEPT ![e] = "refresh"]
  /\ written' = written \cup {held[e]}
  /\ saved' = held[e]
  /\ UNCHANGED <<backup, edit, base, held, shown, policyBounds, unread>>

Fault == faults < MaxFaults /\ faults' = faults + 1 /\ UNCHANGED <<edits, hands>>

SaveFails(e) ==
  /\ Fault
  /\ phase[e] = "save"
  /\ phase' = [phase EXCEPT ![e] = "idle"]
  /\ UNCHANGED <<policyFiles, edit, base, held, shown, unread, written, saved>>

(* The copy is truncated, then filled. A second writer may have filled it  *)
(* in between; what is left when the texts differ in length is neither.    *)
Truncate(e) ==
  /\ phase[e] = "refresh"
  /\ backup' = Broken
  /\ phase' = [phase EXCEPT ![e] = "fill"]
  /\ UNCHANGED <<policyFile, edit, base, held, shown, policyBounds, unread, written, saved>>

Fill(e) ==
  /\ phase[e] = "fill"
  /\ backup' \in IF backup = Broken THEN {held[e]} ELSE {held[e], Broken}
  /\ phase' = [phase EXCEPT ![e] = "idle"]
  /\ UNCHANGED <<policyFile, edit, base, held, shown, policyBounds, unread, written, saved>>

(* A copy that cannot be refreshed is not an error of the save; a process  *)
(* that is killed ends the same way, from anywhere.                        *)
Killed(e) ==
  /\ Fault
  /\ phase[e] # "idle"
  /\ phase' = [phase EXCEPT ![e] = "idle"]
  /\ UNCHANGED <<policyFiles, edit, base, held, shown, unread, written, saved>>

ByHand ==
  /\ hands < MaxHands
  /\ hands' = hands + 1
  /\ \E text \in HandMade :
       /\ policyFile' = text
       /\ written' = written \cup ({text} \ {Broken})
  /\ UNCHANGED <<backup, phase, edit, base, held, shown, edits, faults, unread, saved>>

EditorStep(e) ==
  \/ Look(e) \/ Recover(e) \/ Rename(e) \/ SaveFails(e)
  \/ Truncate(e) \/ Fill(e) \/ Killed(e)
  \/ \E change \in Edit : Call(e, change)

PolicyNext == (\E e \in Editor : EditorStep(e)) \/ ByHand

PolicySpec == PolicyInit /\ [][PolicyNext]_policyVars

-----------------------------------------------------------------------------
PolicyTypeOK ==
  /\ policyFile \in Policy \cup {NoFile, Broken}
  /\ backup \in Policy \cup {NoFile, Broken}
  /\ phase \in [Editor -> {"idle", "recover", "save", "refresh", "fill"}]
  /\ edit \in [Editor -> Edit \cup {NoCall}]
  /\ base \in [Editor -> Policy] /\ held \in [Editor -> Policy] /\ shown \in [Editor -> Policy]
  /\ edits \in 0..MaxEdits /\ hands \in 0..MaxHands /\ faults \in 0..MaxFaults

(* lib.rs:526-531: at every instant a reader sees the old policy or the    *)
(* new one and never half of either, whoever is killed and whoever else    *)
(* saves: only a person leaves a file that does not parse.                 *)
NeverHalf == hands = 0 => policyFile # Broken

(* actions.rs:18-25: what an editor saves is a change to rules that were   *)
(* the operator's, never to defaults that stood in for them; and whatever  *)
(* the copy holds was once in force.                                       *)
FromTheOperators ==
  /\ \A e \in DOMAIN phase : phase[e] = "save" => base[e] \in written
  /\ Whole(backup) => backup \in written

(* lib.rs:547-575: while one editor works alone and was not killed, the    *)
(* copy is the policy that was saved last, but while it is refreshed.      *)
CopyIsLatest ==
  \A e \in DOMAIN phase :
    DOMAIN phase = {e} /\ faults = 0 /\ phase[e] \notin {"refresh", "fill"} => backup = saved

(* lib.rs:526-531, 547-575, actions.rs:18-25: the three promises about the *)
(* file, what is saved to it and its copy, wherever editors interleave,    *)
(* fail and are killed and a person writes the file.                       *)
PolicyHolds == NeverHalf /\ FromTheOperators /\ CopyIsLatest

(* CHANGELOG.md:108: nothing overwrites a policy it could not read.        *)
OverwritesWhatItRead ==
  policyFile = Broken /\ hands' = hands /\ policyFile' # policyFile =>
    \E e \in Editor : phase[e] = "save" /\ phase'[e] = "refresh" /\ ~unread[e]
=============================================================================
