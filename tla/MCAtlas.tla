------------------------------ MODULE MCAtlas ------------------------------
(***************************************************************************)
(* Instances of Atlas and Settings for TLC: the database with the files    *)
(* beside it, and the settings files.  They share no state, so the initial *)
(* state chooses which of them runs.                                       *)
(***************************************************************************)
EXTENDS Atlas, Settings, TLC

VARIABLE part

\* Bound: identities and policies meet in no operation but a restore, which treats
\* them alike, so identities and backups are explored without policies, and policies
\* and backups without identities.
OnePart ==
  /\ part = "identities" => db'["policies"] = {}
  /\ part = "policies" => \A p \in Processes : proc'[p].at # "draw"

MCInit ==
  /\ AtlasInit
  /\ SettingsInit
  /\ part \in {"identities", "policies", "settings"}
  /\ part # "settings" => kind = "config"

MCNext ==
  /\ UNCHANGED part
  /\ IF part = "settings" THEN SettingsNext /\ UNCHANGED atlasVars
     ELSE AtlasNext /\ OnePart /\ UNCHANGED settingsVars

MCSpec == MCInit /\ [][MCNext]_<<part, atlasVars, settingsVars>>

Symmetry == Permutations(Processes) \cup Permutations(Identities)
              \cup Permutations(Policies) \cup Permutations(Backups)
=============================================================================
