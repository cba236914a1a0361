------------------------------ MODULE Settings ------------------------------
(***************************************************************************)
(* The two settings files of a device: config.json, written by             *)
(* `guardian init` (guardianmesh/core/config.py), and                      *)
(* console_ui_settings.json, written by the request threads of the web     *)
(* console (console/web/settings.py, console/web/app.py).  Both are read,  *)
(* changed in memory, written to a temporary file of a fixed name and      *)
(* moved into place, without a lock.                                       *)
(*                                                                         *)
(* A file is a number, so that a writer keeps the file it opened when the  *)
(* names move.  The few hundred bytes are one write to the system, which   *)
(* starts at the beginning of the file.                                    *)
(***************************************************************************)
EXTENDS Naturals, FiniteSets

CONSTANTS
  Writers,  \* bound: request threads, or init commands, at once
  Keys,     \* bound: the settings told apart
  Values    \* bound: valid values of a setting

\* The default of a setting is one of its values.
ASSUME SettingsAssumption ==
  /\ IsFiniteSet(Writers)
  /\ "default" \in Values

VARIABLES
  kind,       \* "config" or "console": which of the two files it is
  signedIn,   \* the browser's session is one that the running console made
  target,     \* the file under the settings' name, 0 for none
  draft,      \* the file under the temporary name, 0 for none
  content,    \* per file: whether its text is "whole", "empty" or "torn", and the settings
  writer,     \* what each writer is at
  kept,       \* history: the settings last saved
  collided,   \* history: a writer opened the temporary while another had it open
  overlapped  \* history: two writers were under way at once

settingsVars ==
  <<kind, signedIn, target, draft, content, writer, kept, collided, overlapped>>

\* A name and a descriptor each hold a file; one more is there to be made.
Files == 1 .. Cardinality(Writers) + 2
All == [Keys -> Values]
Defaults == [k \in Keys |-> "default"]
Unreadable(text) == [text |-> text, says |-> Defaults]

\* to_dict writes out every setting, and from_dict finds every one again.
Text(all) == [text |-> "whole", says |-> all]
Parsed(file) == file.says

NotWriting == [at |-> "idle", merged |-> Defaults, file |-> 0]

SettingsTypeOK ==
  /\ kind \in {"config", "console"}
  /\ {target, draft} \subseteq Files \cup {0}
  /\ content \in [Files -> [text : {"whole", "empty", "torn"}, says : All]]
  /\ writer \in [Writers -> [at : {"idle", "loaded", "open", "written"},
                             merged : All, file : Files \cup {0}]]
  /\ kept \in All
  /\ {signedIn, collided, overlapped} \subseteq BOOLEAN

SettingsInit ==
  /\ kind \in {"config", "console"}
  /\ signedIn = FALSE
  /\ target = 0
  /\ draft = 0
  /\ content = [f \in Files |-> Unreadable("empty")]
  /\ writer = [w \in Writers |-> NotWriting]
  /\ kept = Defaults
  /\ collided = FALSE
  /\ overlapped = FALSE

-----------------------------------------------------------------------------
\* The first request of a page makes a session, which lives in the process and never
\* ends by itself.
OpenPage ==
  /\ kind = "console" /\ ~signedIn
  /\ signedIn' = TRUE
  /\ UNCHANGED <<kind, target, draft, content, writer, kept, collided, overlapped>>

\* do_POST answers only a browser that has a session of this process.
MayWrite == kind = "console" => signedIn

Whole == \A f \in Files : f = target => content[f].text = "whole"

\* What load and load_config find: the console takes a file it cannot read for none;
\* load_config raises, and its caller does not come here.
Loaded == IF target = 0 \/ ~Whole THEN Defaults ELSE Parsed(content[target])

\* An input is a change of some of the settings, to a valid value or to an "unknown"
\* one, of which from_dict makes the default.
Changes == UNION {[K -> Values \cup {"unknown"}] : K \in SUBSET Keys}

\* Rejected at construction: an unknown value, by the checks of GuardianConfig.
Admitted(changes) == kind = "config" => \A k \in DOMAIN changes : changes[k] # "unknown"

FromDict(value) == IF value = "unknown" THEN "default" ELSE value

Merged(changes) ==
  [k \in Keys |-> IF k \in DOMAIN changes THEN FromDict(changes[k]) ELSE Loaded[k]]

UnderWay == {w \in Writers : writer[w].at # "idle"}

\* A number that is not one is left out: it raises and nothing is written.
LoadSettings(w, changes) ==
  /\ writer[w].at = "idle"
  /\ MayWrite
  /\ kind = "config" => Whole
  /\ Admitted(changes)
  /\ writer' = [writer EXCEPT ![w].at = "loaded", ![w].merged = Merged(changes)]
  /\ overlapped' = (overlapped \/ UnderWay # {})
  /\ UNCHANGED <<kind, signedIn, target, draft, content, kept, collided>>

-----------------------------------------------------------------------------
(* save and save_config *)

Holds(w) == writer[w].at \in {"open", "written"}
HasOpen(f) == {w \in Writers : Holds(w) /\ writer[w].file = f}

Unused == {f \in Files : f \notin {target, draft} /\ HasOpen(f) = {}}
NewFile(f) == f \in Unused /\ \A g \in Unused : f <= g

\* Mutant: the file is opened in place.
OpenedInPlace(f) == IF target = 0 THEN NewFile(f) ELSE f = target

\* write_text and open(.., "w") cut the temporary that is there to nothing, or make it.
Opened(f) == IF draft = 0 THEN NewFile(f) ELSE f = draft

OpenTemporary(w, f) ==
  /\ writer[w].at = "loaded"
  /\ Opened(f)
  /\ writer' = [writer EXCEPT ![w].at = "open", ![w].file = f]
  /\ draft' = f
  /\ content' = [content EXCEPT ![f] = Unreadable("empty")]
  /\ collided' = (collided \/ HasOpen(f) # {})
  /\ UNCHANGED <<kind, signedIn, target, kept, overlapped>>

\* Over what another writer has put there, the longer rest of it stays.
WriteTemporary(w) ==
  LET f == writer[w].file IN
  /\ writer[w].at = "open"
  /\ writer' = [writer EXCEPT ![w].at = "written"]
  /\ \/ content' = [content EXCEPT ![f] = Text(writer[w].merged)]
     \/ /\ content[f].text # "empty"
        /\ content' = [content EXCEPT ![f] = Unreadable("torn")]
  /\ UNCHANGED <<kind, signedIn, target, draft, kept, collided, overlapped>>

\* Whatever has the temporary name by now gets the settings' name, and the file that had
\* it is gone; when another writer has taken the temporary, replace raises.
MoveIntoPlace(w) ==
  /\ writer[w].at = "written"
  /\ writer' = [writer EXCEPT ![w] = NotWriting]
  /\ \/ /\ draft # 0
        /\ target' = draft /\ draft' = 0 /\ kept' = writer[w].merged
        /\ content' = [f \in Files |-> IF f = target THEN Unreadable("empty") ELSE content[f]]
     \/ draft = 0 /\ UNCHANGED <<target, draft, content, kept>>
  /\ UNCHANGED <<kind, signedIn, collided, overlapped>>

-----------------------------------------------------------------------------
\* A full disk: part of the text may be there, and the writer ends.
WriteFails(w) ==
  /\ writer[w].at = "open"
  /\ content' = [content EXCEPT ![writer[w].file] = Unreadable("torn")]
  /\ writer' = [writer EXCEPT ![w] = NotWriting]
  /\ UNCHANGED <<kind, signedIn, target, draft, kept, collided, overlapped>>

\* A command dies alone; the console dies with all its threads and its sessions.
Dies(w) ==
  /\ IF kind = "config"
     THEN writer[w].at # "idle" /\ writer' = [writer EXCEPT ![w] = NotWriting]
     ELSE signedIn /\ writer' = [v \in Writers |-> NotWriting]
  /\ signedIn' = FALSE
  /\ UNCHANGED <<kind, target, draft, content, kept, collided, overlapped>>

Save(w) ==
  \/ \E f \in Files : OpenTemporary(w, f)
  \/ WriteTemporary(w)
  \/ MoveIntoPlace(w)
  \/ WriteFails(w)

SettingsNext ==
  \/ OpenPage
  \/ \E w \in Writers :
       \/ \E changes \in Changes : LoadSettings(w, changes)
       \/ Save(w)
       \/ Dies(w)

SettingsSpec == SettingsInit /\ [][SettingsNext]_settingsVars

-----------------------------------------------------------------------------
\* save and save_config move a finished file into place: whatever dies or fails between
\* two steps, the file under the settings' name reads as the last settings saved as long
\* as no two writers overlap, and is readable as long as no two have the temporary open
\* at once.
SettingsAreKept ==
  /\ ~collided => Whole
  /\ ~overlapped => Whole /\ Loaded = kept
=============================================================================
