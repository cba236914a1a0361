---------------------------- MODULE Atlas_proofs ----------------------------
(*****************************************************************************)
(* Proofs about Settings, then about Atlas, for any number of writers,       *)
(* processes, identities, policies and backups.                              *)
(*                                                                           *)
(* Alone, OneAtATime: what a writer of a settings file knows of its draft.   *)
(* PoliciesInv, ActiveInv, RowsInv and MigrationInv follow rows from the     *)
(*   database into backups, into what a restore has read, and back.          *)
(*****************************************************************************)
EXTENDS Settings, Atlas, FiniteSetTheorems, WellFoundedInduction, TLAPS

WriterType == [at : {"idle", "loaded", "open", "written"}, merged : All, file : Files \cup {0}]

\* What a writer that has the temporary open knows of it, as long as no other writer
\* has opened it meanwhile.
Alone ==
  /\ \A v, w \in Writers : Holds(v) /\ Holds(w) => v = w
  /\ \A w \in Writers :
       Holds(w) => /\ draft # 0
                   /\ writer[w].file = draft
                   /\ writer[w].at = "open" => content[draft].text = "empty"
                   /\ writer[w].at = "written" => content[draft] = Text(writer[w].merged)

\* One writer at a time finds what the one before it has saved.
OneAtATime ==
  /\ \A v, w \in UnderWay : v = w
  /\ ~collided
  /\ Loaded = kept

IInv ==
  /\ SettingsTypeOK
  /\ target # 0 => target # draft
  /\ ~collided => Alone /\ Whole
  /\ ~overlapped => OneAtATime

-----------------------------------------------------------------------------
LEMMA FileNumbers == 0 \notin Files /\ Files \subseteq Nat
<1>1. PICK c \in Nat : c = Cardinality(Writers)
  BY SettingsAssumption, FS_CardinalityType
<1>2. Files = 1 .. c + 2
  BY <1>1 DEF Files
<1> QED BY <1>2

LEMMA DefaultsAreSettings == Defaults \in All
BY SettingsAssumption DEF Defaults, All

LEMMA MergedAreSettings ==
  ASSUME SettingsTypeOK, NEW changes \in Changes
  PROVE  Merged(changes) \in All
<1>1. Loaded \in All
  BY DefaultsAreSettings, FileNumbers
     DEF SettingsTypeOK, Loaded, Parsed, All
<1>2. \A k \in DOMAIN changes : FromDict(changes[k]) \in Values
  BY SettingsAssumption DEF Changes, FromDict
<1> QED BY <1>1, <1>2 DEF Merged, All

\* The file under the settings' name is read and nothing else is.
LEMMA ReadsTheTarget ==
  ASSUME SettingsTypeOK
  PROVE  /\ target = 0 => Whole /\ Loaded = Defaults
         /\ target # 0 => /\ target \in Files
                          /\ Whole <=> content[target].text = "whole"
                          /\ Whole => Loaded = content[target].says
BY FileNumbers DEF SettingsTypeOK, Whole, Loaded, Parsed

\* A step that changes neither the name nor the file under it changes nothing for a
\* reader.
LEMMA SameForReaders ==
  ASSUME SettingsTypeOK, target' = target,
         target # 0 => content'[target] = content[target]
  PROVE  (Whole' <=> Whole) /\ Loaded' = Loaded
<1>1. Whole' <=> Whole
  BY FileNumbers DEF SettingsTypeOK, Whole
<1> QED BY <1>1 DEF Loaded, Parsed, Defaults

LEMMA TextIsTyped ==
  /\ \A all \in All : Text(all) \in [text : {"whole", "empty", "torn"}, says : All]
  /\ \A all \in All : Text(all).text = "whole" /\ Text(all).says = all
  /\ Unreadable("empty") \in [text : {"whole", "empty", "torn"}, says : All]
  /\ Unreadable("torn") \in [text : {"whole", "empty", "torn"}, says : All]
BY DefaultsAreSettings DEF Text, Unreadable

LEMMA NotWritingIsTyped == NotWriting \in WriterType /\ NotWriting.at = "idle"
BY DefaultsAreSettings DEF NotWriting, WriterType

-----------------------------------------------------------------------------
LEMMA InitHolds == SettingsInit => IInv
<1> SUFFICES ASSUME SettingsInit PROVE IInv OBVIOUS
<1>1. writer \in [Writers -> WriterType] /\ \A w \in Writers : writer[w].at = "idle"
  BY NotWritingIsTyped, Zenon DEF SettingsInit
<1>2. SettingsTypeOK
  BY <1>1, DefaultsAreSettings, TextIsTyped DEF SettingsInit, SettingsTypeOK, WriterType
<1>3. Whole /\ Loaded = kept
  BY <1>2, ReadsTheTarget DEF SettingsInit
<1> QED BY <1>1, <1>2, <1>3 DEF SettingsInit, IInv, Alone, OneAtATime, Holds, UnderWay

LEMMA LoadKeeps ==
  ASSUME IInv, NEW w \in Writers, NEW changes \in Changes, LoadSettings(w, changes)
  PROVE  IInv'
<1>1. SettingsTypeOK
  BY DEF IInv
<1>2. Merged(changes) \in All
  BY <1>1, MergedAreSettings
<1>3. /\ writer' \in [Writers -> WriterType]
      /\ writer'[w].at = "loaded"
      /\ \A v \in Writers \ {w} : writer'[v] = writer[v]
  <2>1. writer \in [Writers -> WriterType]
    BY <1>1 DEF SettingsTypeOK, WriterType
  <2>2. PICK m \in All : m = Merged(changes)
    BY <1>2
  <2>3. PICK r \in WriterType :
          r.at = "loaded" /\ r = [writer[w] EXCEPT !.at = "loaded", !.merged = m]
    BY <2>1 DEF WriterType
  <2>4. writer' = [writer EXCEPT ![w] = r]
    BY <2>1, <2>2, <2>3 DEF LoadSettings
  <2> QED BY <2>1, <2>3, <2>4
<1>4. SettingsTypeOK'
  BY <1>1, <1>3 DEF SettingsTypeOK, LoadSettings, WriterType, All, Files
<1>5. (Whole' <=> Whole) /\ Loaded' = Loaded
  BY <1>1, SameForReaders DEF LoadSettings
<1>6. \A v \in Writers : Holds(v)' => Holds(v) /\ writer'[v] = writer[v]
  BY <1>3 DEF Holds
<1>7. ~collided' => Alone' /\ Whole'
  <2>1. UNCHANGED <<draft, content, collided>>
    BY DEF LoadSettings
  <2> QED BY <1>5, <1>6, <2>1 DEF IInv, Alone, Text
<1>8. ~overlapped' => OneAtATime'
  BY <1>3, <1>5 DEF IInv, OneAtATime, UnderWay, LoadSettings
<1> QED BY <1>4, <1>7, <1>8 DEF IInv, LoadSettings

LEMMA OpenKeeps ==
  ASSUME IInv, NEW w \in Writers, NEW f \in Files, OpenTemporary(w, f)
  PROVE  IInv'
<1>1. SettingsTypeOK
  BY DEF IInv
<1>2. /\ writer' \in [Writers -> WriterType]
      /\ writer'[w].at = "open" /\ writer'[w].file = f
      /\ \A v \in Writers \ {w} : writer'[v] = writer[v]
  <2>1. writer \in [Writers -> WriterType]
    BY <1>1 DEF SettingsTypeOK, WriterType
  <2>2. PICK r \in WriterType :
          r.at = "open" /\ r.file = f /\ r = [writer[w] EXCEPT !.at = "open", !.file = f]
    BY <2>1 DEF WriterType
  <2>3. writer' = [writer EXCEPT ![w] = r]
    BY <2>1, <2>2 DEF OpenTemporary
  <2> QED BY <2>1, <2>2, <2>3
<1>3. SettingsTypeOK'
  BY <1>1, <1>2, TextIsTyped DEF SettingsTypeOK, OpenTemporary, WriterType, All, Files
<1>4. f # target /\ f # 0
  BY FileNumbers DEF IInv, OpenTemporary, Opened, NewFile, Unused
<1>5. (Whole' <=> Whole) /\ Loaded' = Loaded
  BY <1>1, <1>4, SameForReaders DEF OpenTemporary, SettingsTypeOK
<1>6. ASSUME ~collided' PROVE \A v \in Writers \ {w} : ~Holds(v)
  BY <1>6 DEF IInv, Alone, OpenTemporary, Opened, HasOpen, Holds
<1>7. ~collided' => Alone' /\ Whole'
  <2> SUFFICES ASSUME ~collided' PROVE Alone' /\ Whole'
    OBVIOUS
  <2>1. \A v \in Writers : Holds(v)' => v = w
    BY <1>2, <1>6 DEF Holds
  <2>2. content'[f].text = "empty"
    BY <1>1 DEF OpenTemporary, SettingsTypeOK, Unreadable
  <2> QED BY <1>2, <1>4, <1>5, <2>1, <2>2 DEF IInv, Alone, OpenTemporary
<1>8. ~overlapped' => OneAtATime'
  <2> SUFFICES ASSUME ~overlapped' PROVE OneAtATime'
    OBVIOUS
  <2>1. OneAtATime /\ w \in UnderWay /\ ~Holds(w)
    BY DEF IInv, OpenTemporary, UnderWay, Holds
  <2>2. \A v \in Writers : v \in UnderWay' => v \in UnderWay
    BY <1>2, <2>1 DEF UnderWay
  <2>3. HasOpen(f) = {}
    BY <2>1 DEF OneAtATime, UnderWay, HasOpen, Holds
  <2>4. UnderWay' \subseteq Writers
    BY DEF UnderWay
  <2> QED BY <1>5, <2>1, <2>2, <2>3, <2>4 DEF OneAtATime, OpenTemporary
<1> QED BY <1>3, <1>4, <1>7, <1>8 DEF IInv, OpenTemporary

LEMMA WriteKeeps ==
  ASSUME IInv, NEW w \in Writers, WriteTemporary(w)
  PROVE  IInv'
<1> DEFINE f == writer[w].file
<1>1. SettingsTypeOK
  BY DEF IInv
<1>2. /\ writer' \in [Writers -> WriterType]
      /\ writer'[w].at = "written" /\ writer'[w].file = f
      /\ writer'[w].merged = writer[w].merged
      /\ \A v \in Writers \ {w} : writer'[v] = writer[v]
  BY <1>1 DEF SettingsTypeOK, WriteTemporary, WriterType
<1>3. content' \in [Files -> [text : {"whole", "empty", "torn"}, says : All]]
  BY <1>1, TextIsTyped DEF SettingsTypeOK, WriteTemporary, WriterType
<1>4. SettingsTypeOK'
  BY <1>1, <1>2, <1>3 DEF SettingsTypeOK, WriteTemporary, WriterType, All, Files
<1>5. Holds(w) /\ Holds(w)' /\ \A v \in Writers : Holds(v)' => Holds(v)
  BY <1>2 DEF Holds, WriteTemporary
<1>6. ASSUME ~collided
      PROVE  /\ f = draft /\ f \in Files
             /\ content'[draft] = Text(writer[w].merged)
             /\ target # 0 => content'[target] = content[target]
  <2>1. f = draft /\ draft # 0 /\ content[draft].text = "empty"
    BY <1>5, <1>6 DEF IInv, Alone, WriteTemporary
  <2>2. f \in Files
    BY <1>1, <2>1 DEF SettingsTypeOK
  <2>3. content' = [content EXCEPT ![f] = Text(writer[w].merged)]
    BY <2>1 DEF WriteTemporary
  <2> QED BY <1>1, <2>1, <2>2, <2>3 DEF IInv, SettingsTypeOK
<1>7. ~collided => (Whole' <=> Whole) /\ Loaded' = Loaded
  BY <1>1, <1>6, SameForReaders DEF WriteTemporary
<1>8. ~collided' => Alone' /\ Whole'
  BY <1>2, <1>5, <1>6, <1>7 DEF IInv, Alone, WriteTemporary
<1>9. ~overlapped' => OneAtATime'
  <2>1. \A v \in Writers : v \in UnderWay' => v \in UnderWay
    BY <1>2 DEF UnderWay, WriteTemporary
  <2>2. UnderWay' \subseteq Writers
    BY DEF UnderWay
  <2> QED BY <1>7, <2>1, <2>2 DEF IInv, OneAtATime, WriteTemporary
<1> QED BY <1>4, <1>8, <1>9 DEF IInv, WriteTemporary

\* A writer that ends, however it does, has nothing open any more.
LEMMA EndsTyped ==
  ASSUME SettingsTypeOK, NEW w \in Writers, writer' = [writer EXCEPT ![w] = NotWriting]
  PROVE  /\ writer' \in [Writers -> WriterType]
         /\ writer'[w].at = "idle"
         /\ \A v \in Writers \ {w} : writer'[v] = writer[v]
BY NotWritingIsTyped DEF SettingsTypeOK, WriterType

LEMMA MoveKeeps ==
  ASSUME IInv, NEW w \in Writers, MoveIntoPlace(w)
  PROVE  IInv'
<1>1. SettingsTypeOK
  BY DEF IInv
<1>2. /\ writer' \in [Writers -> WriterType]
      /\ writer'[w].at = "idle"
      /\ \A v \in Writers \ {w} : writer'[v] = writer[v]
  BY <1>1, EndsTyped DEF MoveIntoPlace
<1>3. content' \in [Files -> [text : {"whole", "empty", "torn"}, says : All]]
  BY <1>1, TextIsTyped DEF SettingsTypeOK, MoveIntoPlace
<1>4. writer[w].merged \in All
  BY <1>1 DEF SettingsTypeOK
<1>5. SettingsTypeOK'
  BY <1>1, <1>2, <1>3, <1>4 DEF SettingsTypeOK, MoveIntoPlace, WriterType, All, Files
<1>6. target' # 0 => target' # draft'
  BY DEF IInv, MoveIntoPlace
<1>7. Holds(w) /\ ~Holds(w)' /\ \A v \in Writers : Holds(v)' => Holds(v)
  BY <1>2 DEF Holds, MoveIntoPlace
<1>8. ASSUME ~collided
      PROVE  /\ \A v \in Writers : ~Holds(v)'
             /\ Whole' /\ Loaded' = kept'
  <2>1. /\ draft # 0 /\ draft \in Files /\ draft # target
        /\ content[draft] = Text(writer[w].merged)
        /\ \A v \in Writers : Holds(v) => v = w
    BY <1>1, <1>7, <1>8 DEF IInv, Alone, MoveIntoPlace, SettingsTypeOK
  <2>2. /\ target' = draft /\ kept' = writer[w].merged
        /\ content'[draft] = content[draft]
    BY <2>1 DEF MoveIntoPlace
  <2> QED BY <1>4, <1>5, <1>7, <2>1, <2>2, ReadsTheTarget, TextIsTyped
          DEF SettingsTypeOK, Whole, Loaded, Parsed, Text
<1>9. ~collided' => Alone' /\ Whole'
  BY <1>8 DEF Alone, MoveIntoPlace
<1>10. ~overlapped' => OneAtATime'
  <2>1. \A v \in Writers : v \in UnderWay' => v \in UnderWay
    BY <1>2 DEF UnderWay
  <2>2. UnderWay' \subseteq Writers
    BY DEF UnderWay
  <2> QED BY <1>8, <2>1, <2>2 DEF IInv, OneAtATime, MoveIntoPlace
<1> QED BY <1>5, <1>6, <1>9, <1>10 DEF IInv

\* A step that ends writers and touches no file but the temporary keeps the rest.
LEMMA EndingKeeps ==
  ASSUME IInv, SettingsTypeOK', UNCHANGED <<target, draft, kept, collided, overlapped>>,
         \A v \in Writers : writer'[v] = writer[v] \/ writer'[v].at = "idle",
         ~collided => /\ target # 0 => content'[target] = content[target]
                      /\ \A v \in Writers : Holds(v)' => content'[draft] = content[draft]
  PROVE  IInv'
<1>1. \A v \in Writers : Holds(v)' => Holds(v) /\ writer'[v] = writer[v]
  BY DEF Holds
<1>2. ~collided => (Whole' <=> Whole) /\ Loaded' = Loaded
  BY SameForReaders DEF IInv
<1>3. ~collided' => Alone' /\ Whole'
  BY <1>1, <1>2 DEF IInv, Alone, Text
<1>4. ~overlapped' => OneAtATime'
  <2>1. \A v \in Writers : v \in UnderWay' => v \in UnderWay
    BY DEF UnderWay
  <2>2. UnderWay' \subseteq Writers
    BY DEF UnderWay
  <2> QED BY <1>2, <2>1, <2>2 DEF IInv, OneAtATime
<1> QED BY <1>3, <1>4 DEF IInv

LEMMA FailureKeeps ==
  ASSUME IInv, NEW w \in Writers, WriteFails(w)
  PROVE  IInv'
<1>1. SettingsTypeOK
  BY DEF IInv
<1>2. /\ writer' \in [Writers -> WriterType]
      /\ writer'[w].at = "idle"
      /\ \A v \in Writers \ {w} : writer'[v] = writer[v]
  BY <1>1, EndsTyped DEF WriteFails
<1>3. content' \in [Files -> [text : {"whole", "empty", "torn"}, says : All]]
  BY <1>1, TextIsTyped DEF SettingsTypeOK, WriteFails
<1>4. SettingsTypeOK'
  BY <1>1, <1>2, <1>3 DEF SettingsTypeOK, WriteFails, WriterType, All, Files
<1>5. ASSUME ~collided
      PROVE  /\ target # 0 => content'[target] = content[target]
             /\ \A v \in Writers : ~Holds(v)'
  <2>1. Holds(w) /\ writer[w].file = draft /\ \A v \in Writers : Holds(v) => v = w
    BY <1>5 DEF IInv, Alone, WriteFails, Holds
  <2> QED BY <1>1, <1>2, <2>1 DEF IInv, SettingsTypeOK, WriteFails, Holds
<1> QED BY <1>2, <1>4, <1>5, EndingKeeps DEF WriteFails

LEMMA DyingKeeps ==
  ASSUME IInv, NEW w \in Writers, Dies(w)
  PROVE  IInv'
<1>1. SettingsTypeOK
  BY DEF IInv
<1>2. /\ writer' \in [Writers -> WriterType]
      /\ \A v \in Writers : writer'[v] = writer[v] \/ writer'[v].at = "idle"
  <2>1. CASE kind = "config"
    BY <1>1, <2>1, EndsTyped DEF Dies
  <2>2. CASE kind # "config"
    <3>1. writer' = [v \in Writers |-> NotWriting]
      BY <2>2 DEF Dies
    <3> QED BY <3>1, NotWritingIsTyped, Zenon
  <2> QED BY <2>1, <2>2
<1>3. SettingsTypeOK'
  BY <1>1, <1>2 DEF SettingsTypeOK, Dies, WriterType, All, Files
<1> QED BY <1>2, <1>3, EndingKeeps DEF Dies

-----------------------------------------------------------------------------
LEMMA StepKeeps == IInv /\ [SettingsNext]_settingsVars => IInv'
<1> SUFFICES ASSUME IInv, [SettingsNext]_settingsVars PROVE IInv'
  OBVIOUS
<1>1. CASE OpenPage
  <2>1. SettingsTypeOK'
    BY <1>1 DEF IInv, SettingsTypeOK, OpenPage, All, Files
  <2> QED BY <1>1, <2>1, EndingKeeps DEF OpenPage
<1>2. ASSUME NEW w \in Writers,
             \/ \E changes \in Changes : LoadSettings(w, changes)
             \/ Save(w)
             \/ Dies(w)
      PROVE  IInv'
  BY <1>2, LoadKeeps, OpenKeeps, WriteKeeps, MoveKeeps, FailureKeeps, DyingKeeps DEF Save
<1>3. CASE UNCHANGED settingsVars
  <2>1. SettingsTypeOK'
    BY <1>3 DEF IInv, SettingsTypeOK, settingsVars, All, Files
  <2> QED BY <1>3, <2>1, EndingKeeps DEF settingsVars
<1> QED BY <1>1, <1>2, <1>3 DEF SettingsNext

\* Every variable keeps its type (ConsoleUISettingsStore and save_config).
THEOREM SettingsTypeCorrect == SettingsSpec => []SettingsTypeOK
<1>1. IInv => SettingsTypeOK
  BY DEF IInv
<1> QED BY <1>1, InitHolds, StepKeeps, PTL DEF SettingsSpec

\* Whatever fails or dies between two steps of save or save_config, the file reads as
\* last saved unless two writers overlapped, and is whole unless two had the temporary
\* open at once.
THEOREM SettingsKept == SettingsSpec => []SettingsAreKept
<1>1. IInv => SettingsAreKept
  BY DEF IInv, OneAtATime, SettingsAreKept
<1> QED BY <1>1, InitHolds, StepKeeps, PTL DEF SettingsSpec

-----------------------------------------------------------------------------
(* Atlas: the types of the disk and of the processes.                          *)

\* The rows of every table: the database, a backup, or what a process has read.
Contents ==
  {r \in [Tables -> SUBSET UNION {Row(t) : t \in Tables}] :
     \A t \in Tables : r[t] \subseteq Row(t)}

Places == {"off", "migrate", "draw", "save", "insert", "activate",
           "read", "manifest", "verify", "recheck", "apply", "diagnose"}

Process ==
  [at : Places, applied : SUBSET Versions, step : Nat \ {0},
   on : Identities \cup Backups \cup {"nothing"}, rows : Contents]

BackupFile == [state : {"none", "partial", "whole"}, rows : Contents]

Typed ==
  /\ db \in Contents
  /\ keys \in [Identities -> {"none", "short", "whole"}]
  /\ files \in [Backups -> BackupFile]
  /\ proc \in [Processes -> Process]
  /\ \A p \in Processes :
       /\ proc[p].at \in {"save", "insert", "activate"} => proc[p].on \in Identities
       /\ proc[p].at \in {"manifest", "recheck", "apply"} => proc[p].on \in Backups

LEMMA NamesOfTables ==
  /\ Tables = {"atlas_backups", "identities", "policies", "policy_rules",
               "schema_migrations"}
  /\ DOMAIN AllowedTables = 1 .. 5
  /\ \A k \in 1 .. 5 : AllowedTables[k] \in Tables
<1>1. DOMAIN AllowedTables = 1 .. 5
  BY DEF AllowedTables
<1>2. Tables = {AllowedTables[1], AllowedTables[2], AllowedTables[3], AllowedTables[4],
                AllowedTables[5]}
  BY <1>1 DEF Tables
<1> QED BY <1>1, <1>2 DEF AllowedTables

LEMMA RowsOfTables ==
  /\ Row("atlas_backups") = Backups
  /\ Row("identities") = [id : Identities, active : BOOLEAN]
  /\ Row("policies") = Policies
  /\ Row("policy_rules") = Policies
  /\ Row("schema_migrations") = Versions
BY DEF Row

LEMMA TableChanged ==
  ASSUME NEW r \in Contents, NEW t \in Tables, NEW S \in SUBSET Row(t)
  PROVE  /\ [r EXCEPT ![t] = S] \in Contents
         /\ [r EXCEPT ![t] = S][t] = S
         /\ \A u \in Tables : u # t => [r EXCEPT ![t] = S][u] = r[u]
<1>1. r \in [Tables -> SUBSET UNION {Row(u) : u \in Tables}]
  BY DEF Contents
<1>2. S \in SUBSET UNION {Row(u) : u \in Tables}
  OBVIOUS
<1>3. \A u \in Tables : r[u] \subseteq Row(u)
  BY DEF Contents
<1> HIDE DEF Tables, Row
<1> QED BY <1>1, <1>2, <1>3 DEF Contents

LEMMA ContentsOf ==
  ASSUME NEW r, DOMAIN r = Tables, r = [t \in Tables |-> r[t]],
         \A t \in Tables : r[t] \subseteq Row(t)
  PROVE  r \in Contents
<1>1. \A t \in Tables : r[t] \in SUBSET UNION {Row(u) : u \in Tables}
  OBVIOUS
<1>2. r \in [Tables -> SUBSET UNION {Row(u) : u \in Tables}]
  BY <1>1
<1> QED BY <1>2 DEF Contents

LEMMA NoRowsTyped == NoRows \in Contents /\ \A t \in Tables : NoRows[t] = {}
<1>1. \A t \in Tables : NoRows[t] = {}
  BY DEF NoRows
<1> QED BY <1>1, ContentsOf DEF NoRows

LEMMA IdleTyped ==
  /\ Idle \in Process /\ Idle.at = "off" /\ Idle.rows = NoRows /\ Idle.step = 1
  /\ \A a \in Places : /\ [Idle EXCEPT !.at = a] \in Process
                       /\ [Idle EXCEPT !.at = a].at = a
                       /\ [Idle EXCEPT !.at = a].rows = NoRows
                       /\ [Idle EXCEPT !.at = a].step = 1
BY NoRowsTyped DEF Idle, Process, Places

\* What a step of one process does to the others, and to its own row.
LEMMA ProcMoved ==
  ASSUME Typed, NEW p \in Processes, NEW r \in Process, proc' = [proc EXCEPT ![p] = r]
  PROVE  /\ proc' \in [Processes -> Process] /\ proc'[p] = r
         /\ \A q \in Processes : q # p => proc'[q] = proc[q]
BY DEF Typed

-----------------------------------------------------------------------------
(* Policies and their rules: the rows of both tables change in one transaction, *)
(* and a restore that brings rows apart is the one tornBack counts.              *)

PoliciesInv ==
  /\ DOMAIN db = Tables
  /\ CheckForeignKeys
  /\ PoliciesKeepTheirRules

LEMMA PoliciesInit == AtlasInit => PoliciesInv
BY NamesOfTables DEF AtlasInit, NoRows, PoliciesInv, CheckForeignKeys,
                     PoliciesKeepTheirRules

\* A step that leaves both tables alone.
LEMMA OtherTable ==
  ASSUME PoliciesInv, DOMAIN db' = Tables, db'["policies"] = db["policies"],
         db'["policy_rules"] = db["policy_rules"], tornBack' = tornBack
  PROVE  PoliciesInv'
BY DEF PoliciesInv, CheckForeignKeys, PoliciesKeepTheirRules

LEMMA PoliciesStep == PoliciesInv /\ [AtlasNext]_atlasVars => PoliciesInv'
<1> SUFFICES ASSUME PoliciesInv, [AtlasNext]_atlasVars PROVE PoliciesInv'
  OBVIOUS
<1> USE NamesOfTables
<1>1. ASSUME UNCHANGED <<db, tornBack>> PROVE PoliciesInv'
  BY <1>1, OtherTable DEF PoliciesInv
<1>2. ASSUME NEW p \in Processes, MigrationStep(p) PROVE PoliciesInv'
  <2>1. CASE RecordVersion(p)
    <3>1. \/ UNCHANGED <<db, tornBack>>
          \/ /\ db' = [db EXCEPT !["schema_migrations"] = @ \cup {Version(p)}]
             /\ tornBack' = tornBack
      BY <2>1 DEF RecordVersion
    <3> QED BY <3>1, <1>1, OtherTable DEF PoliciesInv
  <2>2. CASE ReadApplied(p) \/ CreateTable(p)
    BY <2>2, <1>1 DEF ReadApplied, CreateTable
  <2>3. CASE \/ InitCommand(p) \/ CreateCommand(p) \/ BackupCommand(p)
             \/ RestoreCommand(p) \/ CheckCommand(p)
    BY <2>3, <1>1 DEF InitCommand, CreateCommand, BackupCommand, RestoreCommand,
                      CheckCommand, TurnsTo, disk
  <2> QED BY <1>2, <2>1, <2>2, <2>3 DEF MigrationStep
<1>3. ASSUME NEW p \in Processes, IdentityStep(p) PROVE PoliciesInv'
  <2>1. CASE InsertIdentity(p)
    <3>1. PICK S : db' = db \/ db' = [db EXCEPT !["identities"] = S]
      BY <2>1 DEF InsertIdentity
    <3> QED BY <3>1, <2>1, OtherTable DEF PoliciesInv, InsertIdentity
  <2>2. CASE ActivateIdentity(p)
    <3>1. PICK S : db' = [db EXCEPT !["identities"] = S]
      BY <2>2 DEF ActivateIdentity
    <3> QED BY <3>1, <2>2, OtherTable DEF PoliciesInv, ActivateIdentity
  <2>3. CASE SaveKeypair(p) \/ \E i \in Identities : DrawIdentity(p, i) \/ FindIdentity(p, i)
    BY <2>3, <1>1 DEF SaveKeypair, DrawIdentity, FindIdentity, disk
  <2> QED BY <1>3, <2>1, <2>2, <2>3 DEF IdentityStep
<1>4. ASSUME NEW p \in Processes, BackupStep(p) PROVE PoliciesInv'
  <2>1. CASE InsertManifest(p)
    <3>1. PICK S : db' = [db EXCEPT !["atlas_backups"] = S]
      BY <2>1 DEF InsertManifest
    <3> QED BY <3>1, <2>1, OtherTable DEF PoliciesInv, InsertManifest
  <2>2. CASE Restore(p)
    <3> PICK rows : rows = files[proc[p].on].rows
      OBVIOUS
    <3>1. CASE ~ForeignKeysHold(rows)
      BY <3>1, <2>2, <1>1 DEF Restore
    <3>2. CASE ForeignKeysHold(rows)
      <4>1. /\ db' = [t \in Tables |-> IF t = "policy_rules" THEN RestoredRules(rows)
                                                            ELSE RestoredRows(rows, t)]
            /\ tornBack' = (tornBack \/ rows["policies"] # rows["policy_rules"])
        BY <3>2, <2>2 DEF Restore
      <4>2. /\ DOMAIN db' = Tables
            /\ db'["policy_rules"] = RestoredRules(rows)
            /\ db'["policies"] = RestoredRows(rows, "policies")
        BY <4>1
      <4>3. CheckForeignKeys'
        BY <4>2, <3>2 DEF ForeignKeysHold, CheckForeignKeys
      <4>4. PoliciesKeepTheirRules'
        BY <4>1, <4>2 DEF PoliciesInv, PoliciesKeepTheirRules, RestoredRules, RestoredRows
      <4> QED BY <4>2, <4>3, <4>4 DEF PoliciesInv
    <3> QED BY <3>1, <3>2
  <2>3. CASE \/ ReadTable(p) \/ VerifyCompatibility(p)
             \/ \E b \in Backups : WriteBackup(p, b) \/ VerifyBackup(p, b)
    BY <2>3, <1>1 DEF ReadTable, VerifyCompatibility, WriteBackup, VerifyBackup, disk
  <2> QED BY <1>4, <2>1, <2>2, <2>3 DEF BackupStep
<1>5. ASSUME NEW c \in Policies, CreatePolicy(c) \/ DeletePolicy(c) PROVE PoliciesInv'
  BY <1>5 DEF PoliciesInv, CreatePolicy, DeletePolicy, CheckForeignKeys,
              PoliciesKeepTheirRules
<1>6. ASSUME NEW p \in Processes, Exit(p) PROVE PoliciesInv'
  BY <1>6, <1>1 DEF Exit, disk
<1> QED BY <1>1, <1>2, <1>3, <1>4, <1>5, <1>6 DEF AtlasNext, atlasVars

\* For any number of processes, backups and policies: no crash and no restore leaves
\* a policy without its rules or a rule without its policy, but for a backup that was
\* read while policies changed (engine.py 98-123, restore.py 97-115).
THEOREM PoliciesTheorem == AtlasSpec => []PoliciesKeepTheirRules
<1>1. PoliciesInv => PoliciesKeepTheirRules
  BY DEF PoliciesInv
<1> QED BY <1>1, PoliciesInit, PoliciesStep, PTL DEF AtlasSpec

-----------------------------------------------------------------------------
(* Rows travel: a process reads them from the database, a backup takes them     *)
(* from a process, and nobody invents any.                                      *)
Travels ==
  /\ \A q \in Processes : \A t \in Tables :
       \/ proc'[q].rows[t] = proc[q].rows[t]
       \/ proc'[q].rows[t] = {}
       \/ proc[q].at = "read" /\ proc'[q].rows[t] = db[t]
  /\ \A b \in Backups : \A t \in Tables :
       \/ files'[b].rows[t] = files[b].rows[t]
       \/ \E q \in Processes : files'[b].rows[t] = proc[q].rows[t]

\* What r says of the identity or the backup it works on.
WorksOn(r) ==
  /\ r.at \in {"save", "insert", "activate"} => r.on \in Identities
  /\ r.at \in {"manifest", "recheck", "apply"} => r.on \in Backups

LEMMA ProcTravels ==
  ASSUME Typed, NEW p \in Processes, NEW r \in Process,
         proc' = [proc EXCEPT ![p] = r],
         r.rows = proc[p].rows \/ r.rows = NoRows,
         WorksOn(r), db' \in Contents,
         keys' \in [Identities -> {"none", "short", "whole"}],
         files' = files
  PROVE  Typed' /\ Travels
<1>1. /\ proc' \in [Processes -> Process] /\ proc'[p] = r
      /\ \A q \in Processes : q # p => proc'[q] = proc[q]
  BY ProcMoved
<1> HIDE DEF Process, Contents, BackupFile, Tables
<1>2. Typed'
  BY <1>1 DEF Typed, WorksOn
<1>3. \A q \in Processes : \A t \in Tables :
        proc'[q].rows[t] = proc[q].rows[t] \/ proc'[q].rows[t] = {}
  BY <1>1, NoRowsTyped
<1>4. \A b \in Backups : \A t \in Tables : files'[b].rows[t] = files[b].rows[t]
  OBVIOUS
<1> QED BY <1>2, <1>3, <1>4 DEF Travels

LEMMA EndsTravels ==
  ASSUME Typed, NEW p \in Processes, Ends(p), db' \in Contents,
         keys' \in [Identities -> {"none", "short", "whole"}],
         files' = files
  PROVE  Typed' /\ Travels
<1>1. WorksOn(Idle)
  BY IdleTyped DEF WorksOn
<1> QED BY <1>1, IdleTyped, ProcTravels DEF Ends

LEMMA TurnsTravels ==
  ASSUME Typed, NEW p \in Processes,
         NEW a \in {"off", "migrate", "draw", "read", "verify", "diagnose"}, TurnsTo(p, a)
  PROVE  Typed' /\ Travels
<1> PICK r : r = [Idle EXCEPT !.at = a]
  OBVIOUS
<1>1. r \in Process /\ r.at = a /\ r.rows = NoRows
  BY IdleTyped DEF Places
<1>2. proc' = [proc EXCEPT ![p] = r] /\ UNCHANGED <<db, keys, files>>
  BY DEF TurnsTo, disk
<1>3. WorksOn(r)
  BY <1>1 DEF WorksOn
<1> QED BY <1>1, <1>2, <1>3, ProcTravels DEF Typed

LEMMA FewerVersions ==
  ASSUME NEW S, S \subseteq Versions, S # Versions
  PROVE  Min(Versions \ S) \in Versions \ S
<1> DEFINE T == Versions \ S
<1>0. Versions \subseteq Nat
  BY DEF Versions
<1>1. T \subseteq Nat /\ T # {}
  BY <1>0
<1> HIDE DEF T
<1>2. PICK n \in T : \A m \in T : n <= m
  <2>1. PICK x \in T : \A y \in T : <<y, x>> \notin OpToRel(<, Nat)
    BY <1>1, NatLessThanWellFounded, WFMin
  <2>2. \A y \in T : ~(y < x)
    BY <1>1, <2>1 DEF OpToRel
  <2>3. \A y \in T : x <= y
    BY <1>1, <2>2
  <2> QED BY <2>3
<1>3. Min(T) \in T
  BY <1>2 DEF Min
<1> QED BY <1>3 DEF T

LEMMA MigrationTyped ==
  ASSUME Typed, NEW p \in Processes, MigrationStep(p)
  PROVE  Typed' /\ Travels
<1>0. proc[p] \in Process
  BY DEF Typed
<1>1. CASE ReadApplied(p)
  <2> PICK r : r = [proc[p] EXCEPT !.at = "migrate", !.applied = db["schema_migrations"]]
    OBVIOUS
  <2>1. db["schema_migrations"] \subseteq Versions
    BY NamesOfTables, RowsOfTables DEF Typed, Contents
  <2>2. r \in Process /\ r.rows = proc[p].rows /\ r.at = "migrate"
    BY <1>0, <2>1 DEF Process, Places
  <2>3. proc' = [proc EXCEPT ![p] = r]
    BY <1>1 DEF ReadApplied, Typed
  <2> QED BY <2>2, <2>3, <1>1, ProcTravels DEF ReadApplied, WorksOn, Typed
<1>2. CASE CreateTable(p)
  <2> PICK r : r = [proc[p] EXCEPT !.step = @ + 1]
    OBVIOUS
  <2>2. r \in Process /\ r.rows = proc[p].rows /\ r.at = proc[p].at
    BY <1>0 DEF Process
  <2>3. proc' = [proc EXCEPT ![p] = r]
    BY <1>2 DEF CreateTable, Typed
  <2>4. WorksOn(r)
    BY <2>2, <1>2 DEF CreateTable, At, WorksOn
  <2> QED BY <2>2, <2>3, <2>4, <1>2, ProcTravels DEF CreateTable, Typed
<1>3. CASE RecordVersion(p)
  <2>0. Version(p) \in Versions
    <3>1. proc[p].applied \subseteq Versions /\ proc[p].applied # Versions
      BY <1>0, <1>3 DEF Process, RecordVersion, Pending
    <3> QED BY <3>1, FewerVersions DEF Version, Pending
  <2>1. CASE Version(p) \in db["schema_migrations"]
    BY <2>1, <1>3, EndsTravels DEF RecordVersion, Typed
  <2>2. CASE Version(p) \notin db["schema_migrations"]
    <3> PICK S : S = proc[p].applied \cup {Version(p)}
      OBVIOUS
    <3>0. S \in SUBSET Versions
      BY <1>0, <2>0 DEF Process
    <3> PICK r : r = [proc[p] EXCEPT !.applied = S, !.step = 1]
      OBVIOUS
    <3>1. r \in Process /\ r.rows = proc[p].rows /\ r.at = proc[p].at
      <4> PICK q : q = [proc[p] EXCEPT !.applied = S]
        OBVIOUS
      <4>1. q \in Process /\ q.rows = proc[p].rows /\ q.at = proc[p].at
        BY <1>0, <3>0 DEF Process
      <4> PICK n \in Nat \ {0} : n = 1
        OBVIOUS
      <4>2. r = [q EXCEPT !.step = n]
        BY <1>0 DEF Process
      <4> QED BY <4>1, <4>2, Zenon DEF Process
    <3>2. proc' = [proc EXCEPT ![p] = r]
      BY <1>3, <2>2 DEF RecordVersion, Typed
    <3>3. WorksOn(r)
      BY <3>1, <1>3 DEF RecordVersion, At, WorksOn
    <3>4. db' \in Contents
      <4>1. db' = [db EXCEPT !["schema_migrations"] = db["schema_migrations"] \cup {Version(p)}]
        BY <1>3, <2>2 DEF RecordVersion
      <4>2. db \in Contents /\ db["schema_migrations"] \subseteq Versions
        BY NamesOfTables, RowsOfTables DEF Typed, Contents
      <4>3. db["schema_migrations"] \cup {Version(p)} \subseteq Row("schema_migrations")
        BY <4>2, <2>0, RowsOfTables
      <4> QED BY <4>1, <4>2, <4>3, TableChanged, NamesOfTables
    <3> QED BY <3>1, <3>2, <3>3, <3>4, <1>3, ProcTravels DEF RecordVersion, Typed
  <2> QED BY <2>1, <2>2
<1>4. CASE InitCommand(p)
  <2>1. TurnsTo(p, "off") \/ TurnsTo(p, "draw")
    BY <1>4 DEF InitCommand
  <2> QED BY <2>1, TurnsTravels
<1>5. CASE CreateCommand(p) \/ BackupCommand(p) \/ RestoreCommand(p) \/ CheckCommand(p)
  <2>1. TurnsTo(p, "draw") \/ TurnsTo(p, "read") \/ TurnsTo(p, "verify")
          \/ TurnsTo(p, "diagnose")
    BY <1>5 DEF CreateCommand, BackupCommand, RestoreCommand, CheckCommand
  <2> QED BY <2>1, TurnsTravels
<1> QED BY <1>1, <1>2, <1>3, <1>4, <1>5 DEF MigrationStep

LEMMA DeactivatedTyped ==
  ASSUME NEW rows, rows \subseteq [id : Identities, active : BOOLEAN]
  PROVE  /\ Deactivated(rows) \subseteq [id : Identities, active : BOOLEAN]
         /\ \A r \in Deactivated(rows) : ~r.active
<1>1. \A r \in rows : [id |-> r.id, active |-> FALSE] \in [id : Identities, active : BOOLEAN]
  OBVIOUS
<1> QED BY <1>1 DEF Deactivated

LEMMA IdentityTyped ==
  ASSUME Typed, NEW p \in Processes, IdentityStep(p)
  PROVE  Typed' /\ Travels
<1>0. /\ proc[p] \in Process
      /\ db \in Contents /\ db["identities"] \subseteq [id : Identities, active : BOOLEAN]
      /\ "identities" \in Tables
  BY NamesOfTables, RowsOfTables DEF Typed, Contents
<1>1. CASE \E i \in Identities : DrawIdentity(p, i) \/ FindIdentity(p, i)
  <2> PICK i \in Identities : DrawIdentity(p, i) \/ FindIdentity(p, i)
    BY <1>1
  <2> PICK a \in {"save", "activate"} : proc' = [proc EXCEPT ![p].at = a, ![p].on = i]
    BY DEF DrawIdentity, FindIdentity
  <2> PICK r : r = [proc[p] EXCEPT !.at = a, !.on = i]
    OBVIOUS
  <2>1. r \in Process /\ r.rows = proc[p].rows /\ r.at = a /\ r.on = i
    BY <1>0 DEF Process, Places
  <2>2. proc' = [proc EXCEPT ![p] = r]
    BY DEF Typed
  <2>3. UNCHANGED <<db, keys, files>>
    BY DEF DrawIdentity, FindIdentity, disk
  <2>4. WorksOn(r)
    BY <2>1 DEF WorksOn
  <2>5. db' \in Contents /\ keys' \in [Identities -> {"none", "short", "whole"}]
    BY <2>3 DEF Typed
  <2> QED BY <2>1, <2>2, <2>3, <2>4, <2>5, ProcTravels
<1>2. CASE SaveKeypair(p)
  <2> PICK r : r = [proc[p] EXCEPT !.at = "insert"]
    OBVIOUS
  <2>1. r \in Process /\ r.rows = proc[p].rows /\ r.at = "insert" /\ r.on = proc[p].on
    BY <1>0 DEF Process, Places
  <2>2. proc' = [proc EXCEPT ![p] = r]
    BY <1>2 DEF SaveKeypair, Typed
  <2>3. /\ UNCHANGED <<db, files>> /\ proc[p].on \in Identities
        /\ keys' \in [Identities -> {"none", "short", "whole"}]
    BY <1>2 DEF SaveKeypair, At, Typed
  <2> QED BY <2>1, <2>2, <2>3, ProcTravels DEF WorksOn, Typed
<1>3. CASE InsertIdentity(p)
  <2>1. proc[p].on \in Identities
    BY <1>3 DEF InsertIdentity, At, Typed
  <2>2. keys' \in [Identities -> {"none", "short", "whole"}]
    BY <1>3 DEF InsertIdentity, Typed
  <2>3. db' \in Contents
    <3>1. CASE UNCHANGED db
      BY <3>1, <1>0
    <3>2. CASE \E active \in BOOLEAN :
                 db' = [db EXCEPT !["identities"] =
                          (IF active THEN Deactivated(@) ELSE @)
                            \cup {[id |-> proc[p].on, active |-> active]}]
      <4>1. PICK S \in SUBSET Row("identities") : db' = [db EXCEPT !["identities"] = S]
        <5>1. Deactivated(db["identities"]) \subseteq Row("identities")
          BY <1>0, DeactivatedTyped, RowsOfTables
        <5>2. db["identities"] \subseteq Row("identities")
          BY <1>0, RowsOfTables
        <5>3. \A active \in BOOLEAN : [id |-> proc[p].on, active |-> active] \in Row("identities")
          BY <2>1, RowsOfTables
        <5> QED BY <3>2, <5>1, <5>2, <5>3
      <4> QED BY <4>1, <1>0, TableChanged
    <3> QED BY <3>1, <3>2, <1>3 DEF InsertIdentity
  <2> QED BY <2>2, <2>3, <1>3, EndsTravels DEF InsertIdentity
<1>4. CASE ActivateIdentity(p)
  <2>1. proc[p].on \in Identities
    BY <1>4 DEF ActivateIdentity, At, Typed
  <2> DEFINE S == {IF r.id = proc[p].on THEN [r EXCEPT !.active = TRUE] ELSE r :
                     r \in Deactivated(db["identities"])}
  <2>2. db' = [db EXCEPT !["identities"] = S]
    BY <1>4 DEF ActivateIdentity
  <2>3. S \subseteq Row("identities")
    <3>1. Deactivated(db["identities"]) \subseteq [id : Identities, active : BOOLEAN]
      BY <1>0, DeactivatedTyped
    <3>2. \A r \in [id : Identities, active : BOOLEAN] :
            [r EXCEPT !.active = TRUE] \in [id : Identities, active : BOOLEAN]
      OBVIOUS
    <3> QED BY <3>1, <3>2, RowsOfTables
  <2> HIDE DEF S
  <2>4. db' \in Contents
    BY <2>2, <2>3, <1>0, TableChanged
  <2> QED BY <2>4, <1>4, EndsTravels DEF ActivateIdentity, Typed
<1> QED BY <1>1, <1>2, <1>3, <1>4 DEF IdentityStep

\* What _build_payload reads.
LEMMA ReadTyped ==
  ASSUME Typed, NEW p \in Processes, ReadTable(p)
  PROVE  Typed' /\ Travels
<1> PICK t : t = AllowedTables[proc[p].step]
  OBVIOUS
<1> PICK S : S = IF t \in schema THEN db[t] ELSE {}
  OBVIOUS
<1>0. proc[p] \in Process /\ db \in Contents
  BY DEF Typed
<1>1. t \in Tables
  <2>1. proc[p].step \in Nat \ {0} /\ proc[p].step <= Len(AllowedTables)
    BY <1>0 DEF Process, ReadTable
  <2>2. Len(AllowedTables) = 5
    BY DEF AllowedTables
  <2>3. proc[p].step \in 1 .. 5
    BY <2>1, <2>2
  <2> QED BY <2>3, NamesOfTables
<1>2. S \subseteq Row(t)
  BY <1>0, <1>1 DEF Contents
<1>3. PICK old \in Contents : old = proc[p].rows
  BY <1>0 DEF Process
<1> PICK rows : rows = [old EXCEPT ![t] = S]
  OBVIOUS
<1>4. /\ rows \in Contents /\ rows[t] = S
      /\ \A u \in Tables : u # t => rows[u] = old[u]
  <2>1. old \in [Tables -> SUBSET UNION {Row(u) : u \in Tables}]
    BY DEF Contents
  <2>2. S \in SUBSET UNION {Row(u) : u \in Tables}
    BY <1>1, <1>2
  <2>3. \A u \in Tables : old[u] \subseteq Row(u)
    BY DEF Contents
  <2> HIDE DEF Tables, Row
  <2> QED BY <2>1, <2>2, <2>3, <1>1, <1>2 DEF Contents
<1> PICK n \in Nat \ {0} : n = proc[p].step + 1
  BY <1>0 DEF Process
<1> PICK r : r = [proc[p] EXCEPT !.step = n, !.rows = rows]
  OBVIOUS
<1>5. r \in Process /\ r.rows = rows /\ r.at = "read"
  <2>1. proc[p].at = "read"
    BY DEF ReadTable, At
  <2> QED BY <1>0, <1>4, <2>1, Zenon DEF Process
<1>6. proc' = [proc EXCEPT ![p] = r]
  <2>1. proc' = [proc EXCEPT ![p].step = n, ![p].rows[t] = S]
    BY DEF ReadTable
  <2>2. proc' = [proc EXCEPT ![p].step = n, ![p].rows = [proc[p].rows EXCEPT ![t] = S]]
    BY <2>1, <1>0 DEF Typed, Process
  <2> QED BY <2>2, <1>0, <1>3, <1>4 DEF Typed, Process
<1>7. /\ proc' \in [Processes -> Process] /\ proc'[p] = r
      /\ \A q \in Processes : q # p => proc'[q] = proc[q]
  BY <1>5, <1>6, ProcMoved
<1>8. UNCHANGED <<db, keys, files>> /\ proc[p].at = "read"
  BY DEF ReadTable, At, disk
<1> HIDE DEF Process, Contents, BackupFile, Tables
<1>9. Typed'
  BY <1>5, <1>7, <1>8 DEF Typed
<1>10. \A q \in Processes : \A u \in Tables :
         \/ proc'[q].rows[u] = proc[q].rows[u]
         \/ proc'[q].rows[u] = {}
         \/ proc[q].at = "read" /\ proc'[q].rows[u] = db[u]
  <2> TAKE q \in Processes
  <2> TAKE u \in Tables
  <2>1. S = {} \/ S = db[t]
    OBVIOUS
  <2>2. CASE q = p /\ u = t
    <3>1. proc'[q].rows[u] = S
      BY <2>2, <1>4, <1>5, <1>7
    <3> QED BY <2>1, <2>2, <3>1, <1>8
  <2>3. CASE q = p /\ u # t
    <3>1. proc'[q].rows = rows
      BY <2>3, <1>5, <1>7
    <3>2. rows[u] = old[u] /\ old = proc[p].rows
      BY <2>3, <1>3, <1>4
    <3> QED BY <2>3, <3>1, <3>2
  <2>4. CASE q # p
    BY <2>4, <1>7
  <2> QED BY <2>2, <2>3, <2>4
<1>11. \A b \in Backups : \A u \in Tables : files'[b].rows[u] = files[b].rows[u]
  BY <1>8
<1> QED BY <1>9, <1>10, <1>11 DEF Travels

LEMMA WriteTyped ==
  ASSUME Typed, NEW p \in Processes, NEW b \in Backups, WriteBackup(p, b)
  PROVE  /\ Typed' /\ Travels
         /\ files[b].state = "none"
         /\ \A c \in Backups : c # b => files'[c] = files[c]
         /\ proc'[p].at = "off" \/ /\ proc'[p].at = "manifest" /\ proc'[p].on = b
                                   /\ files'[b].state = "whole"
<1>0. proc[p] \in Process /\ db \in Contents /\ files[b] \in BackupFile
  BY DEF Typed
<1>1. proc[p].rows \in Contents
  BY <1>0 DEF Process
<1>2. PICK f \in BackupFile, r \in Process :
        /\ files' = [files EXCEPT ![b] = f] /\ proc' = [proc EXCEPT ![p] = r]
        /\ f.rows \in {files[b].rows, proc[p].rows}
        /\ r.rows = NoRows
        /\ r.at = "off" \/ (r.at = "manifest" /\ r.on = b /\ f.state = "whole")
  <2>1. CASE /\ files' = [files EXCEPT ![b] = [state |-> "whole", rows |-> proc[p].rows]]
             /\ proc' = [proc EXCEPT ![p] = [Idle EXCEPT !.at = "manifest", !.on = b]]
    <3> PICK f : f = [state |-> "whole", rows |-> proc[p].rows]
      OBVIOUS
    <3> PICK r : r = [Idle EXCEPT !.at = "manifest", !.on = b]
      OBVIOUS
    <3>1. f \in BackupFile /\ f.rows = proc[p].rows /\ f.state = "whole"
      BY <1>1 DEF BackupFile
    <3>2. r \in Process /\ r.rows = NoRows /\ r.at = "manifest" /\ r.on = b
      <4>1. Idle \in Process /\ Idle.rows = NoRows
        BY IdleTyped
      <4>2. PICK i \in Process : i = Idle
        BY <4>1
      <4>3. r = [i EXCEPT !.at = "manifest", !.on = b] /\ "manifest" \in Places
        BY <4>2 DEF Places
      <4> HIDE DEF Places
      <4>4. r \in Process /\ r.rows = i.rows /\ r.at = "manifest" /\ r.on = b
        BY <4>3 DEF Process
      <4> QED BY <4>1, <4>2, <4>4
    <3> QED BY <2>1, <3>1, <3>2, Zenon
  <2>2. CASE /\ files' = [files EXCEPT ![b].state = "partial"]
             /\ proc' = [proc EXCEPT ![p] = Idle]
    <3> PICK f : f = [files[b] EXCEPT !.state = "partial"]
      OBVIOUS
    <3>1. f \in BackupFile /\ f.rows = files[b].rows
      BY <1>0 DEF BackupFile
    <3>2. files' = [files EXCEPT ![b] = f]
      BY <2>2 DEF Typed
    <3> QED BY <2>2, <3>1, <3>2, IdleTyped, Zenon
  <2> QED BY <2>1, <2>2 DEF WriteBackup, WriteFailed
<1>3. /\ proc' \in [Processes -> Process] /\ proc'[p] = r
      /\ \A q \in Processes : q # p => proc'[q] = proc[q]
  BY <1>2, ProcMoved
<1>4. /\ files' \in [Backups -> BackupFile] /\ files'[b] = f
      /\ \A c \in Backups : c # b => files'[c] = files[c]
  BY <1>2 DEF Typed
<1>5. UNCHANGED <<db, keys>> /\ files[b].state = "none"
  BY DEF WriteBackup
<1> HIDE DEF Process, Contents, BackupFile, Tables
<1>6. Typed'
  BY <1>2, <1>3, <1>4, <1>5 DEF Typed
<1>7. \A q \in Processes : \A t \in Tables :
        proc'[q].rows[t] = proc[q].rows[t] \/ proc'[q].rows[t] = {}
  BY <1>2, <1>3, NoRowsTyped
<1>8. \A c \in Backups : \A t \in Tables :
        \/ files'[c].rows[t] = files[c].rows[t]
        \/ \E q \in Processes : files'[c].rows[t] = proc[q].rows[t]
  BY <1>2, <1>4
<1>9. Travels
  BY <1>7, <1>8 DEF Travels
<1> QED BY <1>2, <1>3, <1>4, <1>5, <1>6, <1>9

\* What a restore leaves in the database.
LEMMA RestoredTyped ==
  ASSUME NEW p \in Processes, Typed, Restore(p)
  PROVE  /\ proc[p].on \in Backups /\ db' \in Contents
         /\ \A t \in Tables : \/ db'[t] = db[t]
                              \/ db'[t] = files[proc[p].on].rows[t]
                              \/ t = "policy_rules"
         /\ \A t \in Tables : files[proc[p].on].rows[t] = {} =>
                                db'[t] = db[t] \/ t = "policy_rules"
<1>0. proc[p].on \in Backups /\ db \in Contents
  BY DEF Typed, Restore, At
<1> PICK rows : rows = files[proc[p].on].rows
  OBVIOUS
<1>1. rows \in Contents
  BY <1>0 DEF Typed, BackupFile
<1>2. CASE db' = db
  BY <1>0, <1>2
<1>3. CASE db' # db
  <2>1. db' = [t \in Tables |-> IF t = "policy_rules" THEN RestoredRules(rows)
                                                      ELSE RestoredRows(rows, t)]
    BY <1>3 DEF Restore
  <2>2. \A t \in Tables : /\ RestoredRows(rows, t) \in {db[t], rows[t]}
                          /\ rows[t] = {} => RestoredRows(rows, t) = db[t]
    BY DEF RestoredRows
  <2>3. "policy_rules" \in Tables
    BY NamesOfTables
  <2>4. RestoredRules(rows) \in {db["policy_rules"], rows["policy_rules"]}
    BY <2>2, <2>3 DEF RestoredRules
  <2>5. \A t \in Tables : rows[t] \subseteq Row(t) /\ db[t] \subseteq Row(t)
    BY <1>0, <1>1 DEF Contents
  <2>6. \A t \in Tables : db'[t] \in {db[t], rows[t]}
    BY <2>1, <2>2, <2>4
  <2>7. \A t \in Tables : db'[t] \subseteq Row(t)
    BY <2>5, <2>6
  <2>8. DOMAIN db' = Tables /\ db' = [t \in Tables |-> db'[t]]
    BY <2>1
  <2>9. db' \in Contents
    BY <2>7, <2>8, ContentsOf
  <2>10. \A t \in Tables : t # "policy_rules" => db'[t] = RestoredRows(rows, t)
    BY <2>1
  <2> QED BY <1>0, <2>2, <2>6, <2>9, <2>10
<1> QED BY <1>2, <1>3

LEMMA BackupTyped ==
  ASSUME Typed, NEW p \in Processes, BackupStep(p)
  PROVE  Typed' /\ Travels
<1>0. proc[p] \in Process /\ db \in Contents
  BY DEF Typed
<1>1. CASE ReadTable(p)
  BY <1>1, ReadTyped
<1>2. CASE \E b \in Backups : WriteBackup(p, b)
  BY <1>2, WriteTyped
<1>3. CASE InsertManifest(p)
  <2>1. proc[p].on \in Backups
    BY <1>3 DEF InsertManifest, At, Typed
  <2>2. "atlas_backups" \in Tables /\ db["atlas_backups"] \subseteq Row("atlas_backups")
    BY <1>0, NamesOfTables DEF Contents
  <2>3. db["atlas_backups"] \cup {proc[p].on} \subseteq Row("atlas_backups")
    BY <2>1, <2>2, RowsOfTables
  <2>4. db' = [db EXCEPT !["atlas_backups"] = db["atlas_backups"] \cup {proc[p].on}]
    BY <1>3 DEF InsertManifest
  <2>5. db' \in Contents
    BY <2>2, <2>3, <2>4, <1>0, TableChanged
  <2> QED BY <2>5, <1>3, EndsTravels DEF InsertManifest, Typed
<1>4. CASE \E b \in Backups : VerifyBackup(p, b)
  <2> PICK b \in Backups : VerifyBackup(p, b)
    BY <1>4
  <2>1. UNCHANGED <<db, keys, files>>
    BY DEF VerifyBackup, disk
  <2>2. CASE b \in db["atlas_backups"] /\ files[b].state = "whole"
    <3> PICK r : r = [proc[p] EXCEPT !.at = "recheck", !.on = b]
      OBVIOUS
    <3>1. r \in Process /\ r.rows = proc[p].rows /\ r.at = "recheck" /\ r.on = b
      BY <1>0 DEF Process, Places
    <3>2. proc' = [proc EXCEPT ![p] = r]
      BY <2>2 DEF VerifyBackup, Typed
    <3>3. WorksOn(r)
      BY <3>1 DEF WorksOn
    <3>4. db' \in Contents /\ keys' \in [Identities -> {"none", "short", "whole"}]
      BY <2>1 DEF Typed
    <3> QED BY <3>1, <3>2, <3>3, <3>4, <2>1, ProcTravels
  <2>3. CASE ~(b \in db["atlas_backups"] /\ files[b].state = "whole")
    <3>1. Ends(p)
      BY <2>3 DEF VerifyBackup, Ends
    <3> QED BY <3>1, <2>1, EndsTravels DEF Typed
  <2> QED BY <2>2, <2>3
<1>5. CASE VerifyCompatibility(p)
  <2>1. UNCHANGED <<db, keys, files>>
    BY <1>5 DEF VerifyCompatibility, disk
  <2>2. CASE proc[p].on \in db["atlas_backups"]
    <3> PICK r : r = [proc[p] EXCEPT !.at = "apply"]
      OBVIOUS
    <3>0. proc[p].on \in Backups
      BY <1>5 DEF VerifyCompatibility, At, Typed
    <3>1. r \in Process /\ r.rows = proc[p].rows /\ r.at = "apply" /\ r.on = proc[p].on
      BY <1>0 DEF Process, Places
    <3>2. proc' = [proc EXCEPT ![p] = r]
      BY <2>2, <1>5 DEF VerifyCompatibility, Typed
    <3>3. WorksOn(r)
      BY <3>0, <3>1 DEF WorksOn
    <3>4. db' \in Contents /\ keys' \in [Identities -> {"none", "short", "whole"}]
      BY <2>1 DEF Typed
    <3> QED BY <3>1, <3>2, <3>3, <3>4, <2>1, ProcTravels
  <2>3. CASE proc[p].on \notin db["atlas_backups"]
    <3>1. Ends(p)
      BY <2>3, <1>5 DEF VerifyCompatibility, Ends
    <3> QED BY <3>1, <2>1, EndsTravels DEF Typed
  <2> QED BY <2>2, <2>3
<1>6. CASE Restore(p)
  <2>1. db' \in Contents
    BY <1>6, RestoredTyped
  <2>2. Ends(p) /\ UNCHANGED <<keys, files>>
    BY <1>6 DEF Restore
  <2> QED BY <2>1, <2>2, EndsTravels DEF Typed
<1> QED BY <1>1, <1>2, <1>3, <1>4, <1>5, <1>6 DEF BackupStep

LEMMA PolicyTyped ==
  ASSUME Typed, NEW c \in Policies, CreatePolicy(c) \/ DeletePolicy(c)
  PROVE  /\ Typed' /\ Travels
         /\ \A t \in Tables : t \notin {"policies", "policy_rules"} => db'[t] = db[t]
<1>0. /\ db \in Contents /\ "policies" \in Tables /\ "policy_rules" \in Tables
      /\ Row("policies") = Policies /\ Row("policy_rules") = Policies
  BY NamesOfTables, RowsOfTables DEF Typed
<1>1. db["policies"] \subseteq Policies /\ db["policy_rules"] \subseteq Policies
  BY <1>0 DEF Contents
<1>2. \E S, T \in SUBSET Policies : db' = [db EXCEPT !["policies"] = S, !["policy_rules"] = T]
  <2>1. CASE CreatePolicy(c)
    <3>1. /\ db["policies"] \cup {c} \in SUBSET Policies
          /\ db["policy_rules"] \cup {c} \in SUBSET Policies
      BY <1>1
    <3> QED BY <2>1, <3>1, Zenon DEF CreatePolicy
  <2>2. CASE DeletePolicy(c)
    <3>1. /\ db["policies"] \ {c} \in SUBSET Policies
          /\ db["policy_rules"] \ {c} \in SUBSET Policies
      BY <1>1
    <3> QED BY <2>2, <3>1, Zenon DEF DeletePolicy
  <2> QED BY <2>1, <2>2
<1> PICK S \in SUBSET Policies, T \in SUBSET Policies :
      db' = [db EXCEPT !["policies"] = S, !["policy_rules"] = T]
  BY <1>2
<1>3. /\ DOMAIN db' = Tables /\ db' = [t \in Tables |-> db'[t]]
      /\ \A t \in Tables : t \notin {"policies", "policy_rules"} => db'[t] = db[t]
      /\ db'["policies"] = S /\ db'["policy_rules"] = T
  BY <1>0 DEF Contents
<1>4. \A t \in Tables : db'[t] \subseteq Row(t)
  <2> TAKE t \in Tables
  <2>1. db[t] \subseteq Row(t)
    BY <1>0 DEF Contents
  <2> QED BY <2>1, <1>0, <1>3
<1>5. db' \in Contents
  BY <1>3, <1>4, ContentsOf
<1>6. UNCHANGED <<keys, files, proc>>
  BY DEF CreatePolicy, DeletePolicy
<1>7. Typed'
  BY <1>5, <1>6 DEF Typed
<1>8. Travels
  BY <1>6 DEF Travels
<1> QED BY <1>3, <1>7, <1>8

LEMMA AtlasTyped ==
  ASSUME Typed, [AtlasNext]_atlasVars
  PROVE  Typed' /\ Travels
<1>1. CASE UNCHANGED atlasVars
  BY <1>1 DEF atlasVars, Typed, Travels
<1>2. ASSUME NEW p \in Processes, Exit(p) PROVE Typed' /\ Travels
  BY <1>2, EndsTravels DEF Exit, disk, Typed
<1> QED BY <1>1, <1>2, MigrationTyped, IdentityTyped, BackupTyped, PolicyTyped DEF AtlasNext

LEMMA AtlasTypedInit == AtlasInit => Typed
<1> SUFFICES ASSUME AtlasInit PROVE Typed
  OBVIOUS
<1>1. [state |-> "none", rows |-> NoRows] \in BackupFile
  BY NoRowsTyped DEF BackupFile
<1>2. files \in [Backups -> BackupFile]
  BY <1>1 DEF AtlasInit, NoFile
<1>3. proc \in [Processes -> Process] /\ \A p \in Processes : proc[p].at = "off"
  BY IdleTyped DEF AtlasInit
<1>4. db \in Contents
  BY NoRowsTyped DEF AtlasInit
<1>5. keys \in [Identities -> {"none", "short", "whole"}]
  BY DEF AtlasInit
<1> QED BY <1>2, <1>3, <1>4, <1>5 DEF Typed

\* A step of one process, and of no policy.
Moves(p) == MigrationStep(p) \/ IdentityStep(p) \/ BackupStep(p) \/ Exit(p)

LEMMA OneMoves ==
  ASSUME Typed, NEW p \in Processes, Moves(p)
  PROVE  \A q \in Processes : q # p => proc'[q] = proc[q]
<1> SUFFICES ASSUME NEW q \in Processes, q # p PROVE proc'[q] = proc[q]
  OBVIOUS
<1> USE DEF Typed, Ends, TurnsTo
<1> HIDE DEF Process
<1>1. CASE MigrationStep(p)
  BY <1>1 DEF MigrationStep, ReadApplied, CreateTable, RecordVersion, InitCommand,
              CreateCommand, BackupCommand, RestoreCommand, CheckCommand
<1>2. CASE IdentityStep(p)
  BY <1>2 DEF IdentityStep, DrawIdentity, FindIdentity, SaveKeypair, InsertIdentity,
              ActivateIdentity
<1>3. CASE BackupStep(p)
  BY <1>3 DEF BackupStep, ReadTable, InsertManifest, VerifyCompatibility, Restore,
              WriteBackup, VerifyBackup
<1>4. CASE Exit(p)
  BY <1>4 DEF Exit
<1> QED BY <1>1, <1>2, <1>3, <1>4 DEF Moves

\* How the rows of a table that is not one of the policies change.
LEMMA TablesMove ==
  ASSUME Typed, [AtlasNext]_atlasVars,
         NEW t \in {"atlas_backups", "identities", "schema_migrations"}
  PROVE  \/ db'[t] = db[t]
         \/ \E p \in Processes : /\ Restore(p) /\ proc[p].on \in Backups
                                 /\ files[proc[p].on].rows[t] # {}
                                 /\ db'[t] = files[proc[p].on].rows[t]
         \/ t = "identities" /\ \E p \in Processes : InsertIdentity(p) \/ ActivateIdentity(p)
         \/ t = "atlas_backups" /\ \E p \in Processes : InsertManifest(p)
         \/ t = "schema_migrations" /\ \E p \in Processes : RecordVersion(p)
<1>0. t \in Tables /\ t # "policies" /\ t # "policy_rules" /\ DOMAIN db = Tables
  BY NamesOfTables DEF Typed, Contents
<1>1. CASE db' = db
  BY <1>1
<1>2. ASSUME NEW p \in Processes, RecordVersion(p), t # "schema_migrations"
      PROVE  db'[t] = db[t]
  BY <1>0, <1>2 DEF RecordVersion
<1>3. ASSUME NEW p \in Processes, InsertIdentity(p) \/ ActivateIdentity(p), t # "identities"
      PROVE  db'[t] = db[t]
  BY <1>0, <1>3 DEF InsertIdentity, ActivateIdentity
<1>4. ASSUME NEW p \in Processes, InsertManifest(p), t # "atlas_backups"
      PROVE  db'[t] = db[t]
  BY <1>0, <1>4 DEF InsertManifest
<1>5. ASSUME NEW p \in Processes, Restore(p), db'[t] # db[t]
      PROVE  /\ proc[p].on \in Backups
             /\ files[proc[p].on].rows[t] # {}
             /\ db'[t] = files[proc[p].on].rows[t]
  BY <1>0, <1>5, RestoredTyped
<1>6. ASSUME NEW c \in Policies, CreatePolicy(c) \/ DeletePolicy(c)
      PROVE  db'[t] = db[t]
  BY <1>0, <1>6 DEF CreatePolicy, DeletePolicy
<1>7. ASSUME db' # db
      PROVE  \/ \E p \in Processes : \/ RecordVersion(p) \/ InsertIdentity(p)
                                     \/ ActivateIdentity(p) \/ InsertManifest(p)
                                     \/ Restore(p)
             \/ \E c \in Policies : CreatePolicy(c) \/ DeletePolicy(c)
  BY <1>7 DEF AtlasNext, atlasVars, disk, MigrationStep, ReadApplied, CreateTable,
              InitCommand, CreateCommand, BackupCommand, RestoreCommand, CheckCommand,
              TurnsTo, IdentityStep, DrawIdentity, FindIdentity, SaveKeypair, BackupStep,
              ReadTable, VerifyCompatibility, WriteBackup, VerifyBackup, Exit
<1> QED BY <1>1, <1>2, <1>3, <1>4, <1>5, <1>6, <1>7

-----------------------------------------------------------------------------
(* At most one identity is active, in the database and in whatever may be      *)
(* restored into it: the backups, and what a backup has read so far.            *)

AtMostOne(rows) == \A r, s \in rows : r.active /\ s.active => r = s

ActiveInv ==
  /\ Typed
  /\ AtMostOne(db["identities"])
  /\ \A b \in Backups : AtMostOne(files[b].rows["identities"])
  /\ \A p \in Processes : AtMostOne(proc[p].rows["identities"])

LEMMA ActiveInit == AtlasInit => ActiveInv
<1> SUFFICES ASSUME AtlasInit PROVE ActiveInv
  OBVIOUS
<1>1. NoRows["identities"] = {}
  BY NoRowsTyped, NamesOfTables
<1>2. \A p \in Processes : proc[p].rows = NoRows
  BY IdleTyped DEF AtlasInit
<1>3. \A b \in Backups : files[b].rows = NoRows
  BY DEF AtlasInit, NoFile
<1> QED BY <1>1, <1>2, <1>3, AtlasTypedInit DEF ActiveInv, AtMostOne, AtlasInit

LEMMA ActiveStep == ActiveInv /\ [AtlasNext]_atlasVars => ActiveInv'
<1> SUFFICES ASSUME ActiveInv, [AtlasNext]_atlasVars PROVE ActiveInv'
  OBVIOUS
<1>1. Typed /\ Typed' /\ Travels /\ "identities" \in Tables
  BY AtlasTyped, NamesOfTables DEF ActiveInv
<1>2. AtMostOne({})
  BY DEF AtMostOne
<1>3. \A p \in Processes : AtMostOne(proc'[p].rows["identities"])
  BY <1>1, <1>2 DEF ActiveInv, Travels
<1>4. \A b \in Backups : AtMostOne(files'[b].rows["identities"])
  BY <1>1 DEF ActiveInv, Travels
<1>d. DOMAIN db = Tables /\ db["identities"] \subseteq [id : Identities, active : BOOLEAN]
  BY <1>1, RowsOfTables DEF Typed, Contents
<1>5. AtMostOne(db'["identities"])
  <2>1. ASSUME NEW p \in Processes, InsertIdentity(p) PROVE AtMostOne(db'["identities"])
    <3>1. CASE UNCHANGED db
      BY <3>1 DEF ActiveInv
    <3>2. CASE \E active \in BOOLEAN :
                 db' = [db EXCEPT !["identities"] =
                          (IF active THEN Deactivated(@) ELSE @)
                            \cup {[id |-> proc[p].on, active |-> active]}]
      <4>1. PICK active \in BOOLEAN :
              db'["identities"] = (IF active THEN Deactivated(db["identities"])
                                             ELSE db["identities"])
                                    \cup {[id |-> proc[p].on, active |-> active]}
        BY <3>2, <1>1, <1>d
      <4>2. CASE active
        BY <4>1, <4>2, <1>d, DeactivatedTyped DEF AtMostOne
      <4>3. CASE ~active
        BY <4>1, <4>3 DEF AtMostOne, ActiveInv
      <4> QED BY <4>2, <4>3
    <3> QED BY <3>1, <3>2, <2>1 DEF InsertIdentity
  <2>2. ASSUME NEW p \in Processes, ActivateIdentity(p) PROVE AtMostOne(db'["identities"])
    <3> DEFINE S == {IF r.id = proc[p].on THEN [r EXCEPT !.active = TRUE] ELSE r :
                       r \in Deactivated(db["identities"])}
    <3>1. db'["identities"] = S
      BY <2>2, <1>1, <1>d DEF ActivateIdentity
    <3>2. /\ \A r \in Deactivated(db["identities"]) : ~r.active
          /\ Deactivated(db["identities"]) \subseteq [id : Identities, active : BOOLEAN]
      BY <1>d, DeactivatedTyped
    <3>3. \A r \in S : r.active => r = [id |-> proc[p].on, active |-> TRUE]
      <4> SUFFICES ASSUME NEW r \in Deactivated(db["identities"]),
                          NEW s, s = IF r.id = proc[p].on
                                       THEN [r EXCEPT !.active = TRUE] ELSE r,
                          s.active
                   PROVE  s = [id |-> proc[p].on, active |-> TRUE]
        OBVIOUS
      <4>1. r.id = proc[p].on /\ r \in [id : Identities, active : BOOLEAN]
        BY <3>2
      <4> QED BY <4>1
    <3> HIDE DEF S
    <3> QED BY <3>1, <3>3 DEF AtMostOne
  <2> QED BY <1>1, <2>1, <2>2, TablesMove DEF ActiveInv
<1> QED BY <1>1, <1>3, <1>4, <1>5 DEF ActiveInv

\* For any number of processes, identities and backups: whatever is created, activated
\* and restored at once, at most one identity is active (manager.py 100-123, 174-182,
\* restore.py 97-115).
THEOREM ActiveTheorem == AtlasSpec => []OneActiveIdentity
<1>1. ActiveInv => OneActiveIdentity
  <2> SUFFICES ASSUME AtMostOne(db["identities"])
               PROVE  Cardinality({r \in db["identities"] : r.active}) <= 1
    BY DEF ActiveInv, OneActiveIdentity
  <2> DEFINE S == {r \in db["identities"] : r.active}
  <2>1. CASE S = {}
    BY <2>1, FS_EmptySet
  <2>2. CASE S # {}
    <3>1. PICK r \in S : S = {r}
      BY <2>2 DEF AtMostOne
    <3>2. Cardinality({r}) = 1
      BY FS_Singleton
    <3> HIDE DEF S
    <3>3. Cardinality(S) = 1
      BY <3>1, <3>2
    <3> QED BY <3>3 DEF S
  <2> QED BY <2>1, <2>2
<1> QED BY <1>1, ActiveInit, ActiveStep, PTL DEF AtlasSpec

-----------------------------------------------------------------------------
(* A row that is listed anywhere, in the database, in a backup or in what a      *)
(* process has read, has its file, because a restore may bring it back.  The     *)
(* identity that a process is creating is listed nowhere, so that removing its   *)
(* key files after a failure takes them from no row.                              *)

Stored(rows) ==
  /\ \A b \in rows["atlas_backups"] : files[b].state = "whole"
  /\ \A r \in rows["identities"] : keys[r.id] # "none"

Lists(rows, i) == \E r \in rows["identities"] : r.id = i

Unlisted(i) ==
  /\ ~Lists(db, i)
  /\ \A b \in Backups : ~Lists(files[b].rows, i)
  /\ \A p \in Processes : ~Lists(proc[p].rows, i)

Creating(p) == proc[p].at \in {"save", "insert"}

CreationInv ==
  /\ \A p \in Processes : Creating(p) => Unlisted(proc[p].on)
  /\ \A p, q \in Processes : Creating(p) /\ Creating(q) /\ proc[p].on = proc[q].on => p = q
  /\ \A p \in Processes : proc[p].at = "insert" => keys[proc[p].on] # "none"
  /\ \A p \in Processes : proc[p].at = "manifest" => files[proc[p].on].state = "whole"

StoredInv ==
  /\ Stored(db)
  /\ \A b \in Backups : Stored(files[b].rows)
  /\ \A p \in Processes : Stored(proc[p].rows)

RowsInv == Typed /\ CreationInv /\ StoredInv

LEMMA RowsInit == AtlasInit => RowsInv
<1> SUFFICES ASSUME AtlasInit PROVE RowsInv
  OBVIOUS
<1>1. NoRows["identities"] = {} /\ NoRows["atlas_backups"] = {}
  BY NoRowsTyped, NamesOfTables
<1>2. \A p \in Processes : proc[p].rows = NoRows /\ proc[p].at = "off"
  BY IdleTyped DEF AtlasInit
<1>3. \A b \in Backups : files[b].rows = NoRows
  BY DEF AtlasInit, NoFile
<1>4. db = NoRows
  BY DEF AtlasInit
<1>5. StoredInv
  BY <1>1, <1>2, <1>3, <1>4 DEF StoredInv, Stored
<1>6. CreationInv
  BY <1>2 DEF CreationInv, Creating
<1> QED BY <1>5, <1>6, AtlasTypedInit DEF RowsInv

\* Which steps touch the schema, the keys and the files of backups.
LEMMA DiskMoves ==
  ASSUME [AtlasNext]_atlasVars
  PROVE  /\ schema \subseteq schema'
         /\ files' # files => \E p \in Processes, b \in Backups : WriteBackup(p, b)
         /\ keys' # keys => \E p \in Processes : SaveKeypair(p) \/ InsertIdentity(p)
<1>1. ASSUME NEW p \in Processes, MigrationStep(p)
      PROVE  schema \subseteq schema' /\ UNCHANGED <<keys, files>>
  <2>1. CASE ReadApplied(p) \/ CreateTable(p) \/ RecordVersion(p)
    BY <2>1 DEF ReadApplied, CreateTable, RecordVersion
  <2>2. CASE \/ InitCommand(p) \/ CreateCommand(p) \/ BackupCommand(p)
             \/ RestoreCommand(p) \/ CheckCommand(p)
    BY <2>2 DEF InitCommand, CreateCommand, BackupCommand, RestoreCommand, CheckCommand,
                TurnsTo, disk
  <2> QED BY <1>1, <2>1, <2>2 DEF MigrationStep
<1>2. ASSUME NEW p \in Processes, IdentityStep(p)
      PROVE  /\ UNCHANGED <<schema, files>>
             /\ UNCHANGED keys \/ SaveKeypair(p) \/ InsertIdentity(p)
  <2>1. CASE \E i \in Identities : DrawIdentity(p, i) \/ FindIdentity(p, i)
    BY <2>1 DEF DrawIdentity, FindIdentity, disk
  <2>2. CASE SaveKeypair(p) \/ InsertIdentity(p)
    BY <2>2 DEF SaveKeypair, InsertIdentity
  <2>3. CASE ActivateIdentity(p)
    BY <2>3 DEF ActivateIdentity
  <2> QED BY <1>2, <2>1, <2>2, <2>3 DEF IdentityStep
<1>3. ASSUME NEW p \in Processes, BackupStep(p)
      PROVE  /\ UNCHANGED <<schema, keys>>
             /\ UNCHANGED files \/ \E b \in Backups : WriteBackup(p, b)
  <2>1. CASE ReadTable(p) \/ InsertManifest(p) \/ VerifyCompatibility(p)
    BY <2>1 DEF ReadTable, InsertManifest, VerifyCompatibility, disk
  <2>2. CASE Restore(p)
    BY <2>2 DEF Restore
  <2>3. ASSUME NEW b \in Backups, WriteBackup(p, b) PROVE UNCHANGED <<schema, keys>>
    BY <2>3 DEF WriteBackup
  <2>4. ASSUME NEW b \in Backups, VerifyBackup(p, b) PROVE UNCHANGED <<schema, keys, files>>
    BY <2>4 DEF VerifyBackup, disk
  <2> QED BY <1>3, <2>1, <2>2, <2>3, <2>4 DEF BackupStep
<1>4. ASSUME NEW p \in Processes, Exit(p) PROVE UNCHANGED <<schema, keys, files>>
  BY <1>4 DEF Exit, disk
<1>5. ASSUME NEW c \in Policies, CreatePolicy(c) \/ DeletePolicy(c)
      PROVE  UNCHANGED <<schema, keys, files>>
  BY <1>5 DEF CreatePolicy, DeletePolicy
<1>6. CASE UNCHANGED atlasVars
  BY <1>6 DEF atlasVars
<1>7. CASE \E p \in Processes : MigrationStep(p) \/ IdentityStep(p) \/ BackupStep(p) \/ Exit(p)
  BY <1>1, <1>2, <1>3, <1>4, <1>7
<1>8. CASE \E c \in Policies : CreatePolicy(c) \/ DeletePolicy(c)
  BY <1>5, <1>8
<1> QED BY <1>6, <1>7, <1>8 DEF AtlasNext

\* A file of a backup that is whole stays so, and keys go only where a creation fails.
LEMMA FilesStay ==
  ASSUME Typed, [AtlasNext]_atlasVars
  PROVE  /\ \A b \in Backups : files[b].state = "whole" => files'[b].state = "whole"
         /\ \A i \in Identities : keys[i] # "none" =>
              \/ keys'[i] # "none"
              \/ \E p \in Processes : /\ InsertIdentity(p) /\ proc[p].on = i
                                      /\ UNCHANGED db
<1>1. ASSUME files' # files
      PROVE  \E p \in Processes, b \in Backups : WriteBackup(p, b)
  BY <1>1, DiskMoves
<1>2. ASSUME keys' # keys
      PROVE  \E p \in Processes : SaveKeypair(p) \/ InsertIdentity(p)
  BY <1>2, DiskMoves
<1>3. \A b \in Backups : files[b].state = "whole" => files'[b].state = "whole"
  BY <1>1, WriteTyped
<1>4. ASSUME NEW i \in Identities, keys[i] # "none", keys'[i] = "none"
      PROVE  \E p \in Processes : InsertIdentity(p) /\ proc[p].on = i /\ UNCHANGED db
  <2>1. PICK p \in Processes : SaveKeypair(p) \/ InsertIdentity(p)
    BY <1>2, <1>4
  <2>2. keys \in [Identities -> {"none", "short", "whole"}]
    BY DEF Typed
  <2>3. ~SaveKeypair(p)
    BY <1>4, <2>2 DEF SaveKeypair
  <2>4. proc[p].on = i /\ UNCHANGED db
    BY <1>4, <2>1, <2>2, <2>3 DEF InsertIdentity
  <2> QED BY <2>1, <2>3, <2>4
<1> QED BY <1>3, <1>4

\* The identifiers of the rows after a step: those before, those of a backup, and the
\* one that is being created.
LEMMA IdentitiesMove ==
  ASSUME Typed, [AtlasNext]_atlasVars, NEW i, Lists(db', i), ~Lists(db, i)
  PROVE  \/ \E b \in Backups : Lists(files[b].rows, i)
         \/ \E p \in Processes : InsertIdentity(p) /\ proc[p].on = i /\ UNCHANGED keys
<1>0. "identities" \in Tables /\ DOMAIN db = Tables
      /\ db["identities"] \subseteq [id : Identities, active : BOOLEAN]
  BY NamesOfTables, RowsOfTables DEF Typed, Contents
<1>1. ASSUME NEW rows, rows \subseteq [id : Identities, active : BOOLEAN],
             NEW r \in Deactivated(rows)
      PROVE  \E s \in rows : s.id = r.id
  BY <1>1 DEF Deactivated
<1>2. ASSUME NEW p \in Processes, InsertIdentity(p)
      PROVE  proc[p].on = i /\ UNCHANGED keys
  <2>1. db' # db
    BY DEF Lists
  <2>2. UNCHANGED keys
    BY <1>2, <2>1 DEF InsertIdentity
  <2>3. PICK active \in BOOLEAN :
          db'["identities"] = (IF active THEN Deactivated(db["identities"])
                                         ELSE db["identities"])
                                \cup {[id |-> proc[p].on, active |-> active]}
    BY <1>0, <1>2, <2>1 DEF InsertIdentity
  <2>4. PICK r \in db'["identities"] : r.id = i
    BY DEF Lists
  <2>5. r = [id |-> proc[p].on, active |-> active]
    BY <1>0, <1>1, <2>3, <2>4 DEF Lists
  <2> QED BY <2>2, <2>4, <2>5
<1>3. ASSUME NEW p \in Processes, ActivateIdentity(p) PROVE FALSE
  <2> DEFINE S == {IF r.id = proc[p].on THEN [r EXCEPT !.active = TRUE] ELSE r :
                     r \in Deactivated(db["identities"])}
  <2>1. db'["identities"] = S
    BY <1>0, <1>3 DEF ActivateIdentity
  <2>2. PICK r \in S : r.id = i
    BY <2>1 DEF Lists
  <2>3. PICK s \in Deactivated(db["identities"]) :
          r = IF s.id = proc[p].on THEN [s EXCEPT !.active = TRUE] ELSE s
    BY <2>2
  <2>4. s \in [id : Identities, active : BOOLEAN]
    BY <1>0, DeactivatedTyped
  <2>5. r.id = s.id
    BY <2>3, <2>4
  <2> QED BY <2>2, <2>5, <1>0, <1>1 DEF Lists
<1> QED BY <1>2, <1>3, TablesMove DEF Lists

\* Rows that a process or a backup has after a step, or that the database gets from a
\* backup, list nothing that nobody listed.
LEMMA ListedBefore ==
  ASSUME Typed, [AtlasNext]_atlasVars, NEW i, Unlisted(i),
         ~\E p \in Processes : InsertIdentity(p) /\ proc[p].on = i
  PROVE  Unlisted(i)'
<1>1. Travels /\ "identities" \in Tables
  BY AtlasTyped, NamesOfTables
<1>2. ~Lists(db', i)
  BY IdentitiesMove DEF Unlisted
<1>3. \A b \in Backups : ~Lists(files'[b].rows, i)
  BY <1>1 DEF Unlisted, Travels, Lists
<1>4. \A p \in Processes : ~Lists(proc'[p].rows, i)
  BY <1>1 DEF Unlisted, Travels, Lists
<1> QED BY <1>2, <1>3, <1>4 DEF Unlisted, Lists

LEMMA StoredStep ==
  ASSUME RowsInv, [AtlasNext]_atlasVars
  PROVE  StoredInv'
<1>1. Typed /\ Travels /\ "identities" \in Tables /\ "atlas_backups" \in Tables
  BY AtlasTyped, NamesOfTables DEF RowsInv
<1>3. ASSUME NEW i \in Identities, ~Unlisted(i) PROVE keys'[i] # "none"
  <2>1. keys[i] # "none"
    BY <1>3 DEF RowsInv, StoredInv, Stored, Unlisted, Lists
  <2>2. ~\E p \in Processes : InsertIdentity(p) /\ proc[p].on = i
    BY <1>3 DEF RowsInv, CreationInv, Creating, InsertIdentity, At
  <2> QED BY <1>1, <2>1, <2>2, FilesStay
<1>4. \A b \in Backups : files[b].state = "whole" => files'[b].state = "whole"
  BY <1>1, FilesStay
<1>t. /\ \A q \in Processes : proc[q].rows \in Contents
      /\ \A b \in Backups : files[b].rows \in Contents
      /\ db \in Contents
  BY <1>1 DEF Typed, Process, BackupFile
<1>u. \A rows \in Contents : /\ rows["identities"] \subseteq [id : Identities, active : BOOLEAN]
                             /\ rows["atlas_backups"] \subseteq Backups
  BY <1>1, RowsOfTables DEF Contents
\* Rows that somebody listed before the step are stored after it.
<1>5. ASSUME NEW rows \in Contents,
             \/ rows = db
             \/ \E b \in Backups : rows = files[b].rows
             \/ \E q \in Processes : rows = proc[q].rows
      PROVE  /\ \A c \in rows["atlas_backups"] : files'[c].state = "whole"
             /\ \A r \in rows["identities"] : keys'[r.id] # "none"
  <2>1. Stored(rows)
    BY <1>5 DEF RowsInv, StoredInv
  <2>2. \A c \in rows["atlas_backups"] : files'[c].state = "whole"
    BY <2>1, <1>4, <1>u DEF Stored
  <2>3. ASSUME NEW r \in rows["identities"] PROVE keys'[r.id] # "none"
    <3>1. ~Unlisted(r.id) /\ r.id \in Identities
      BY <1>5, <1>u DEF Unlisted, Lists
    <3> QED BY <3>1, <1>3
  <2> QED BY <2>2, <2>3
<1>6. ASSUME NEW q \in Processes PROVE Stored(proc[q].rows)'
  <2>1. \/ proc'[q].rows["identities"] = proc[q].rows["identities"]
        \/ proc'[q].rows["identities"] = {}
        \/ proc'[q].rows["identities"] = db["identities"]
    BY <1>1 DEF Travels
  <2>2. \/ proc'[q].rows["atlas_backups"] = proc[q].rows["atlas_backups"]
        \/ proc'[q].rows["atlas_backups"] = {}
        \/ proc'[q].rows["atlas_backups"] = db["atlas_backups"]
    BY <1>1 DEF Travels
  <2>3. /\ \A c \in proc[q].rows["atlas_backups"] : files'[c].state = "whole"
        /\ \A r \in proc[q].rows["identities"] : keys'[r.id] # "none"
    BY <1>5, <1>t
  <2>4. /\ \A c \in db["atlas_backups"] : files'[c].state = "whole"
        /\ \A r \in db["identities"] : keys'[r.id] # "none"
    BY <1>5, <1>t
  <2> QED BY <2>1, <2>2, <2>3, <2>4 DEF Stored
<1>7. ASSUME NEW b \in Backups PROVE Stored(files[b].rows)'
  <2>1. \/ files'[b].rows["identities"] = files[b].rows["identities"]
        \/ \E q \in Processes : files'[b].rows["identities"] = proc[q].rows["identities"]
    BY <1>1 DEF Travels
  <2>2. \/ files'[b].rows["atlas_backups"] = files[b].rows["atlas_backups"]
        \/ \E q \in Processes :
             files'[b].rows["atlas_backups"] = proc[q].rows["atlas_backups"]
    BY <1>1 DEF Travels
  <2>3. ASSUME NEW q \in Processes
        PROVE  /\ \A c \in proc[q].rows["atlas_backups"] : files'[c].state = "whole"
               /\ \A r \in proc[q].rows["identities"] : keys'[r.id] # "none"
    BY <1>5, <1>t
  <2>4. /\ \A c \in files[b].rows["atlas_backups"] : files'[c].state = "whole"
        /\ \A r \in files[b].rows["identities"] : keys'[r.id] # "none"
    BY <1>5, <1>t
  <2> QED BY <2>1, <2>2, <2>3, <2>4 DEF Stored
<1>8. \A c \in db'["atlas_backups"] : files'[c].state = "whole"
  <2>1. ASSUME NEW p \in Processes, InsertManifest(p)
        PROVE  \A c \in db'["atlas_backups"] : files'[c].state = "whole"
    <3>1. /\ proc[p].at = "manifest" /\ proc[p].on \in Backups
          /\ db'["atlas_backups"] = db["atlas_backups"] \cup {proc[p].on}
      BY <2>1, <1>1, <1>t DEF InsertManifest, At, Typed, Contents
    <3>2. files'[proc[p].on].state = "whole"
      BY <3>1, <1>4 DEF RowsInv, CreationInv
    <3>3. \A c \in db["atlas_backups"] : files'[c].state = "whole"
      BY <1>5, <1>t
    <3> QED BY <3>1, <3>2, <3>3
  <2>2. \A c \in db["atlas_backups"] : files'[c].state = "whole"
    BY <1>5, <1>t
  <2>3. ASSUME NEW b \in Backups
        PROVE  \A c \in files[b].rows["atlas_backups"] : files'[c].state = "whole"
    BY <1>5, <1>t
  <2> QED BY <2>1, <2>2, <2>3, <1>1, TablesMove
<1>9. \A r \in db'["identities"] : keys'[r.id] # "none"
  <2> SUFFICES ASSUME NEW r \in db'["identities"] PROVE keys'[r.id] # "none"
    OBVIOUS
  <2>0. r.id \in Identities
    <3>1. db' \in Contents
      BY <1>1, AtlasTyped DEF Typed
    <3> QED BY <3>1, <1>u
  <2>1. CASE ~Unlisted(r.id)
    BY <2>0, <2>1, <1>3
  <2>2. CASE Unlisted(r.id)
    <3>1. Lists(db', r.id)
      BY DEF Lists
    <3>2. PICK p \in Processes : InsertIdentity(p) /\ proc[p].on = r.id /\ UNCHANGED keys
      BY <1>1, <2>2, <3>1, IdentitiesMove DEF Unlisted
    <3>3. keys[r.id] # "none"
      BY <3>2 DEF RowsInv, CreationInv, InsertIdentity, At
    <3> QED BY <3>2, <3>3
  <2> QED BY <2>1, <2>2
<1>10. Stored(db)'
  BY <1>8, <1>9 DEF Stored
<1> QED BY <1>6, <1>7, <1>10 DEF StoredInv

\* What the checks of a backup make of the process: it goes on to the next, or ends.
LEMMA ChecksMove ==
  ASSUME Typed, NEW q \in Processes,
         VerifyCompatibility(q) \/ \E b \in Backups : VerifyBackup(q, b)
  PROVE  \/ /\ proc[q].at \in {"verify", "recheck"}
            /\ proc'[q].at \in {"recheck", "apply"}
         \/ Ends(q)
<1>0. proc[q] \in Process /\ DOMAIN proc = Processes
  BY DEF Typed
<1>1. CASE VerifyCompatibility(q)
  <2>1. PICK r : r.at = "apply" /\ r = [proc[q] EXCEPT !.at = "apply"]
    BY <1>0 DEF Process
  <2>2. proc' = [proc EXCEPT ![q] = r] \/ Ends(q)
    <3>1. CASE proc[q].on \in db["atlas_backups"]
      BY <1>1, <2>1, <3>1 DEF VerifyCompatibility
    <3>2. CASE proc[q].on \notin db["atlas_backups"]
      BY <1>1, <3>2 DEF VerifyCompatibility, Ends
    <3> QED BY <3>1, <3>2
  <2>3. proc[q].at = "recheck"
    BY <1>1 DEF VerifyCompatibility, At
  <2> QED BY <1>0, <2>1, <2>2, <2>3
<1>2. ASSUME NEW b \in Backups, VerifyBackup(q, b)
      PROVE  \/ /\ proc[q].at \in {"verify", "recheck"}
                /\ proc'[q].at \in {"recheck", "apply"}
             \/ Ends(q)
  <2>1. PICK r : r.at = "recheck" /\ r = [proc[q] EXCEPT !.at = "recheck", !.on = b]
    BY <1>0 DEF Process
  <2>2. proc' = [proc EXCEPT ![q] = r] \/ Ends(q)
    <3>1. CASE b \in db["atlas_backups"] /\ files[b].state = "whole"
      BY <1>2, <2>1, <3>1 DEF VerifyBackup
    <3>2. CASE ~(b \in db["atlas_backups"] /\ files[b].state = "whole")
      BY <1>2, <3>2 DEF VerifyBackup, Ends
    <3> QED BY <3>1, <3>2
  <2>3. proc[q].at = "verify"
    BY <1>2 DEF VerifyBackup, At
  <2> QED BY <1>0, <2>1, <2>2, <2>3
<1> QED BY <1>1, <1>2

\* What a step of q makes it create or write.
LEMMA CreationMoves ==
  ASSUME Typed, [AtlasNext]_atlasVars, NEW q \in Processes
  PROVE  \/ proc'[q] = proc[q]
         \/ ~Creating(q)' /\ proc'[q].at # "manifest"
         \/ \E i \in Identities : DrawIdentity(q, i) /\ proc'[q].on = i /\ proc'[q].at = "save"
         \/ SaveKeypair(q) /\ proc'[q].on = proc[q].on /\ proc'[q].at = "insert"
         \/ ~Creating(q)' /\ \E b \in Backups : /\ proc'[q].on = b
                                                /\ files'[b].state = "whole"
<1>0. proc[q] \in Process /\ DOMAIN proc = Processes
  BY DEF Typed
<1> USE DEF Creating
<1>1. ASSUME NEW p \in Processes, Moves(p), p # q PROVE proc'[q] = proc[q]
  BY <1>1, OneMoves
<1>2. ASSUME Ends(q) PROVE ~Creating(q)' /\ proc'[q].at # "manifest"
  BY <1>0, <1>2, IdleTyped DEF Ends
<1>3. ASSUME NEW a \in {"off", "migrate", "draw", "read", "verify", "diagnose"},
             TurnsTo(q, a)
      PROVE  ~Creating(q)' /\ proc'[q].at # "manifest"
  <2>1. proc'[q].at = a
    BY <1>0, <1>3, IdleTyped DEF TurnsTo, Places
  <2> QED BY <2>1
<1>4. CASE MigrationStep(q)
  <2>1. CASE ReadApplied(q)
    <3>1. proc'[q].at = "migrate"
      BY <1>0, <2>1 DEF ReadApplied, Process
    <3> QED BY <3>1
  <2>2. CASE CreateTable(q) \/ RecordVersion(q)
    <3>1. proc'[q].at = "migrate" \/ Ends(q)
      BY <1>0, <2>2 DEF CreateTable, RecordVersion, At, Process
    <3> QED BY <3>1, <1>2
  <2>3. CASE \/ InitCommand(q) \/ CreateCommand(q) \/ BackupCommand(q)
             \/ RestoreCommand(q) \/ CheckCommand(q)
    <3>1. \E a \in {"off", "migrate", "draw", "read", "verify", "diagnose"} : TurnsTo(q, a)
      BY <2>3 DEF InitCommand, CreateCommand, BackupCommand, RestoreCommand, CheckCommand
    <3> QED BY <3>1, <1>3
  <2> QED BY <1>4, <2>1, <2>2, <2>3 DEF MigrationStep
<1>5. CASE IdentityStep(q)
  <2>1. ASSUME NEW i \in Identities, DrawIdentity(q, i)
        PROVE  proc'[q].on = i /\ proc'[q].at = "save"
    BY <1>0, <2>1 DEF DrawIdentity, Process
  <2>2. ASSUME NEW i \in Identities, FindIdentity(q, i)
        PROVE  proc'[q].at = "activate"
    BY <1>0, <2>2 DEF FindIdentity, Process
  <2>3. ASSUME SaveKeypair(q)
        PROVE  proc'[q].on = proc[q].on /\ proc'[q].at = "insert"
    BY <1>0, <2>3 DEF SaveKeypair, Process
  <2>4. ASSUME InsertIdentity(q) \/ ActivateIdentity(q) PROVE Ends(q)
    BY <2>4 DEF InsertIdentity, ActivateIdentity
  <2> QED BY <1>5, <1>2, <2>1, <2>2, <2>3, <2>4 DEF IdentityStep
<1>6. CASE BackupStep(q)
  <2>1. CASE ReadTable(q)
    <3>1. proc'[q].at = "read"
      BY <1>0, <2>1 DEF ReadTable, At, Process
    <3> QED BY <3>1
  <2>2. CASE \E b \in Backups : WriteBackup(q, b)
    BY <2>2, WriteTyped
  <2>3. CASE InsertManifest(q) \/ Restore(q)
    BY <2>3, <1>2 DEF InsertManifest, Restore
  <2>4. CASE VerifyCompatibility(q) \/ \E b \in Backups : VerifyBackup(q, b)
    <3>1. proc'[q].at \in {"recheck", "apply"} \/ Ends(q)
      BY <2>4, ChecksMove
    <3> QED BY <3>1, <1>2
  <2> QED BY <1>6, <2>1, <2>2, <2>3, <2>4 DEF BackupStep
<1>7. CASE Exit(q)
  BY <1>7, <1>2 DEF Exit
<1>8. CASE UNCHANGED atlasVars
  BY <1>8 DEF atlasVars
<1>9. CASE \E c \in Policies : CreatePolicy(c) \/ DeletePolicy(c)
  BY <1>9 DEF CreatePolicy, DeletePolicy
<1> QED BY <1>1, <1>4, <1>5, <1>6, <1>7, <1>8, <1>9 DEF AtlasNext, Moves

LEMMA CreationStep ==
  ASSUME RowsInv, [AtlasNext]_atlasVars
  PROVE  CreationInv'
<1>1. Typed /\ CreationInv /\ StoredInv
  BY DEF RowsInv
\* An identifier that is drawn is listed nowhere.
<1>2. ASSUME NEW q \in Processes, NEW i \in Identities, DrawIdentity(q, i)
      PROVE  /\ Unlisted(i) /\ ~Creating(q)
             /\ \A p \in Processes : Creating(p) => proc[p].on # i
             /\ ~\E p \in Processes : InsertIdentity(p) /\ proc[p].on = i
  <2>1. keys[i] = "none" /\ \A p \in Processes : proc[p].on # i
    BY <1>2 DEF DrawIdentity
  <2>2. Unlisted(i)
    BY <1>1, <2>1 DEF StoredInv, Stored, Unlisted, Lists
  <2>3. ~Creating(q)
    BY <1>2 DEF DrawIdentity, At, Creating
  <2> QED BY <2>1, <2>2, <2>3
\* A process that creates after a step drew the identifier, or created it before and
\* does not insert it.
<1>3. ASSUME NEW q \in Processes, Creating(q)'
      PROVE  \/ \E i \in Identities : DrawIdentity(q, i) /\ proc'[q].on = i
                                        /\ proc'[q].at = "save"
             \/ /\ Creating(q) /\ proc'[q].on = proc[q].on
                /\ ~\E p \in Processes : InsertIdentity(p) /\ proc[p].on = proc[q].on
  <2>1. CASE \E i \in Identities : DrawIdentity(q, i) /\ proc'[q].on = i /\ proc'[q].at = "save"
    BY <2>1
  <2>2. CASE (SaveKeypair(q) /\ proc'[q].on = proc[q].on) \/ proc'[q] = proc[q]
    <3>1. Creating(q) /\ proc'[q].on = proc[q].on
      BY <1>3, <2>2 DEF SaveKeypair, At, Creating
    <3>2. ASSUME NEW p \in Processes, InsertIdentity(p), proc[p].on = proc[q].on PROVE FALSE
      <4>1. p = q
        BY <1>1, <3>1, <3>2 DEF CreationInv, InsertIdentity, At, Creating
      <4>2. proc'[q] = Idle
        BY <1>1, <3>2, <4>1 DEF InsertIdentity, Ends, Typed
      <4> QED BY <4>2, <1>3, IdleTyped DEF Creating
    <3> QED BY <3>1, <3>2
  <2> QED BY <1>1, <1>3, <2>1, <2>2, CreationMoves
<1>4. ASSUME NEW q \in Processes, Creating(q)' PROVE Unlisted(proc[q].on)'
  <2>1. PICK i : /\ i = proc'[q].on /\ Unlisted(i)
                 /\ ~\E p \in Processes : InsertIdentity(p) /\ proc[p].on = i
    <3>1. CASE \E i \in Identities : DrawIdentity(q, i) /\ proc'[q].on = i
      BY <3>1, <1>2
    <3>2. CASE /\ Creating(q) /\ proc'[q].on = proc[q].on
               /\ ~\E p \in Processes : InsertIdentity(p) /\ proc[p].on = proc[q].on
      BY <3>2, <1>1 DEF CreationInv
    <3> QED BY <3>1, <3>2, <1>3, <1>4
  <2>2. Unlisted(i)'
    BY <1>1, <2>1, ListedBefore
  <2> QED BY <2>1, <2>2 DEF Unlisted, Lists
<1>5. ASSUME NEW p \in Processes, NEW q \in Processes, Creating(p)', Creating(q)',
             proc'[p].on = proc'[q].on, p # q
      PROVE  FALSE
  <2>1. ASSUME NEW i \in Identities, DrawIdentity(p, i), NEW j \in Identities,
               DrawIdentity(q, j)
        PROVE  FALSE
    <3>1. proc'[q] = proc[q]
      <4>1. Moves(p)
        BY <2>1 DEF Moves, IdentityStep
      <4> QED BY <1>1, <1>5, <4>1, OneMoves
    <3>2. proc[q].at = "draw"
      BY <2>1 DEF DrawIdentity, At
    <3> QED BY <1>5, <3>1, <3>2 DEF Creating
  <2>2. ASSUME NEW i \in Identities, DrawIdentity(p, i), proc'[p].on = i,
               Creating(q), proc'[q].on = proc[q].on
        PROVE  FALSE
    BY <1>2, <1>5, <2>2
  <2>3. ASSUME NEW i \in Identities, DrawIdentity(q, i), proc'[q].on = i,
               Creating(p), proc'[p].on = proc[p].on
        PROVE  FALSE
    BY <1>2, <1>5, <2>3
  <2>4. ASSUME Creating(p), proc'[p].on = proc[p].on,
               Creating(q), proc'[q].on = proc[q].on
        PROVE  FALSE
    BY <1>1, <1>5, <2>4 DEF CreationInv
  <2> QED BY <1>3, <1>5, <2>1, <2>2, <2>3, <2>4
<1>6. ASSUME NEW q \in Processes, proc'[q].at = "insert"
      PROVE  keys'[proc'[q].on] # "none"
  <2>1. /\ Creating(q) /\ proc'[q].on = proc[q].on /\ proc[q].on \in Identities
        /\ ~\E p \in Processes : InsertIdentity(p) /\ proc[p].on = proc[q].on
    <3>1. Creating(q)'
      BY <1>6 DEF Creating
    <3>2. ~\E i \in Identities : DrawIdentity(q, i) /\ proc'[q].on = i /\ proc'[q].at = "save"
      BY <1>6
    <3> QED BY <1>1, <1>3, <3>1, <3>2 DEF Typed, Creating
  <2>2. CASE SaveKeypair(q)
    <3>1. keys'[proc[q].on] \in {"short", "whole"}
      BY <1>1, <2>1, <2>2 DEF SaveKeypair, Typed
    <3> QED BY <2>1, <3>1
  <2>3. CASE proc'[q] = proc[q]
    <3>1. keys[proc[q].on] # "none"
      BY <1>1, <1>6, <2>3 DEF CreationInv
    <3> QED BY <1>1, <2>1, <3>1, FilesStay
  <2> QED BY <1>1, <1>6, <2>2, <2>3, CreationMoves DEF Creating
<1>7. ASSUME NEW q \in Processes, proc'[q].at = "manifest"
      PROVE  files'[proc'[q].on].state = "whole"
  <2>1. CASE proc'[q] = proc[q]
    <3>1. files[proc[q].on].state = "whole" /\ proc[q].on \in Backups
      BY <1>1, <1>7, <2>1 DEF CreationInv, Typed
    <3> QED BY <1>1, <2>1, <3>1, FilesStay
  <2>2. CASE \E b \in Backups : proc'[q].on = b /\ files'[b].state = "whole"
    BY <2>2
  <2> QED BY <1>1, <1>7, <2>1, <2>2, CreationMoves
<1> QED BY <1>4, <1>5, <1>6, <1>7 DEF CreationInv

\* For any number of processes, identities and backups: a listed backup can be verified
\* and a listed identity has its key files, whichever command died, failed or was
\* restored over (backup.py 117-165, manager.py 93-127, restore.py 97-115).
THEOREM RowsTheorem == AtlasSpec => []RowsHaveTheirFiles
<1>1. RowsInv /\ [AtlasNext]_atlasVars => RowsInv'
  BY StoredStep, CreationStep, AtlasTyped DEF RowsInv
<1>2. RowsInv => RowsHaveTheirFiles
  BY DEF RowsInv, StoredInv, Stored, RowsHaveTheirFiles
<1> QED BY <1>1, <1>2, RowsInit, PTL DEF AtlasSpec

-----------------------------------------------------------------------------
(* A version that is recorded has all its tables, however far the others are    *)
(* that apply it; a backup has the versions of a whole chain or none, because    *)
(* only a process past its migrations takes one.                                 *)

\* A process that is past its migrations.
Past(p) == proc[p].at \notin {"off", "migrate", "activate"}

InSchema(v) == \A k \in DOMAIN Script(v) : Script(v)[k] \in schema

MigratesInOrder(p) ==
  proc[p].at = "migrate" =>
    /\ proc[p].applied \subseteq db["schema_migrations"]
    /\ proc[p].applied # Versions =>
         \A k \in DOMAIN Script(Version(p)) :
           k < proc[p].step => Script(Version(p))[k] \in schema

ChainInv ==
  /\ \A v \in db["schema_migrations"] : InSchema(v)
  /\ \A p \in Processes : Past(p) => db["schema_migrations"] = Versions
  /\ \A p \in Processes : proc[p].rows["schema_migrations"] \in {{}, Versions}
  /\ \A b \in Backups : files[b].rows["schema_migrations"] \in {{}, Versions}
  /\ \A p \in Processes : proc[p].at = "off" => proc[p].step = 1
  /\ \A p \in Processes : MigratesInOrder(p)

MigrationInv == Typed /\ ChainInv

\* Every script has at least one statement, and the k-th of them is a table.
LEMMA ScriptsOfVersions ==
  ASSUME NEW v \in Versions
  PROVE  Len(Script(v)) \in Nat \ {0} /\ DOMAIN Script(v) = 1 .. Len(Script(v))
<1>1. v \in {1, 2, 3, 4, 6, 7, 8, 9, 10}
  BY DEF Versions
<1>2. CASE v \in {1, 2, 3}
  BY <1>2 DEF Script, FirstScripts
<1>3. CASE v = 4
  BY <1>3 DEF Script, PolicyScript
<1>4. CASE v = 6
  BY <1>4 DEF Script, TransportScript
<1>5. CASE v \in {7, 8}
  <2>1. CASE v = 7
    <3>1. Script(v) = <<"screen_sessions", "screen_authorizations">>
      BY <2>1 DEF Script, CaptureScripts
    <3> QED BY <3>1
  <2>2. CASE v = 8
    <3>1. Script(v) = <<"aegis_sessions">>
      BY <2>2 DEF Script, CaptureScripts
    <3> QED BY <3>1
  <2> QED BY <1>5, <2>1, <2>2
<1>6. CASE v = 9
  BY <1>6 DEF Script, OrionScript
<1>7. CASE v = 10
  BY <1>7 DEF Script, AtlasScript
<1> QED BY <1>1, <1>2, <1>3, <1>4, <1>5, <1>6, <1>7

\* What the diagnosis requires is what the scripts create.
LEMMA AllTablesCreated ==
  ASSUME \A v \in Versions : InSchema(v)
  PROVE  CheckRequiredTables
<1>v. {1, 2, 3, 4, 6, 7, 8, 9, 10} \subseteq Versions
  BY DEF Versions
<1>1. {"identities", "audit_events"} \subseteq schema
  <2>1. /\ Script(1) = <<"identities", "config_entries", "audit_events">>
    BY DEF Script, FirstScripts
  <2> QED BY <1>v, <2>1 DEF InSchema
<1>2. {"pairing_sessions", "trusted_devices"} \subseteq schema
  <2>1. Script(2) = <<"pairing_sessions", "pairing_nonces", "trusted_devices">>
    BY DEF Script, FirstScripts
  <2> QED BY <1>v, <2>1 DEF InSchema
<1>3. {"device_health", "telemetry_events"} \subseteq schema
  <2>1. Script(3) = <<"device_health", "telemetry_events", "device_sequences">>
    BY DEF Script, FirstScripts
  <2> QED BY <1>v, <2>1 DEF InSchema
<1>4. {"policies", "alerts"} \subseteq schema
  <2>1. Script(4) = <<"policies", "policy_rules", "alerts">>
    BY DEF Script, PolicyScript
  <2> QED BY <1>v, <2>1 DEF InSchema
<1>6. {"transport_sessions", "transport_peers"} \subseteq schema
  <2>1. Script(6) = <<"transport_sessions", "transport_peers", "transport_messages",
                      "transport_sequences">>
    BY DEF Script, TransportScript
  <2> QED BY <1>v, <2>1 DEF InSchema
<1>7. {"screen_sessions", "screen_authorizations"} \subseteq schema
  <2>1. Script(7) = <<"screen_sessions", "screen_authorizations">>
    BY DEF Script, CaptureScripts
  <2> QED BY <1>v, <2>1 DEF InSchema
<1>8. "aegis_sessions" \in schema
  <2>1. Script(8) = <<"aegis_sessions">>
    BY DEF Script, CaptureScripts
  <2> QED BY <1>v, <2>1 DEF InSchema
<1>9. {"orion_events", "orion_actions", "orion_capabilities", "orion_reconciliation"}
        \subseteq schema
  <2>1. Script(9) = <<"orion_events", "orion_actions", "orion_capabilities",
                      "orion_reconciliation">>
    BY DEF Script, OrionScript
  <2> QED BY <1>v, <2>1 DEF InSchema
<1>10. {"atlas_backups", "atlas_health", "atlas_recovery", "atlas_capability_versions",
        "atlas_retention"} \subseteq schema
  <2>1. Script(10) = <<"atlas_backups", "atlas_health", "atlas_recovery",
                       "atlas_capability_versions", "atlas_retention">>
    BY DEF Script, AtlasScript
  <2> QED BY <1>v, <2>1 DEF InSchema
<1> QED BY <1>1, <1>2, <1>3, <1>4, <1>6, <1>7, <1>8, <1>9, <1>10
      DEF CheckRequiredTables, RequiredTables

LEMMA ChainInit == AtlasInit => MigrationInv
<1> SUFFICES ASSUME AtlasInit PROVE MigrationInv
  OBVIOUS
<1>1. NoRows["schema_migrations"] = {}
  BY NoRowsTyped, NamesOfTables
<1>2. \A p \in Processes : proc[p].rows = NoRows /\ proc[p].at = "off" /\ proc[p].step = 1
  BY IdleTyped DEF AtlasInit
<1>3. \A b \in Backups : files[b].rows = NoRows
  BY DEF AtlasInit, NoFile
<1>4. db = NoRows
  BY DEF AtlasInit
<1>5. ChainInv
  BY <1>1, <1>2, <1>3, <1>4 DEF ChainInv, Past, MigratesInOrder
<1> QED BY <1>5, AtlasTypedInit DEF MigrationInv

\* The versions that are recorded stay recorded.
LEMMA VersionsGrow ==
  ASSUME MigrationInv, [AtlasNext]_atlasVars
  PROVE  /\ db["schema_migrations"] \subseteq db'["schema_migrations"]
         /\ db'["schema_migrations"] \subseteq Versions
         /\ \A v \in db'["schema_migrations"] :
              \/ v \in db["schema_migrations"]
              \/ db["schema_migrations"] = Versions
              \/ \E p \in Processes :
                   RecordVersion(p) /\ v = Version(p) /\ proc[p].applied # Versions
<1>1. /\ Typed /\ Typed' /\ ChainInv /\ "schema_migrations" \in Tables
      /\ db["schema_migrations"] \subseteq Versions
      /\ db'["schema_migrations"] \subseteq Versions
      /\ DOMAIN db = Tables
  BY AtlasTyped, NamesOfTables, RowsOfTables DEF MigrationInv, Typed, Contents
<1>2. ASSUME NEW p \in Processes, Restore(p),
             files[proc[p].on].rows["schema_migrations"] # {}, proc[p].on \in Backups,
             db'["schema_migrations"] = files[proc[p].on].rows["schema_migrations"]
      PROVE  db'["schema_migrations"] = Versions /\ db["schema_migrations"] = Versions
  <2>1. Past(p)
    BY <1>2 DEF Restore, At, Past
  <2> QED BY <1>1, <1>2, <2>1 DEF ChainInv
<1>3. ASSUME NEW p \in Processes, RecordVersion(p)
      PROVE  /\ db["schema_migrations"] \subseteq db'["schema_migrations"]
             /\ db'["schema_migrations"] \subseteq db["schema_migrations"] \cup {Version(p)}
             /\ proc[p].applied # Versions
  <2>1. proc[p].applied # Versions
    BY <1>3 DEF RecordVersion, Pending
  <2>2. \/ db' = db
        \/ db' = [db EXCEPT !["schema_migrations"] = @ \cup {Version(p)}]
    BY <1>3 DEF RecordVersion
  <2> QED BY <1>1, <2>1, <2>2
<1>4. ASSUME db'["schema_migrations"] # db["schema_migrations"]
      PROVE  \/ \E p \in Processes :
                  /\ Restore(p) /\ proc[p].on \in Backups
                  /\ files[proc[p].on].rows["schema_migrations"] # {}
                  /\ db'["schema_migrations"] = files[proc[p].on].rows["schema_migrations"]
             \/ \E p \in Processes : RecordVersion(p)
  BY <1>1, <1>4, TablesMove
<1> QED BY <1>1, <1>2, <1>3, <1>4

\* What a step of q makes of its place, as far as migrations go.
LEMMA MigrationMoves ==
  ASSUME Typed, [AtlasNext]_atlasVars, NEW q \in Processes
  PROVE  \/ proc'[q] = proc[q]
         \/ proc'[q].at = "off" /\ proc'[q].step = 1
         \/ ReadApplied(q) \/ CreateTable(q)
         \/ RecordVersion(q) /\ proc'[q].at = "migrate"
         \/ Migrated(q) /\ Past(q)'
         \/ Past(q) /\ Past(q)'
         \/ proc'[q].at = "activate"
<1>0. proc[q] \in Process /\ DOMAIN proc = Processes
  BY DEF Typed
<1> USE DEF Past
<1>1. ASSUME NEW p \in Processes, Moves(p), p # q PROVE proc'[q] = proc[q]
  BY <1>1, OneMoves
<1>2. ASSUME Ends(q) PROVE proc'[q].at = "off" /\ proc'[q].step = 1
  BY <1>0, <1>2, IdleTyped DEF Ends
<1>3. ASSUME NEW a \in {"off", "draw", "read", "verify", "diagnose"}, TurnsTo(q, a)
      PROVE  (proc'[q].at = "off" /\ proc'[q].step = 1) \/ Past(q)'
  <2>1. proc'[q].at = a /\ proc'[q].step = 1
    BY <1>0, <1>3, IdleTyped DEF TurnsTo, Places
  <2> QED BY <2>1
<1>4. CASE MigrationStep(q)
  <2>2. CASE RecordVersion(q)
    <3>1. proc'[q].at = "migrate" \/ Ends(q)
      BY <1>0, <2>2 DEF RecordVersion, At, Process
    <3> QED BY <3>1, <2>2, <1>2
  <2>3. CASE \/ InitCommand(q) \/ CreateCommand(q) \/ BackupCommand(q)
             \/ RestoreCommand(q) \/ CheckCommand(q)
    <3>1. /\ \E a \in {"off", "draw", "read", "verify", "diagnose"} : TurnsTo(q, a)
          /\ Migrated(q)
      BY <2>3 DEF InitCommand, CreateCommand, BackupCommand, RestoreCommand, CheckCommand
    <3> QED BY <3>1, <1>3
  <2> QED BY <1>4, <2>2, <2>3 DEF MigrationStep
<1>5. CASE IdentityStep(q)
  <2>1. ASSUME NEW i \in Identities, DrawIdentity(q, i)
        PROVE  proc'[q].at = "save" /\ proc[q].at = "draw"
    BY <1>0, <2>1 DEF DrawIdentity, At, Process
  <2>2. ASSUME NEW i \in Identities, FindIdentity(q, i)
        PROVE  proc'[q].at = "activate"
    BY <1>0, <2>2 DEF FindIdentity, Process
  <2>3. ASSUME SaveKeypair(q)
        PROVE  proc'[q].at = "insert" /\ proc[q].at = "save"
    BY <1>0, <2>3 DEF SaveKeypair, At, Process
  <2>4. ASSUME InsertIdentity(q) \/ ActivateIdentity(q) PROVE Ends(q)
    BY <2>4 DEF InsertIdentity, ActivateIdentity
  <2> QED BY <1>5, <1>2, <2>1, <2>2, <2>3, <2>4 DEF IdentityStep
<1>6. CASE BackupStep(q)
  <2>1. CASE ReadTable(q)
    <3>1. proc'[q].at = "read" /\ proc[q].at = "read"
      BY <1>0, <2>1 DEF ReadTable, At, Process
    <3> QED BY <3>1
  <2>2. ASSUME NEW b \in Backups, WriteBackup(q, b)
        PROVE  (proc'[q].at = "manifest" /\ proc[q].at = "read") \/ Ends(q)
    <3>1. proc[q].at = "read"
      BY <2>2 DEF WriteBackup, At
    <3>2. CASE proc' = [proc EXCEPT ![q] = [Idle EXCEPT !.at = "manifest", !.on = b]]
      <4>1. proc'[q].at = "manifest"
        BY <1>0, <3>2 DEF Idle
      <4> QED BY <3>1, <4>1
    <3>3. CASE proc' = [proc EXCEPT ![q] = Idle]
      BY <3>3 DEF Ends
    <3> QED BY <2>2, <3>2, <3>3 DEF WriteBackup, WriteFailed
  <2>3. CASE InsertManifest(q) \/ Restore(q)
    BY <2>3, <1>2 DEF InsertManifest, Restore
  <2>4. CASE VerifyCompatibility(q) \/ \E b \in Backups : VerifyBackup(q, b)
    <3>1. \/ proc'[q].at \in {"recheck", "apply"} /\ proc[q].at \in {"verify", "recheck"}
          \/ Ends(q)
      BY <2>4, ChecksMove
    <3> QED BY <3>1, <1>2
  <2> QED BY <1>6, <1>2, <2>1, <2>2, <2>3, <2>4 DEF BackupStep
<1>7. CASE Exit(q)
  BY <1>7, <1>2 DEF Exit
<1>8. CASE UNCHANGED atlasVars
  BY <1>8 DEF atlasVars
<1>9. CASE \E c \in Policies : CreatePolicy(c) \/ DeletePolicy(c)
  BY <1>9 DEF CreatePolicy, DeletePolicy
<1> QED BY <1>1, <1>4, <1>5, <1>6, <1>7, <1>8, <1>9 DEF AtlasNext, Moves

LEMMA ChainStep ==
  ASSUME MigrationInv, [AtlasNext]_atlasVars
  PROVE  ChainInv'
<1>1. /\ Typed /\ Typed' /\ Travels /\ ChainInv /\ "schema_migrations" \in Tables
      /\ schema \subseteq schema'
      /\ db["schema_migrations"] \subseteq db'["schema_migrations"]
      /\ db'["schema_migrations"] \subseteq Versions
  BY AtlasTyped, NamesOfTables, DiskMoves, VersionsGrow DEF MigrationInv
<1>a. \A p \in Processes : proc[p].applied \subseteq Versions /\ proc[p].step \in Nat \ {0}
  BY <1>1 DEF Typed, Process
<1>b. \A p \in Processes : proc[p].applied # Versions => Version(p) \in Versions
  BY <1>a, FewerVersions DEF Version, Pending
<1>2. \A v \in Versions : InSchema(v) => InSchema(v)'
  BY <1>1 DEF InSchema
<1>3. ASSUME NEW v \in db'["schema_migrations"] PROVE InSchema(v)'
  <2>1. CASE v \in db["schema_migrations"] \/ db["schema_migrations"] = Versions
    <3>1. InSchema(v) /\ v \in Versions
      BY <1>1, <2>1 DEF ChainInv
    <3> QED BY <3>1, <1>2
  <2>2. ASSUME NEW p \in Processes, RecordVersion(p), v = Version(p),
               proc[p].applied # Versions
        PROVE  InSchema(v)
    <3>1. /\ proc[p].at = "migrate" /\ proc[p].step > Len(Script(v))
          /\ DOMAIN Script(v) = 1 .. Len(Script(v)) /\ Len(Script(v)) \in Nat
      BY <1>b, <2>2, ScriptsOfVersions DEF RecordVersion, At, ScriptDone
    <3>2. \A k \in DOMAIN Script(v) : k < proc[p].step
      BY <1>a, <3>1
    <3> QED BY <1>1, <2>2, <3>1, <3>2 DEF ChainInv, MigratesInOrder, InSchema
  <2> QED BY <1>1, <1>2, <2>1, <2>2, VersionsGrow
<1>4. ASSUME NEW q \in Processes, Past(q)' PROVE db'["schema_migrations"] = Versions
  <2>1. CASE Past(q)
    BY <1>1, <2>1 DEF ChainInv
  <2>2. CASE Migrated(q)
    <3>1. proc[q].at = "migrate" /\ proc[q].applied = Versions
      BY <1>a, <2>2 DEF Migrated, At, Pending
    <3> QED BY <1>1, <3>1 DEF ChainInv, MigratesInOrder
  <2>3. CASE ReadApplied(q) \/ CreateTable(q)
    <3>1. proc'[q].at = "migrate"
      BY <1>1, <2>3 DEF ReadApplied, CreateTable, At, Typed, Process
    <3> QED BY <3>1, <1>4 DEF Past
  <2> QED BY <1>1, <1>4, <2>1, <2>2, <2>3, MigrationMoves DEF Past
<1>5. ASSUME NEW q \in Processes PROVE proc'[q].rows["schema_migrations"] \in {{}, Versions}
  <2>1. proc[q].at = "read" => db["schema_migrations"] = Versions
    BY <1>1 DEF ChainInv, Past
  <2> QED BY <1>1, <2>1 DEF Travels, ChainInv
<1>6. ASSUME NEW b \in Backups PROVE files'[b].rows["schema_migrations"] \in {{}, Versions}
  BY <1>1 DEF Travels, ChainInv
<1>7. ASSUME NEW q \in Processes, proc'[q].at = "off" PROVE proc'[q].step = 1
  <2>1. CASE ReadApplied(q) \/ CreateTable(q)
    <3>1. proc'[q].at = "migrate"
      BY <1>1, <2>1 DEF ReadApplied, CreateTable, At, Typed, Process
    <3> QED BY <3>1, <1>7
  <2> QED BY <1>1, <1>7, <2>1, MigrationMoves DEF ChainInv, Past
<1>8. ASSUME NEW q \in Processes, proc'[q].at = "migrate" PROVE MigratesInOrder(q)'
  <2>1. CASE proc'[q] = proc[q]
    <3>1. MigratesInOrder(q) /\ proc[q].at = "migrate"
      BY <1>1, <1>8, <2>1 DEF ChainInv
    <3>2. Version(q)' = Version(q)
      BY <2>1 DEF Version, Pending
    <3> QED BY <1>1, <2>1, <3>1, <3>2 DEF MigratesInOrder
  <2>2. CASE ReadApplied(q)
    <3>1. /\ proc'[q].applied = db["schema_migrations"] /\ proc'[q].step = 1
      BY <1>1, <2>2 DEF ReadApplied, At, ChainInv, Typed, Process
    <3>2. ASSUME proc'[q].applied # Versions
          PROVE  \A k \in DOMAIN Script(Version(q)') : ~(k < 1)
      <4>1. Version(q)' \in Versions
        BY <1>1, <3>1, <3>2, FewerVersions DEF Version, Pending
      <4> QED BY <4>1, ScriptsOfVersions
    <3> QED BY <1>1, <3>1, <3>2 DEF MigratesInOrder
  <2>3. CASE CreateTable(q)
    <3>1. /\ proc'[q].applied = proc[q].applied /\ proc'[q].step = proc[q].step + 1
          /\ proc[q].at = "migrate" /\ proc[q].applied # Versions
          /\ Version(q)' = Version(q)
          /\ Script(Version(q))[proc[q].step] \in schema'
      BY <1>1, <1>a, <2>3 DEF CreateTable, At, Version, Pending, Typed, Process
    <3>2. \A k \in DOMAIN Script(Version(q)) :
            k < proc[q].step => Script(Version(q))[k] \in schema'
      BY <1>1, <3>1 DEF ChainInv, MigratesInOrder
    <3>3. \A k \in DOMAIN Script(Version(q)) :
            k < proc[q].step + 1 => k < proc[q].step \/ k = proc[q].step
      <4>1. DOMAIN Script(Version(q)) = 1 .. Len(Script(Version(q)))
        BY <1>b, <3>1, ScriptsOfVersions
      <4> QED BY <4>1, <1>a
    <3>4. proc'[q].applied \subseteq db'["schema_migrations"]
      BY <1>1, <3>1 DEF ChainInv, MigratesInOrder
    <3> QED BY <3>1, <3>2, <3>3, <3>4 DEF MigratesInOrder
  <2>4. CASE RecordVersion(q)
    <3>0. proc[q].at = "migrate" /\ proc[q].applied # Versions
      BY <2>4 DEF RecordVersion, At, Pending
    <3>1. Version(q) \notin db["schema_migrations"]
      <4>1. ASSUME Ends(q) PROVE FALSE
        BY <1>1, <1>8, <4>1, IdleTyped DEF Ends, Typed
      <4> QED BY <2>4, <4>1 DEF RecordVersion
    <3>2. /\ proc'[q].applied = proc[q].applied \cup {Version(q)} /\ proc'[q].step = 1
          /\ db'["schema_migrations"] = db["schema_migrations"] \cup {Version(q)}
      BY <1>1, <2>4, <3>1 DEF RecordVersion, Typed, Process, Contents
    <3>3. proc[q].applied \subseteq db["schema_migrations"]
      BY <1>1, <3>0 DEF ChainInv, MigratesInOrder
    <3>4. ASSUME proc'[q].applied # Versions
          PROVE  \A k \in DOMAIN Script(Version(q)') : ~(k < 1)
      <4>0. proc'[q].applied \subseteq Versions
        BY <1>1, <3>2, <3>3
      <4>1. Version(q)' \in Versions
        BY <3>4, <4>0, FewerVersions DEF Version, Pending
      <4> QED BY <4>1, ScriptsOfVersions
    <3> QED BY <3>2, <3>3, <3>4 DEF MigratesInOrder
  <2> QED BY <1>1, <1>8, <2>1, <2>2, <2>3, <2>4, MigrationMoves DEF Past
<1> QED BY <1>3, <1>4, <1>5, <1>6, <1>7, <1>8 DEF ChainInv, MigratesInOrder

\* For any number of processes, identities, policies and backups: whoever migrates at
\* once, wherever one dies, and whatever is restored, a command that got past its
\* migrations finds every table, every version and no rule without its policy
\* (migrations.py 628-661, restore.py 97-115, integrity.py 83-145).
THEOREM DiagnosisTheorem == AtlasSpec => []DiagnosisFindsNothing
<1>1. MigrationInv /\ [AtlasNext]_atlasVars => MigrationInv'
  BY ChainStep, AtlasTyped DEF MigrationInv
<1>2. MigrationInv /\ PoliciesInv => DiagnosisFindsNothing
  <2> SUFFICES ASSUME MigrationInv, PoliciesInv, NEW p \in Processes, Past(p)
               PROVE  /\ CheckRequiredTables /\ CheckMigrationState
                      /\ CheckMigrationChain /\ CheckForeignKeys
    BY DEF DiagnosisFindsNothing, Past
  <2>1. db["schema_migrations"] = Versions
    BY DEF MigrationInv, ChainInv
  <2>2. CheckRequiredTables
    BY <2>1, AllTablesCreated DEF MigrationInv, ChainInv
  <2>3. CheckMigrationState
    <3> DEFINE S == Versions \cup {0}
    <3>1. 10 \in S /\ \A v \in S : 10 >= v /\ v \in Nat
      BY DEF Versions
    <3> HIDE DEF S
    <3>2. Max(S) \in S /\ Max(S) >= 10
      BY <3>1 DEF Max
    <3> QED BY <2>1, <3>2 DEF CheckMigrationState, S
  <2>4. CheckMigrationChain
    BY <2>1 DEF CheckMigrationChain
  <2> QED BY <2>2, <2>3, <2>4 DEF PoliciesInv
<1> QED BY <1>1, <1>2, ChainInit, PoliciesInit, PoliciesStep, PTL DEF AtlasSpec
=============================================================================
