------------------------------- MODULE Desktop -------------------------------
(***************************************************************************)
(* The desktop application: MainWindow with the rows of RoutingWidget,     *)
(* which are what is edited, started, saved and muted, and the files that  *)
(* it opens, saves, and restores when it is started again.                 *)
(*                                                                         *)
(* A row is a route's addresses, its mute and the ids of its states in     *)
(* m_ItemStateTable.  The other fields, and the other two tabs, go the     *)
(* same way.  A session is from one start of the program to the next.      *)
(***************************************************************************)
EXTENDS Naturals, SequencesExt, FiniteSetsExt

CONSTANTS
  InAddrs, OutAddrs,
  NoAddr,    \* in a row: no valid port; of a file: there is none; no path
  FilePaths, \* of files that the user may choose
  MaxEdits   \* bound on what the user changes in rows

ASSUME DeskAssumption == InAddrs # {} /\ OutAddrs # {} /\ MaxEdits \in Nat

RowAddrs == [in : InAddrs \cup {NoAddr}, out : OutAddrs]

VARIABLES
  rows,         \* without the last one, which is empty
  itemTable,    \* m_ItemStateTable: per id whether it is muted
  routerThread, \* m_RouterThread: per id of a destination its address; <<>> without one
  building,     \* the timer of onStartClicked
  filePath,     \* m_FilePath, which SETTING_LAST_FILE keeps
  fileContents, \* m_FileContents
  unsavedRows,  \* m_Unsaved
  disk,         \* per path what loading the file gives, or NoAddr
  persistent,   \* the same of the file that is written on exit
  spoiled,      \* history: the files whose last write failed unnoticed; NoAddr stands for the one on exit
  open,         \* the program runs
  touched,      \* history: rows have been edited, added or removed since onStartClicked
  edits,        \* number of edits
  lastApplied,  \* history: what was applied last: started, muted, saved or loaded
  left,         \* history: what was shown when the program was left
  told,         \* history: the user has given up what was applied, or been told of an error
  muting        \* history: the running destination of the row whose mute was toggled last, the one
                \* that it reached, and whether the rows were touched by then

deskVars == <<rows, itemTable, routerThread, building, filePath, fileContents, unsavedRows, disk, persistent, spoiled,
              open, touched, edits, lastApplied, left, told, muting>>

-----------------------------------------------------------------------------
(* RoutingWidget::SaveRoutes                                               *)

Valid(r) == r.in # NoAddr

\* Rows with a valid port, but for those that another row has already.
KeptRows(rs) ==
  {i \in DOMAIN rs : Valid(rs[i]) /\ ~\E j \in 1..(i - 1) : rs[j].in = rs[i].in /\ rs[j].out = rs[i].out}

\* The k-th of them.
NthKept(rs, k) == CHOOSE i \in KeptRows(rs) : Cardinality({j \in KeptRows(rs) : j <= i}) = k

Saved(rs) ==
  [k \in 1..Cardinality(KeptRows(rs)) |->
     [in |-> rs[NthKept(rs, k)].in, out |-> rs[NthKept(rs, k)].out, mute |-> rs[NthKept(rs, k)].mute]]

EndOf(r, side) == IF side = "in" THEN r.in ELSE r.out

\* Ids are handed out along the rows, to each source and destination as it comes first.
FirstOf(rs, side) ==
  {i \in KeptRows(rs) : ~\E j \in KeptRows(rs) : j < i /\ EndOf(rs[j], side) = EndOf(rs[i], side)}

IdOf(rs, i, side) ==
  LET first == CHOOSE j \in FirstOf(rs, side) : EndOf(rs[j], side) = EndOf(rs[i], side)
      ins == {j \in FirstOf(rs, "in") : j < first \/ (j = first /\ side = "out")}
      outs == {j \in FirstOf(rs, "out") : j < first}
  IN Cardinality(ins) + Cardinality(outs) + 1

\* The rows take their ids, whichever table they are of.
Registered(rs) ==
  [i \in DOMAIN rs |-> IF i \in KeptRows(rs) THEN [rs[i] EXCEPT !.outId = IdOf(rs, i, "out")] ELSE rs[i]]

\* RoutingWidget::LoadRoutes: new rows, which have no ids.
Loaded(content) ==
  [k \in DOMAIN content |-> [in |-> content[k].in, out |-> content[k].out, mute |-> content[k].mute, outId |-> 0]]

-----------------------------------------------------------------------------

Unmuted == [asked |-> NoAddr, hit |-> NoAddr, touched |-> FALSE]

DeskInit ==
  /\ rows = <<>> /\ itemTable = <<>> /\ routerThread = <<>> /\ building = FALSE
  /\ filePath = NoAddr /\ fileContents = <<>> /\ unsavedRows = FALSE
  /\ disk \in [FilePaths -> {NoAddr, <<[in |-> CHOOSE a \in InAddrs : TRUE, out |-> CHOOSE a \in OutAddrs : TRUE,
                                    mute |-> FALSE]>>}]
  /\ persistent = NoAddr /\ spoiled = {} /\ open = TRUE
  /\ touched = FALSE /\ edits = 0 /\ lastApplied = <<>> /\ left = <<>> /\ told = FALSE
  /\ muting = Unmuted

Routing == routerThread # <<>>

-----------------------------------------------------------------------------
(* What the user does to rows.                                             *)

Edited ==
  /\ open /\ edits < MaxEdits /\ edits' = edits + 1 /\ touched' = TRUE
  /\ UNCHANGED <<itemTable, routerThread, building, filePath, fileContents, unsavedRows, disk, persistent, spoiled,
                 open, lastApplied, left, told, muting>>

\* An address is changed: refreshTcpBadges saves the rows into a table of its own.
Edit(i, a) ==
  /\ Edited
  /\ rows' = Registered([rows EXCEPT ![i].in = a.in, ![i].out = a.out])

\* onAddRemoveClicked, of the last row with what has been entered in it, or of another.
AddRow(a) ==
  /\ Edited
  /\ LET row == [in |-> a.in, out |-> a.out, mute |-> FALSE, outId |-> 0]
     IN rows' = Loaded(Saved(Append(rows, row)))

RemoveRow(i) ==
  /\ Edited
  /\ rows' = Loaded(Saved(RemoveAt(rows, i)))

\* Mutant: mutes are not compared.
ComparedUnmuted(rs) ==
  LET EndsOf(content) == [k \in DOMAIN content |-> <<content[k].in, content[k].out>>]
  IN EndsOf(fileContents) # EndsOf(Saved(rs))

\* UpdateUnsaved, which saves the rows to a buffer.
Compared(rs) == fileContents # Saved(rs)

\* onMuteRouteToggled, of the widget and of the window.
ToggleMute(i) ==
  /\ open /\ edits < MaxEdits /\ edits' = edits + 1
  /\ LET id == rows[i].outId
         toggled == [rows EXCEPT ![i].mute = ~@]
     IN /\ rows' = Registered(toggled)
        /\ itemTable' = IF id \in DOMAIN itemTable THEN [itemTable EXCEPT ![id] = ~rows[i].mute] ELSE itemTable
        /\ muting' = [asked |-> IF rows[i].out \in ToSet(routerThread) THEN rows[i].out ELSE NoAddr,
                      hit |-> IF id \in DOMAIN routerThread THEN routerThread[id] ELSE NoAddr, touched |-> touched]
        /\ unsavedRows' = Compared(toggled)
        /\ lastApplied' = Saved(toggled)
  /\ UNCHANGED <<routerThread, building, filePath, fileContents, disk, persistent, spoiled, open, touched, left,
                 told>>

-----------------------------------------------------------------------------
(* Start and stop.                                                         *)

\* onStartClicked: the rows are shown again as they are saved; BuildRoutes follows by a timer.
StartClicked ==
  /\ open /\ ~Routing
  /\ rows' = Registered(Loaded(Saved(rows)))
  /\ unsavedRows' = Compared(rows)
  /\ lastApplied' = Saved(rows)
  /\ building' = TRUE
  /\ touched' = FALSE
  /\ UNCHANGED <<itemTable, routerThread, filePath, fileContents, disk, persistent, spoiled, open, edits, left,
                 told, muting>>

\* BuildRoutes: Shutdown, and then SaveRoutes into m_ItemStateTable.
BuildRoutes ==
  /\ open /\ building
  /\ building' = FALSE
  /\ rows' = Registered(rows)
  /\ LET registered == Registered(rows)
         kept == KeptRows(rows)
         last == IF kept = {} THEN 0 ELSE Max({IdOf(rows, i, side) : i \in kept, side \in {"in", "out"}})
         RowsOf(id) == {i \in kept : registered[i].outId = id}
     IN /\ itemTable' = [id \in 1..last |-> RowsOf(id) # {} /\ rows[Min(RowsOf(id))].mute]
        /\ routerThread' = [id \in 1..last |-> IF RowsOf(id) # {} THEN rows[Min(RowsOf(id))].out ELSE NoAddr]
  /\ UNCHANGED <<filePath, fileContents, unsavedRows, disk, persistent, spoiled, open, touched, edits, lastApplied,
                 left, told, muting>>

\* onStopClicked: Shutdown.
StopClicked ==
  /\ open /\ Routing
  /\ routerThread' = <<>>
  /\ UNCHANGED <<rows, itemTable, building, filePath, fileContents, unsavedRows, disk, persistent, spoiled, open,
                 touched, edits, lastApplied, left, told, muting>>

-----------------------------------------------------------------------------
(* Files.                                                                  *)

\* Load of what a file has, into the rows, with refreshTcpBadges.
LoadInto(content, file) ==
  /\ rows' = Registered(Loaded(content))
  /\ fileContents' = content /\ unsavedRows' = FALSE /\ lastApplied' = content
  /\ routerThread' = <<>> /\ touched' = TRUE /\ told' = FALSE
  /\ spoiled' = spoiled \ {file, NoAddr} /\ left' = <<>> /\ muting' = Unmuted

\* What loads of a file in which a write has failed, as on a full disk: its first rows, of
\* which the last can have lost its mute.  One with half an address counts as missing.
CutOff(content) ==
  {SubSeq(content, 1, k) : k \in 0..Len(content) - 1} \cup
  {[SubSeq(content, 1, k) EXCEPT ![k].mute = FALSE] : k \in DOMAIN content}

\* SaveToDevice never asks whether its writes have failed.
Noted(file, whole) == IF whole THEN spoiled \ {file} ELSE spoiled \cup {file}

\* SaveFile to a path, which is taken before it is known whether the file can be opened.
SaveToFile(path, opens) ==
  /\ filePath' = path
  /\ IF opens THEN /\ \E after \in {Saved(rows)} \cup CutOff(Saved(rows)) :
                        disk' = [disk EXCEPT ![path] = after] /\ spoiled' = Noted(path, after = Saved(rows))
                   /\ fileContents' = Saved(rows) /\ unsavedRows' = FALSE /\ lastApplied' = Saved(rows)
                   /\ told' = FALSE
     ELSE told' = TRUE /\ UNCHANGED <<disk, spoiled, fileContents, unsavedRows, lastApplied>>

\* onSaveFile, onSaveAsFile
SaveClicked(path, opens) ==
  /\ open
  /\ SaveToFile(path, opens)
  /\ rows' = Registered(rows)
  /\ UNCHANGED <<itemTable, routerThread, building, persistent, open, touched, edits, left, muting>>

\* onNewFile.  ResolveUnsaved asks what is to become of what is not saved: Save comes before,
\* and else the user gives it up.  Nobody asks whether the file could be removed.
New ==
  /\ open
  /\ LoadInto(<<>>, NoAddr)
  /\ filePath' = NoAddr /\ persistent' \in {NoAddr, persistent}
  /\ UNCHANGED <<itemTable, building, disk, open, edits>>

\* onOpenFile: LoadFile takes the path, whether or not there is a file.
Open(path) ==
  /\ open
  /\ filePath' = path
  /\ IF disk[path] # NoAddr THEN LoadInto(disk[path], path)
     ELSE UNCHANGED <<rows, fileContents, unsavedRows, lastApplied, routerThread, touched, told, spoiled, left, muting>>
  /\ UNCHANGED <<itemTable, building, disk, persistent, open, edits>>

\* closeEvent, which ignores whether the file can be opened or written.
Close ==
  /\ open /\ told' = (told \/ unsavedRows)
  /\ \E after \in {Saved(rows), persistent} \cup CutOff(Saved(rows)) :
       persistent' = after /\ spoiled' = Noted(NoAddr, after = Saved(rows))
  /\ open' = FALSE /\ routerThread' = <<>> /\ building' = FALSE
  /\ left' = Saved(rows)
  /\ UNCHANGED <<rows, itemTable, filePath, fileContents, unsavedRows, disk, touched, edits, lastApplied, muting>>

\* RestoreLastFile: the last file, or the one that was written on exit.
RestoredFrom == IF filePath # NoAddr /\ disk[filePath] # NoAddr THEN filePath ELSE NoAddr
Restored == IF RestoredFrom # NoAddr THEN disk[RestoredFrom] ELSE persistent

\* The program is started again.
Reopen ==
  /\ ~open /\ open' = TRUE
  /\ itemTable' = <<>> /\ building' = FALSE
  /\ LET content == IF Restored = NoAddr THEN <<>> ELSE Restored
     IN LoadInto(content, RestoredFrom)
  /\ UNCHANGED <<filePath, disk, persistent, edits>>

DeskNext ==
  \/ \E i \in DOMAIN rows : RemoveRow(i) \/ ToggleMute(i) \/ \E a \in RowAddrs : Edit(i, a)
  \/ \E a \in RowAddrs : AddRow(a)
  \/ StartClicked \/ BuildRoutes \/ StopClicked
  \/ \E path \in FilePaths : Open(path) \/ \E opens \in BOOLEAN : SaveClicked(path, opens)
  \/ New \/ Close \/ Reopen

DeskSpec == DeskInit /\ [][DeskNext]_deskVars

-----------------------------------------------------------------------------
(* Properties.                                                             *)

\* The types of the variables.
DeskTypeOK ==
  /\ \A r \in ToSet(rows) : r \in [in : InAddrs \cup {NoAddr}, out : OutAddrs, mute : BOOLEAN, outId : Nat]
  /\ Range(itemTable) \subseteq BOOLEAN /\ Range(routerThread) \subseteq OutAddrs \cup {NoAddr}
  /\ filePath \in FilePaths \cup {NoAddr} /\ spoiled \subseteq FilePaths \cup {NoAddr} /\ edits \in 0..MaxEdits
  /\ {building, unsavedRows, open, touched, told} \subseteq BOOLEAN

\* The ids of rows survive each time they are saved into another table, to compare, to save
\* or to draw badges: as long as the rows are those that were started, the mute of a row
\* reaches its destination (SaveRoutes, refreshTcpBadges, onMuteRouteToggled).
MutesReachStarted == ~muting.touched /\ muting.asked # NoAddr => muting.hit = muting.asked

\* What has been applied is not lost when the program is left, unless the user has given it
\* up or was told of an error: it comes back, or what was shown comes back.  The one loss that
\* nobody is told of is that of a file in which a write failed, or of the one on exit when it
\* could not be opened, and only if that is the file restored and none was whole since.
AppliedReturns == ~open /\ ~told /\ RestoredFrom \notin spoiled => Restored \in {lastApplied, left}

DesktopKeeps == MutesReachStarted /\ AppliedReturns

\* "Mute running route" (MainWindow.cpp): the mute of a row whose destination is running
\* mutes it.
MutesRunningRoute == muting.asked # NoAddr => muting.hit = muting.asked
=============================================================================
