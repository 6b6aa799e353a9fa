-------------------------------- MODULE Tools --------------------------------
(***************************************************************************)
(* What is opened over the panes: the duplicate finder, the map of the disk    *)
(* usage, find in files, the editor, the prompts for vaults and disk images,   *)
(* the terminal; and the trash.  They share no state that their properties are *)
(* about, so each of them is taken alone: `part' says which.                   *)
(***************************************************************************)
EXTENDS Integers, Sequences, FiniteSets

CONSTANTS
  Parts,
  Bound,                                        \* [part -> bound on its steps], for some
  Costs, Blank, Pcts, Hashes, FilesOf, Scans, MaxScanCalls,       \* of Duplicates
  MapFolders, Under, Real, MaxScans,                              \* of Treemap
  Queries, Roots, RemoteRoots, Found, SavedFields, MaxSearches, MaxHits,   \* of Search
  TextFiles, Protected, MaxEdits, MaxVisits,                      \* of Editor
  VaultPaths, Regular, Images, MaxCalls,                          \* of Passwords
  Folders, Unsupported, MaxViews,                                 \* of Terminal
  Callers, Places, OtherDevice, Copies, MaxFiles, MaxFaults       \* of Trash

VARIABLES
  part, steps,
  finder, phase, setup, estimate, scanId, keep, checked, batch, finderCalls, ids, scan,
  scansStopped, found, finds,
  diskMap, cache, generation, usageAsked, usageStopped, usages,
  searchOpen, loaded, root, prefs, timer, results, index, searching, denied, searchId, buffered,
  searchCalls, searches, asked, hits,
  desk, content, loading, failed, confirm, reads, writes, prompt, busy, unlocked, disk, edits,
  visits,
  vaultPrompt, mounts, image, typed, here, job, vaultCalls, made, vaultJobs, vaultEnds,
  folder, view, views, started, exited, shellCalls, session, startSeq, dirs, ended, loops, exits,
  places, files, info, trashCall, madeAt, purged, broken, undo, faults

----------------------------------------------------------------------------
Finder == INSTANCE Duplicates WITH
  Jobs <- Scans, MaxCalls <- MaxScanCalls,
  dialog <- finder, calls <- finderCalls, running <- scan, events <- finds, jobId <- scanId,
  canceled <- scansStopped

Map == INSTANCE Treemap WITH
  Folders <- MapFolders,
  dialog <- diskMap, asked <- usageAsked, canceled <- usageStopped, events <- usages

Search == INSTANCE Search WITH
  Remote <- RemoteRoots, Paths <- Found, Saved <- SavedFields,
  MaxJobs <- MaxSearches, MaxEvents <- MaxHits,
  open <- searchOpen, calls <- searchCalls, running <- searches, events <- hits,
  jobId <- searchId

Texts == INSTANCE Editor WITH Files <- TextFiles

Prompts == INSTANCE Passwords WITH
  Paths <- VaultPaths,
  dialog <- vaultPrompt, calls <- vaultCalls, running <- vaultJobs, events <- vaultEnds

Shells == INSTANCE Terminal WITH calls <- shellCalls, events <- exits

(* One call at a time on the trash.                                          *)
Bin == INSTANCE Trash WITH Overlap <- FALSE, disk <- places, call <- trashCall

ASSUME ToolsAssumption ==
  /\ Finder!DuplicatesAssumption /\ Map!TreemapAssumption /\ Search!SearchAssumption
  /\ Texts!EditorAssumption /\ Shells!TerminalAssumption /\ Bin!TrashAssumption

----------------------------------------------------------------------------
ofFinder == <<finder, phase, setup, estimate, scanId, keep, checked, batch, finderCalls, ids,
              scan, scansStopped, found, finds>>
ofMap == <<diskMap, cache, generation, usageAsked, usageStopped, usages>>
ofSearch == <<searchOpen, loaded, root, prefs, timer, results, index, searching, denied,
              searchId, buffered, searchCalls, searches, asked, hits>>
ofTexts == <<desk, content, loading, failed, confirm, reads, writes, prompt, busy, unlocked,
             disk, edits, visits>>
ofPrompts == <<vaultPrompt, mounts, image, typed, here, job, vaultCalls, made, vaultJobs,
               vaultEnds>>
ofShells == <<folder, view, views, started, exited, shellCalls, session, startSeq, dirs, ended,
              loops, exits>>
ofBin == <<places, files, info, trashCall, madeAt, purged, broken, undo, faults>>
toolsVars == <<part, steps, ofFinder, ofMap, ofSearch, ofTexts, ofPrompts, ofShells, ofBin>>

(* A part that is not taken waits at one of its initial states.               *)
ToolsInit ==
  /\ part \in Parts /\ steps = 0
  /\ Finder!Init /\ Map!Init /\ Search!Init
  /\ Texts!Init /\ Prompts!Init /\ Shells!Init /\ Bin!Init
  /\ part # "search" => root = CHOOSE r \in Roots : TRUE
  /\ part # "shells" => folder = CHOOSE f \in Folders : TRUE

ToolsNext ==
  /\ part \in DOMAIN Bound => steps < Bound[part]
  /\ steps' = IF part \in DOMAIN Bound THEN steps + 1 ELSE 0
  /\ UNCHANGED part
  /\ \/ /\ part = "finder" /\ Finder!Next
        /\ UNCHANGED <<ofMap, ofSearch, ofTexts, ofPrompts, ofShells, ofBin>>
     \/ /\ part = "map" /\ Map!Next
        /\ UNCHANGED <<ofFinder, ofSearch, ofTexts, ofPrompts, ofShells, ofBin>>
     \/ /\ part = "search" /\ Search!Next
        /\ UNCHANGED <<ofFinder, ofMap, ofTexts, ofPrompts, ofShells, ofBin>>
     \/ /\ part = "texts" /\ Texts!Next
        /\ UNCHANGED <<ofFinder, ofMap, ofSearch, ofPrompts, ofShells, ofBin>>
     \/ /\ part = "prompts" /\ Prompts!Next
        /\ UNCHANGED <<ofFinder, ofMap, ofSearch, ofTexts, ofShells, ofBin>>
     \/ /\ part = "shells" /\ Shells!Next
        /\ UNCHANGED <<ofFinder, ofMap, ofSearch, ofTexts, ofPrompts, ofBin>>
     \/ /\ part = "trash" /\ Bin!Next
        /\ UNCHANGED <<ofFinder, ofMap, ofSearch, ofTexts, ofPrompts, ofShells>>

ToolsSpec == ToolsInit /\ [][ToolsNext]_toolsVars

----------------------------------------------------------------------------
ToolsTypeOK ==
  /\ Finder!TypeOK /\ Map!TypeOK /\ Search!TypeOK /\ Texts!TypeOK /\ Prompts!TypeOK /\ Shells!TypeOK
  /\ Bin!TypeOK

(* What is of one thing is taken for no other's, whatever was closed, changed  *)
(* or begun anew before an answer came: the estimate is of the setup shown, the *)
(* groups of the scan shown, the usage of its folder, the text saved of the    *)
(* file opened, the password sent of the vault it was typed for               *)
(* (DupSetupView.tsx:54, useDuplicateEvents.ts:7, treemapStore.ts:134,         *)
(* useEditorFile.ts:34, LockDialog.tsx:29).                                  *)
NothingIsMixedUp ==
  /\ Finder!EstimateIsForThisSetup /\ Finder!GroupsAreOfThisScan
  /\ Map!UsageIsOfItsFolder /\ Texts!TextsStayInTheirFile /\ Prompts!VaultPasswordsStayTheirs

(* What runs is known to who can end it: a scan of the disk that was not       *)
(* stopped is the one the window waits for (treemapStore.ts:29); a live shell  *)
(* is the one the service knows for the pane, which the next Stop ends, or of   *)
(* a Start under way that will place or close it (terminal_service.go:96),     *)
(* though its terminal may be hidden (HiddenHasNone of Terminal does not hold); *)
(* and a list that says it is searching has a search under way                 *)
(* (useSearchSession.ts:126).                                                *)
WhatRunsIsTracked == Map!ScansAreSeen /\ Shells!NoShellIsLost /\ Search!SearchingHasAJob

(* What was moved to the trash and not removed for good is whole, there or back *)
(* where it was, and its note names no other place, whatever failed or died    *)
(* between two steps of a delete, an undo, a restore or an emptying             *)
(* (trash_xdg.go:38, trash.go:404).  The notes are true of at most one fault: a *)
(* crash can leave a note without its file, a second one can then put another  *)
(* file under that name before its own note is written, as uniqueTrashName     *)
(* looks at files/ alone (trash_xdg.go:53).                                    *)
TrashKeepsWhatItTook == Bin!NothingTrashedIsLost /\ Bin!NotesAreTrue

(* Of every group the file shown as kept is left by the merge: "keep = first   *)
(* path sorted; others checked for delete" (specs/duplicate-finder/v1.md:101).  *)
KeptIsNotDeleted == Finder!KeptIsNotDeleted
=============================================================================
