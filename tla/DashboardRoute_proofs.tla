------------------------ MODULE DashboardRoute_proofs ------------------------
(***************************************************************************)
(* Proofs about the publication of the dashboard, for any number of edits, *)
(* dashboard processes, commands and deaths.                               *)
(***************************************************************************)
EXTENDS DashboardRoute, TLAPS

\* The writes of a command, by the function that makes them.
Recovery == {"recover", "restore", "recover_reload", "recover_backup", "recover_snippet",
             "recover_revoke", "recover_journal"}
Publication == {"prepare", "backup", "snippet", "check", "validate", "install", "contract",
                "reload", "probe", "enable", "activate"}
Withdrawal == {"close_check", "close_validate", "close_install", "close_reload",
               "close_probe", "close_failed", "close_snippet", "close_backup", "closed"}
Reversal == {"rollback", "undo", "undo_reload", "give_up"}
Cleanup == {"clean_snippet", "clean_backup", "clean_journal", "clean_revoke"}
CommandTyped ==
  /\ command = [pc |-> command.pc, does |-> command.does,
                original |-> command.original, updated |-> command.updated]
  /\ command.original \in Configs /\ command.updated \in Configs

\* A command is at a write of its own.
Ordered ==
  /\ command.pc \in {"open"} \union Publication \union Cleanup => command.does = "open"
  /\ command.pc \in {"close", "closing"} \union Withdrawal => command.does = "close"
  /\ command.pc \in Recovery \union Reversal => command.does \in {"open", "close"}
  /\ command.pc \in {"start", "spawn"} => instance < MaxStarts

Typed == TypeOK /\ CommandTyped /\ Ordered

\* Who enables access has probed the newest instance, and a new instance is
\* spawned only behind a revocation.
Private ==
  /\ public.enabled => public.written /\ probed = instance
  /\ At("enable") => probed = instance
  /\ At("spawn") => ~public.enabled

Generations ==
  /\ \A s \in sessions : s.generation <= public.generation
  /\ \A s \in revoked : s.generation < public.generation

\* What the journal names is what the backup holds, as long as there is one.
Emptied == {"prepare", "recover_snippet", "recover_revoke", "recover_journal",
            "clean_journal", "closed"}
Journalled ==
  /\ backup \subseteq {journal.original}
  /\ journal.installed.edits = journal.original.edits
  /\ ~journal.original.route
  /\ command.pc \in Emptied => backup = {}
  /\ At("backup") => journal.original = command.original

\* What is about to be written over a configuration holds its edits.
Kept == made \ raced
Saved ==
  /\ Kept \subseteq config.edits
  /\ command.updated.edits = command.original.edits
  /\ command.pc \in {"install", "close_install", "undo"} => Kept \subseteq command.original.edits
  /\ At("restore") => Kept \subseteq journal.original.edits

\* No command removes the include before the configuration has let go of it.
Bare == {"prepare", "backup", "snippet", "check", "validate", "install",
         "recover_reload", "recover_backup", "recover_snippet", "recover_revoke",
         "recover_journal", "clean_snippet", "clean_backup", "clean_journal",
         "close_reload", "close_probe", "close_snippet", "close_backup", "closed"}
Imported == {"check", "validate", "install", "contract", "reload", "probe", "enable",
             "activate"}
Leaving == {"close_check", "close_validate", "close_install", "close_reload", "close_probe"}
Loading ==
  /\ ConfigIsLoadable
  /\ command.pc \in Bare => ~config.route
  /\ At("undo_reload") /\ command.does = "open" => ~config.route
  /\ command.pc \in Imported => snippet
  /\ command.pc \in Publication => ~command.original.route
  /\ command.pc \in Leaving => ~command.updated.route
  /\ command.pc \in Reversal /\ command.does = "open" => ~command.original.route
  /\ command.pc \in Leaving \/ (command.pc \in Reversal /\ command.does = "close")
       => (command.original.route => snippet)

\* The journal says closed only after the proxy was reloaded without the route,
\* and no longer once a command begins to install another.
Gone == {"close_probe", "close_snippet", "close_backup", "closed"}
Unsettled == (Publication \ {"prepare"}) \union Withdrawal \union Reversal
Withdrawn ==
  /\ ClosedIsGone
  /\ command.pc \in Gone => ~loaded.route
  /\ command.pc \in Unsettled => journal.state # "closed"

Inv == Typed /\ Private /\ Generations /\ Journalled /\ Saved /\ Loading /\ Withdrawn

-----------------------------------------------------------------------------
(* The step of a command.                                                  *)

Journals ==
  [state : {"none", "prepared", "active", "closing", "close_failed",
            "recovery_required", "closed"},
   operation : {"none", "open", "close"}, original : Configs, installed : Configs]
Contracts == [enabled : BOOLEAN, generation : Nat, written : BOOLEAN]

FilesTyped ==
  /\ config \in Configs /\ loaded \in Configs /\ snippet \in BOOLEAN
  /\ backup \subseteq Configs /\ journal \in Journals
AccessTyped == public \in Contracts /\ sessions \subseteq Sessions /\ revoked \subseteq sessions
ProcessTyped ==
  /\ recorded \in 0..MaxStarts /\ instance \in 0..MaxStarts /\ probed \in 0..MaxStarts
  /\ dashboard \in {"down", "booting", "up"} /\ detached \in BOOLEAN
CountsTyped ==
  /\ made \subseteq Edits /\ raced \subseteq made
  /\ commands \in 0..MaxCommands /\ crashes \in 0..MaxCrashes

LEMMA TypedFields ==
  ASSUME Typed
  PROVE  /\ CommandTyped /\ journal \in Journals /\ public \in Contracts
         /\ config \in Configs /\ loaded \in Configs /\ snippet \in BOOLEAN
         /\ backup \subseteq Configs
         /\ FilesTyped /\ AccessTyped /\ ProcessTyped /\ CountsTyped /\ Ordered
  BY DEF Typed, TypeOK, Journals, Contracts, FilesTyped, AccessTyped, ProcessTyped,
         CountsTyped

LEMMA PlainTyped ==
  /\ Plain \in Configs /\ Plain.edits = {} /\ ~Plain.route
  /\ NoJournal \in Journals
  <1>1. Plain \in Configs /\ Plain.edits = {} /\ ~Plain.route
    BY DEF Plain, Configs
  <1>2. NoJournal \in Journals
    BY <1>1 DEF NoJournal, Journals
  <1> QED
    BY <1>1, <1>2

LEMMA CommandFields ==
  ASSUME CommandTyped
  PROVE  /\ \A p : Go(p) => CommandTyped'
         /\ End => CommandTyped'
  BY PlainTyped DEF CommandTyped, Go, End, Idle

LEMMA JournalFields ==
  ASSUME journal \in Journals, NEW state, NEW operation, Journal(state, operation)
  PROVE  /\ journal'.state = state /\ journal'.original = journal.original
         /\ journal'.installed = journal.installed
  BY DEF Journal, Journals

LEMMA WithTyped ==
  ASSUME NEW c \in Configs
  PROVE  /\ With(c) \in Configs /\ With(c).edits = c.edits /\ With(c).route
         /\ Without(c) \in Configs /\ Without(c).edits = c.edits /\ ~Without(c).route
  BY DEF With, Without, Configs

LEMMA OpenFields ==
  ASSUME CommandTyped, Open
  PROVE  /\ At("open")
         /\ UNCHANGED <<config, loaded, snippet, backup, journal, public, process, revoked,
                        probed, ghosts>>
         /\ \/ End
            \/ /\ command'.pc = "prepare" /\ command'.does = command.does
               /\ command'.original = config /\ command'.updated = With(config)
               /\ ~snippet /\ backup = {}
  BY DEF Open, files, CommandTyped

LEMMA RecoverJournalFields ==
  ASSUME Typed, RecoverJournal
  PROVE  /\ command'.pc \in {"open", "close"} /\ command'.does = command'.pc
         /\ command'.original = command.original /\ command'.updated = command.updated
  <1>1. CommandTyped /\ command.pc = "recover_journal" /\ Go(command.does)
    BY DEF Typed, RecoverJournal, At
  <1>2. command.does \in {"open", "close"}
    BY <1>1 DEF Typed, Ordered, Recovery
  <1> QED
    BY <1>1, <1>2 DEF Go, CommandTyped
(* What a revocation has seen stays below the generation it writes.        *)
LEMMA RevokeKeeps ==
  ASSUME AccessTyped, Generations, Revoke \/ UNCHANGED <<public, revoked>>, UNCHANGED sessions
  PROVE  (AccessTyped /\ Generations)'
  <1>1. CASE Revoke
    <2>1. public' \in Contracts /\ public'.generation = public.generation + 1
      BY <1>1 DEF Revoke, Disabled, Contracts, AccessTyped
    <2>2. revoked' \subseteq sessions
      BY <1>1 DEF Revoke, AccessTyped
    <2>3. \A s \in sessions : /\ s.generation <= public'.generation
                              /\ s.generation < public'.generation
      BY <2>1 DEF AccessTyped, Generations, Sessions, Contracts
    <2> QED
      BY <2>1, <2>2, <2>3 DEF AccessTyped, Generations
  <1>2. CASE UNCHANGED <<public, revoked>>
    BY <1>2 DEF AccessTyped, Generations
  <1> QED
    BY <1>1, <1>2

(* A command has a point and two configurations.                           *)
LEMMA CommandStep ==
  ASSUME Typed, [Next]_vars
  PROVE  CommandTyped'
  <1> USE TypedFields, CommandFields DEF files, process, ghosts
  <1>1. ASSUME NEW does \in {"open", "close", "start", "stop"}, Begin(does)
       PROVE  CommandTyped'
    BY <1>1, PlainTyped DEF Begin, Idle, CommandTyped
  <1>2. CASE Recovering
    <2>1. CASE Recover
      BY <2>1 DEF Recover
    <2>2. CASE Restore
      BY <2>2 DEF Restore
    <2>3. CASE RecoverReload
      BY <2>3 DEF RecoverReload
    <2>4. CASE RecoverBackup
      BY <2>4 DEF RecoverBackup
    <2>5. CASE RecoverSnippet
      BY <2>5 DEF RecoverSnippet
    <2>6. CASE RecoverRevoke
      BY <2>6 DEF RecoverRevoke
    <2>7. CASE RecoverJournal
      BY <2>7, RecoverJournalFields DEF RecoverJournal
    <2> QED
      BY <1>2, <2>1, <2>2, <2>3, <2>4, <2>5, <2>6, <2>7, Zenon DEF Recovering
  <1>3. CASE Opening
    <2>1. CASE Open
      <3>1. CASE End
        BY <3>1
      <3>2. CASE command' = [command EXCEPT !.pc = "prepare", !.original = config,
                                            !.updated = With(config)]
        BY <3>2, WithTyped DEF CommandTyped
      <3> QED
        BY <2>1, <3>1, <3>2 DEF Open
    <2>2. CASE OpenRefused
      BY <2>2 DEF OpenRefused
    <2>3. CASE Renew
      BY <2>3 DEF Renew
    <2>4. CASE Prepare
      BY <2>4 DEF Prepare
    <2>5. CASE Backup
      BY <2>5 DEF Backup
    <2>6. CASE Snippet
      BY <2>6 DEF Snippet
    <2>7. CASE Check
      BY <2>7 DEF Check
    <2>8. CASE Validate
      BY <2>8 DEF Validate
    <2>9. CASE Install
      BY <2>9 DEF Install
    <2>10. CASE Contract
      BY <2>10 DEF Contract
    <2>11. CASE Reload
      BY <2>11 DEF Reload
    <2>12. CASE Probe
      BY <2>12 DEF Probe
    <2>13. CASE EnableRoute
      BY <2>13 DEF EnableRoute
    <2>14. CASE Activate
      BY <2>14 DEF Activate
    <2> QED
      BY <1>3, <2>1, <2>2, <2>3, <2>4, <2>5, <2>6, <2>7, <2>8, <2>9, <2>10, <2>11, <2>12,
         <2>13, <2>14, Zenon DEF Opening
  <1>4. CASE Undoing
    <2>1. CASE Rollback
      BY <2>1 DEF Rollback
    <2>2. CASE Undo
      BY <2>2 DEF Undo
    <2>3. CASE UndoReload
      BY <2>3 DEF UndoReload
    <2>4. CASE GiveUp
      BY <2>4 DEF GiveUp
    <2>5. CASE CleanSnippet
      BY <2>5 DEF CleanSnippet
    <2>6. CASE CleanBackup
      BY <2>6 DEF CleanBackup
    <2>7. CASE CleanJournal
      BY <2>7 DEF CleanJournal
    <2>8. CASE CleanRevoke
      BY <2>8 DEF CleanRevoke
    <2> QED
      BY <1>4, <2>1, <2>2, <2>3, <2>4, <2>5, <2>6, <2>7, <2>8, Zenon DEF Undoing
  <1>5. CASE Removing
    <2>1. CASE Close
      BY <2>1 DEF Close
    <2>2. CASE Closing
      BY <2>2, WithTyped DEF Closing, CommandTyped
    <2>3. CASE CloseCheck
      BY <2>3 DEF CloseCheck
    <2>4. CASE CloseValidate
      BY <2>4 DEF CloseValidate
    <2>5. CASE CloseInstall
      BY <2>5 DEF CloseInstall
    <2>6. CASE CloseReload
      BY <2>6 DEF CloseReload
    <2>7. CASE CloseProbe
      BY <2>7 DEF CloseProbe
    <2>8. CASE CloseFailed
      BY <2>8 DEF CloseFailed
    <2>9. CASE CloseSnippet
      BY <2>9 DEF CloseSnippet
    <2>10. CASE CloseBackup
      BY <2>10 DEF CloseBackup
    <2>11. CASE Closed
      BY <2>11 DEF Closed
    <2> QED
      BY <1>5, <2>1, <2>2, <2>3, <2>4, <2>5, <2>6, <2>7, <2>8, <2>9, <2>10, <2>11, Zenon DEF
         Removing
  <1>6. CASE Processing
    <2>1. CASE Start
      BY <2>1 DEF Start
    <2>2. ASSUME NEW b \in BOOLEAN, Spawn(b)
         PROVE  CommandTyped'
      BY <2>2 DEF Spawn
    <2>3. CASE Record
      BY <2>3 DEF Record
    <2>4. CASE Ready
      BY <2>4 DEF Ready
    <2>5. CASE NotReady
      BY <2>5 DEF NotReady
    <2>6. CASE Serve
      BY <2>6 DEF Serve, CommandTyped
    <2>7. CASE Die
      BY <2>7 DEF Die, CommandTyped
    <2>8. CASE Stop
      BY <2>8 DEF Stop
    <2>9. CASE Kill
      BY <2>9 DEF Kill
    <2>10. CASE Forget
      BY <2>10 DEF Forget
    <2>11. CASE Quit
      BY <2>11, PlainTyped DEF Quit, Idle, CommandTyped
    <2>12. CASE Leave
      BY <2>12 DEF Leave
    <2> QED
      BY <1>6, <2>1, <2>2, <2>3, <2>4, <2>5, <2>6, <2>7, <2>8, <2>9, <2>10, <2>11, <2>12,
         Zenon DEF Processing
  <1>7. CASE Crash
    BY <1>7 DEF Crash
  <1>8. CASE Login
    BY <1>8 DEF Login, CommandTyped
  <1>9. CASE OperatorReload
    BY <1>9 DEF OperatorReload, CommandTyped
  <1>10. ASSUME NEW e \in Edits, Edit(e)
       PROVE  CommandTyped'
    BY <1>10 DEF Edit, CommandTyped
  <1>11. CASE UNCHANGED vars
    BY <1>11 DEF vars, CommandTyped
  <1> QED
    BY <1>1, <1>2, <1>3, <1>4, <1>5, <1>6, <1>7, <1>8, <1>9, <1>10, <1>11, Zenon DEF Next


(* The files hold what their readers expect.                               *)
LEMMA FilesStep ==
  ASSUME Typed, [Next]_vars
  PROVE  FilesTyped'
  <1> USE TypedFields, PlainTyped, WithTyped DEF FilesTyped, Journal, Journals, files,
     process, ghosts, CommandTyped
  <1>1. ASSUME NEW does \in {"open", "close", "start", "stop"}, Begin(does)
       PROVE  FilesTyped'
    BY <1>1 DEF Begin, Admitted, Alive, Idle
  <1>2. CASE Recovering
    <2>1. CASE Recover
      BY <2>1 DEF Recover
    <2>2. CASE Restore
      BY <2>2 DEF Restore
    <2>3. CASE RecoverReload
      BY <2>3 DEF RecoverReload
    <2>4. CASE RecoverBackup
      BY <2>4 DEF RecoverBackup
    <2>5. CASE RecoverSnippet
      BY <2>5 DEF RecoverSnippet
    <2>6. CASE RecoverRevoke
      BY <2>6 DEF RecoverRevoke
    <2>7. CASE RecoverJournal
      BY <2>7, RecoverJournalFields DEF RecoverJournal
    <2> QED
      BY <1>2, <2>1, <2>2, <2>3, <2>4, <2>5, <2>6, <2>7, Zenon DEF Recovering
  <1>3. CASE Opening
    <2>1. CASE Open
      BY <2>1, OpenFields
    <2>2. CASE OpenRefused
      BY <2>2 DEF OpenRefused
    <2>3. CASE Renew
      BY <2>3 DEF Renew
    <2>4. CASE Prepare
      BY <2>4 DEF Prepare
    <2>5. CASE Backup
      BY <2>5 DEF Backup
    <2>6. CASE Snippet
      BY <2>6 DEF Snippet
    <2>7. CASE Check
      BY <2>7 DEF Check
    <2>8. CASE Validate
      BY <2>8 DEF Validate
    <2>9. CASE Install
      BY <2>9 DEF Install
    <2>10. CASE Contract
      BY <2>10 DEF Contract
    <2>11. CASE Reload
      BY <2>11 DEF Reload
    <2>12. CASE Probe
      BY <2>12 DEF Probe
    <2>13. CASE EnableRoute
      BY <2>13 DEF EnableRoute
    <2>14. CASE Activate
      BY <2>14 DEF Activate
    <2> QED
      BY <1>3, <2>1, <2>2, <2>3, <2>4, <2>5, <2>6, <2>7, <2>8, <2>9, <2>10, <2>11, <2>12,
         <2>13, <2>14, Zenon DEF Opening
  <1>4. CASE Undoing
    <2>1. CASE Rollback
      BY <2>1 DEF Rollback
    <2>2. CASE Undo
      BY <2>2 DEF Undo
    <2>3. CASE UndoReload
      BY <2>3 DEF UndoReload
    <2>4. CASE GiveUp
      BY <2>4 DEF GiveUp, At, Ordered, Reversal
    <2>5. CASE CleanSnippet
      BY <2>5 DEF CleanSnippet
    <2>6. CASE CleanBackup
      BY <2>6 DEF CleanBackup
    <2>7. CASE CleanJournal
      BY <2>7 DEF CleanJournal
    <2>8. CASE CleanRevoke
      BY <2>8 DEF CleanRevoke
    <2> QED
      BY <1>4, <2>1, <2>2, <2>3, <2>4, <2>5, <2>6, <2>7, <2>8, Zenon DEF Undoing
  <1>5. CASE Removing
    <2>1. CASE Close
      BY <2>1 DEF Close
    <2>2. CASE Closing
      BY <2>2 DEF Closing
    <2>3. CASE CloseCheck
      BY <2>3 DEF CloseCheck
    <2>4. CASE CloseValidate
      BY <2>4 DEF CloseValidate
    <2>5. CASE CloseInstall
      BY <2>5 DEF CloseInstall
    <2>6. CASE CloseReload
      BY <2>6 DEF CloseReload
    <2>7. CASE CloseProbe
      BY <2>7 DEF CloseProbe
    <2>8. CASE CloseFailed
      BY <2>8 DEF CloseFailed
    <2>9. CASE CloseSnippet
      BY <2>9 DEF CloseSnippet
    <2>10. CASE CloseBackup
      BY <2>10 DEF CloseBackup
    <2>11. CASE Closed
      BY <2>11 DEF Closed
    <2> QED
      BY <1>5, <2>1, <2>2, <2>3, <2>4, <2>5, <2>6, <2>7, <2>8, <2>9, <2>10, <2>11, Zenon DEF
         Removing
  <1>6. CASE Processing
    <2>1. CASE Start
      BY <2>1 DEF Start
    <2>2. ASSUME NEW b \in BOOLEAN, Spawn(b)
         PROVE  FilesTyped'
      BY <2>2 DEF Spawn
    <2>3. CASE Record
      BY <2>3 DEF Record
    <2>4. CASE Ready
      BY <2>4 DEF Ready
    <2>5. CASE NotReady
      BY <2>5 DEF NotReady
    <2>6. CASE Serve
      BY <2>6 DEF Serve
    <2>7. CASE Die
      BY <2>7 DEF Die
    <2>8. CASE Stop
      BY <2>8 DEF Stop
    <2>9. CASE Kill
      BY <2>9 DEF Kill
    <2>10. CASE Forget
      BY <2>10 DEF Forget
    <2>11. CASE Quit
      BY <2>11 DEF Quit
    <2>12. CASE Leave
      BY <2>12 DEF Leave
    <2> QED
      BY <1>6, <2>1, <2>2, <2>3, <2>4, <2>5, <2>6, <2>7, <2>8, <2>9, <2>10, <2>11, <2>12,
         Zenon DEF Processing
  <1>7. CASE Crash
    BY <1>7 DEF Crash
  <1>8. CASE Login
    BY <1>8 DEF Login, PublicAccess
  <1>9. CASE OperatorReload
    BY <1>9 DEF OperatorReload
  <1>10. ASSUME NEW e \in Edits, Edit(e)
       PROVE  FilesTyped'
    BY <1>10 DEF Edit, Configs
  <1>11. CASE UNCHANGED vars
    BY <1>11 DEF vars
  <1> QED
    BY <1>1, <1>2, <1>3, <1>4, <1>5, <1>6, <1>7, <1>8, <1>9, <1>10, <1>11, Zenon DEF Next


(* The processes are numbered within their bound.                          *)
LEMMA ProcessStep ==
  ASSUME Typed, [Next]_vars
  PROVE  ProcessTyped'
  <1> USE TypedFields, DashboardAssumption DEF ProcessTyped, Alive, files, process, ghosts,
     Ordered, At
  <1>1. ASSUME NEW does \in {"open", "close", "start", "stop"}, Begin(does)
       PROVE  ProcessTyped'
    BY <1>1 DEF Begin, Admitted, Alive, Idle
  <1>2. CASE Recovering
    <2>1. CASE Recover
      BY <2>1 DEF Recover
    <2>2. CASE Restore
      BY <2>2 DEF Restore
    <2>3. CASE RecoverReload
      BY <2>3 DEF RecoverReload
    <2>4. CASE RecoverBackup
      BY <2>4 DEF RecoverBackup
    <2>5. CASE RecoverSnippet
      BY <2>5 DEF RecoverSnippet
    <2>6. CASE RecoverRevoke
      BY <2>6 DEF RecoverRevoke
    <2>7. CASE RecoverJournal
      BY <2>7, RecoverJournalFields DEF RecoverJournal
    <2> QED
      BY <1>2, <2>1, <2>2, <2>3, <2>4, <2>5, <2>6, <2>7, Zenon DEF Recovering
  <1>3. CASE Opening
    <2>1. CASE Open
      BY <2>1, OpenFields
    <2>2. CASE OpenRefused
      BY <2>2 DEF OpenRefused
    <2>3. CASE Renew
      BY <2>3 DEF Renew
    <2>4. CASE Prepare
      BY <2>4 DEF Prepare
    <2>5. CASE Backup
      BY <2>5 DEF Backup
    <2>6. CASE Snippet
      BY <2>6 DEF Snippet
    <2>7. CASE Check
      BY <2>7 DEF Check
    <2>8. CASE Validate
      BY <2>8 DEF Validate
    <2>9. CASE Install
      BY <2>9 DEF Install
    <2>10. CASE Contract
      BY <2>10 DEF Contract
    <2>11. CASE Reload
      BY <2>11 DEF Reload
    <2>12. CASE Probe
      BY <2>12 DEF Probe
    <2>13. CASE EnableRoute
      BY <2>13 DEF EnableRoute
    <2>14. CASE Activate
      BY <2>14 DEF Activate
    <2> QED
      BY <1>3, <2>1, <2>2, <2>3, <2>4, <2>5, <2>6, <2>7, <2>8, <2>9, <2>10, <2>11, <2>12,
         <2>13, <2>14, Zenon DEF Opening
  <1>4. CASE Undoing
    <2>1. CASE Rollback
      BY <2>1 DEF Rollback
    <2>2. CASE Undo
      BY <2>2 DEF Undo
    <2>3. CASE UndoReload
      BY <2>3 DEF UndoReload
    <2>4. CASE GiveUp
      BY <2>4 DEF GiveUp
    <2>5. CASE CleanSnippet
      BY <2>5 DEF CleanSnippet
    <2>6. CASE CleanBackup
      BY <2>6 DEF CleanBackup
    <2>7. CASE CleanJournal
      BY <2>7 DEF CleanJournal
    <2>8. CASE CleanRevoke
      BY <2>8 DEF CleanRevoke
    <2> QED
      BY <1>4, <2>1, <2>2, <2>3, <2>4, <2>5, <2>6, <2>7, <2>8, Zenon DEF Undoing
  <1>5. CASE Removing
    <2>1. CASE Close
      BY <2>1 DEF Close
    <2>2. CASE Closing
      BY <2>2 DEF Closing
    <2>3. CASE CloseCheck
      BY <2>3 DEF CloseCheck
    <2>4. CASE CloseValidate
      BY <2>4 DEF CloseValidate
    <2>5. CASE CloseInstall
      BY <2>5 DEF CloseInstall
    <2>6. CASE CloseReload
      BY <2>6 DEF CloseReload
    <2>7. CASE CloseProbe
      BY <2>7 DEF CloseProbe
    <2>8. CASE CloseFailed
      BY <2>8 DEF CloseFailed
    <2>9. CASE CloseSnippet
      BY <2>9 DEF CloseSnippet
    <2>10. CASE CloseBackup
      BY <2>10 DEF CloseBackup
    <2>11. CASE Closed
      BY <2>11 DEF Closed
    <2> QED
      BY <1>5, <2>1, <2>2, <2>3, <2>4, <2>5, <2>6, <2>7, <2>8, <2>9, <2>10, <2>11, Zenon DEF
         Removing
  <1>6. CASE Processing
    <2>1. CASE Start
      BY <2>1 DEF Start
    <2>2. ASSUME NEW b \in BOOLEAN, Spawn(b)
         PROVE  ProcessTyped'
      BY <2>2 DEF Spawn
    <2>3. CASE Record
      BY <2>3 DEF Record
    <2>4. CASE Ready
      BY <2>4 DEF Ready
    <2>5. CASE NotReady
      BY <2>5 DEF NotReady
    <2>6. CASE Serve
      BY <2>6 DEF Serve
    <2>7. CASE Die
      BY <2>7 DEF Die
    <2>8. CASE Stop
      BY <2>8 DEF Stop
    <2>9. CASE Kill
      BY <2>9 DEF Kill
    <2>10. CASE Forget
      BY <2>10 DEF Forget
    <2>11. CASE Quit
      BY <2>11 DEF Quit
    <2>12. CASE Leave
      BY <2>12 DEF Leave
    <2> QED
      BY <1>6, <2>1, <2>2, <2>3, <2>4, <2>5, <2>6, <2>7, <2>8, <2>9, <2>10, <2>11, <2>12,
         Zenon DEF Processing
  <1>7. CASE Crash
    BY <1>7 DEF Crash
  <1>8. CASE Login
    BY <1>8 DEF Login, PublicAccess
  <1>9. CASE OperatorReload
    BY <1>9 DEF OperatorReload
  <1>10. ASSUME NEW e \in Edits, Edit(e)
       PROVE  ProcessTyped'
    BY <1>10 DEF Edit, Windows
  <1>11. CASE UNCHANGED vars
    BY <1>11 DEF vars
  <1> QED
    BY <1>1, <1>2, <1>3, <1>4, <1>5, <1>6, <1>7, <1>8, <1>9, <1>10, <1>11, Zenon DEF Next


(* The edits and the commands stay within their bounds.                    *)
LEMMA CountsStep ==
  ASSUME Typed, [Next]_vars
  PROVE  CountsTyped'
  <1> USE TypedFields, DashboardAssumption DEF CountsTyped, files, process, ghosts, Edits
  <1>1. ASSUME NEW does \in {"open", "close", "start", "stop"}, Begin(does)
       PROVE  CountsTyped'
    BY <1>1 DEF Begin, Admitted, Alive, Idle
  <1>2. CASE Recovering
    <2>1. CASE Recover
      BY <2>1 DEF Recover
    <2>2. CASE Restore
      BY <2>2 DEF Restore
    <2>3. CASE RecoverReload
      BY <2>3 DEF RecoverReload
    <2>4. CASE RecoverBackup
      BY <2>4 DEF RecoverBackup
    <2>5. CASE RecoverSnippet
      BY <2>5 DEF RecoverSnippet
    <2>6. CASE RecoverRevoke
      BY <2>6 DEF RecoverRevoke
    <2>7. CASE RecoverJournal
      BY <2>7, RecoverJournalFields DEF RecoverJournal
    <2> QED
      BY <1>2, <2>1, <2>2, <2>3, <2>4, <2>5, <2>6, <2>7, Zenon DEF Recovering
  <1>3. CASE Opening
    <2>1. CASE Open
      BY <2>1, OpenFields
    <2>2. CASE OpenRefused
      BY <2>2 DEF OpenRefused
    <2>3. CASE Renew
      BY <2>3 DEF Renew
    <2>4. CASE Prepare
      BY <2>4 DEF Prepare
    <2>5. CASE Backup
      BY <2>5 DEF Backup
    <2>6. CASE Snippet
      BY <2>6 DEF Snippet
    <2>7. CASE Check
      BY <2>7 DEF Check
    <2>8. CASE Validate
      BY <2>8 DEF Validate
    <2>9. CASE Install
      BY <2>9 DEF Install
    <2>10. CASE Contract
      BY <2>10 DEF Contract
    <2>11. CASE Reload
      BY <2>11 DEF Reload
    <2>12. CASE Probe
      BY <2>12 DEF Probe
    <2>13. CASE EnableRoute
      BY <2>13 DEF EnableRoute
    <2>14. CASE Activate
      BY <2>14 DEF Activate
    <2> QED
      BY <1>3, <2>1, <2>2, <2>3, <2>4, <2>5, <2>6, <2>7, <2>8, <2>9, <2>10, <2>11, <2>12,
         <2>13, <2>14, Zenon DEF Opening
  <1>4. CASE Undoing
    <2>1. CASE Rollback
      BY <2>1 DEF Rollback
    <2>2. CASE Undo
      BY <2>2 DEF Undo
    <2>3. CASE UndoReload
      BY <2>3 DEF UndoReload
    <2>4. CASE GiveUp
      BY <2>4 DEF GiveUp
    <2>5. CASE CleanSnippet
      BY <2>5 DEF CleanSnippet
    <2>6. CASE CleanBackup
      BY <2>6 DEF CleanBackup
    <2>7. CASE CleanJournal
      BY <2>7 DEF CleanJournal
    <2>8. CASE CleanRevoke
      BY <2>8 DEF CleanRevoke
    <2> QED
      BY <1>4, <2>1, <2>2, <2>3, <2>4, <2>5, <2>6, <2>7, <2>8, Zenon DEF Undoing
  <1>5. CASE Removing
    <2>1. CASE Close
      BY <2>1 DEF Close
    <2>2. CASE Closing
      BY <2>2 DEF Closing
    <2>3. CASE CloseCheck
      BY <2>3 DEF CloseCheck
    <2>4. CASE CloseValidate
      BY <2>4 DEF CloseValidate
    <2>5. CASE CloseInstall
      BY <2>5 DEF CloseInstall
    <2>6. CASE CloseReload
      BY <2>6 DEF CloseReload
    <2>7. CASE CloseProbe
      BY <2>7 DEF CloseProbe
    <2>8. CASE CloseFailed
      BY <2>8 DEF CloseFailed
    <2>9. CASE CloseSnippet
      BY <2>9 DEF CloseSnippet
    <2>10. CASE CloseBackup
      BY <2>10 DEF CloseBackup
    <2>11. CASE Closed
      BY <2>11 DEF Closed
    <2> QED
      BY <1>5, <2>1, <2>2, <2>3, <2>4, <2>5, <2>6, <2>7, <2>8, <2>9, <2>10, <2>11, Zenon DEF
         Removing
  <1>6. CASE Processing
    <2>1. CASE Start
      BY <2>1 DEF Start
    <2>2. ASSUME NEW b \in BOOLEAN, Spawn(b)
         PROVE  CountsTyped'
      BY <2>2 DEF Spawn
    <2>3. CASE Record
      BY <2>3 DEF Record
    <2>4. CASE Ready
      BY <2>4 DEF Ready
    <2>5. CASE NotReady
      BY <2>5 DEF NotReady
    <2>6. CASE Serve
      BY <2>6 DEF Serve
    <2>7. CASE Die
      BY <2>7 DEF Die
    <2>8. CASE Stop
      BY <2>8 DEF Stop
    <2>9. CASE Kill
      BY <2>9 DEF Kill
    <2>10. CASE Forget
      BY <2>10 DEF Forget
    <2>11. CASE Quit
      BY <2>11 DEF Quit
    <2>12. CASE Leave
      BY <2>12 DEF Leave
    <2> QED
      BY <1>6, <2>1, <2>2, <2>3, <2>4, <2>5, <2>6, <2>7, <2>8, <2>9, <2>10, <2>11, <2>12,
         Zenon DEF Processing
  <1>7. CASE Crash
    BY <1>7 DEF Crash
  <1>8. CASE Login
    BY <1>8 DEF Login, PublicAccess
  <1>9. CASE OperatorReload
    BY <1>9 DEF OperatorReload
  <1>10. ASSUME NEW e \in Edits, Edit(e)
       PROVE  CountsTyped'
    BY <1>10 DEF Edit, Windows
  <1>11. CASE UNCHANGED vars
    BY <1>11 DEF vars
  <1> QED
    BY <1>1, <1>2, <1>3, <1>4, <1>5, <1>6, <1>7, <1>8, <1>9, <1>10, <1>11, Zenon DEF Next


(* A session is never of a later generation than the contract, and one     *)
(* that a revocation has seen is of an earlier one.                        *)
LEMMA AccessStep ==
  ASSUME Typed, Generations, [Next]_vars
  PROVE  (AccessTyped /\ Generations)'
  <1> USE TypedFields DEF AccessTyped, Generations, Contracts, Sessions, Revoke,
     RevokePublic, Disabled, Enabled, Valid, ProcessTyped, files, process, ghosts
  <1>1. ASSUME NEW does \in {"open", "close", "start", "stop"}, Begin(does)
       PROVE  (AccessTyped /\ Generations)'
    BY <1>1 DEF Begin, Admitted, Alive, Idle
  <1>2. CASE Recovering
    <2>1. CASE Recover
      BY <2>1 DEF Recover
    <2>2. CASE Restore
      BY <2>2 DEF Restore
    <2>3. CASE RecoverReload
      BY <2>3 DEF RecoverReload
    <2>4. CASE RecoverBackup
      BY <2>4 DEF RecoverBackup
    <2>5. CASE RecoverSnippet
      BY <2>5 DEF RecoverSnippet
    <2>6. CASE RecoverRevoke
      BY <2>6 DEF RecoverRevoke
    <2>7. CASE RecoverJournal
      BY <2>7, RecoverJournalFields DEF RecoverJournal
    <2> QED
      BY <1>2, <2>1, <2>2, <2>3, <2>4, <2>5, <2>6, <2>7, Zenon DEF Recovering
  <1>3. CASE Opening
    <2>1. CASE Open
      BY <2>1, OpenFields
    <2>2. CASE OpenRefused
      BY <2>2 DEF OpenRefused
    <2>3. CASE Renew
      BY <2>3 DEF Renew
    <2>4. CASE Prepare
      BY <2>4 DEF Prepare
    <2>5. CASE Backup
      BY <2>5 DEF Backup
    <2>6. CASE Snippet
      BY <2>6 DEF Snippet
    <2>7. CASE Check
      BY <2>7, RevokeKeeps DEF Check
    <2>8. CASE Validate
      BY <2>8 DEF Validate
    <2>9. CASE Install
      BY <2>9 DEF Install
    <2>10. CASE Contract
      BY <2>10 DEF Contract
    <2>11. CASE Reload
      BY <2>11 DEF Reload
    <2>12. CASE Probe
      BY <2>12 DEF Probe
    <2>13. CASE EnableRoute
      <3>1. UNCHANGED <<sessions, revoked>> /\ (public' = Enabled \/ public' = public)
        BY <2>13 DEF EnableRoute
      <3>2. CASE public' = Enabled
        BY <3>1, <3>2
      <3>3. CASE public' = public
        BY <3>1, <3>3
      <3> QED
        BY <3>1, <3>2, <3>3
    <2>14. CASE Activate
      BY <2>14 DEF Activate
    <2> QED
      BY <1>3, <2>1, <2>2, <2>3, <2>4, <2>5, <2>6, <2>7, <2>8, <2>9, <2>10, <2>11, <2>12,
         <2>13, <2>14, Zenon DEF Opening
  <1>4. CASE Undoing
    <2>1. CASE Rollback
      BY <2>1 DEF Rollback
    <2>2. CASE Undo
      BY <2>2 DEF Undo
    <2>3. CASE UndoReload
      BY <2>3 DEF UndoReload
    <2>4. CASE GiveUp
      BY <2>4 DEF GiveUp
    <2>5. CASE CleanSnippet
      BY <2>5 DEF CleanSnippet
    <2>6. CASE CleanBackup
      BY <2>6 DEF CleanBackup
    <2>7. CASE CleanJournal
      BY <2>7 DEF CleanJournal
    <2>8. CASE CleanRevoke
      BY <2>8 DEF CleanRevoke
    <2> QED
      BY <1>4, <2>1, <2>2, <2>3, <2>4, <2>5, <2>6, <2>7, <2>8, Zenon DEF Undoing
  <1>5. CASE Removing
    <2>1. CASE Close
      BY <2>1 DEF Close
    <2>2. CASE Closing
      BY <2>2 DEF Closing
    <2>3. CASE CloseCheck
      BY <2>3 DEF CloseCheck
    <2>4. CASE CloseValidate
      BY <2>4 DEF CloseValidate
    <2>5. CASE CloseInstall
      BY <2>5 DEF CloseInstall
    <2>6. CASE CloseReload
      BY <2>6 DEF CloseReload
    <2>7. CASE CloseProbe
      BY <2>7 DEF CloseProbe
    <2>8. CASE CloseFailed
      BY <2>8 DEF CloseFailed
    <2>9. CASE CloseSnippet
      BY <2>9 DEF CloseSnippet
    <2>10. CASE CloseBackup
      BY <2>10 DEF CloseBackup
    <2>11. CASE Closed
      BY <2>11 DEF Closed
    <2> QED
      BY <1>5, <2>1, <2>2, <2>3, <2>4, <2>5, <2>6, <2>7, <2>8, <2>9, <2>10, <2>11, Zenon DEF
         Removing
  <1>6. CASE Processing
    <2>1. CASE Start
      BY <2>1, RevokeKeeps DEF Start
    <2>2. ASSUME NEW b \in BOOLEAN, Spawn(b)
         PROVE  (AccessTyped /\ Generations)'
      BY <2>2 DEF Spawn
    <2>3. CASE Record
      BY <2>3 DEF Record
    <2>4. CASE Ready
      BY <2>4 DEF Ready
    <2>5. CASE NotReady
      BY <2>5 DEF NotReady
    <2>6. CASE Serve
      BY <2>6 DEF Serve
    <2>7. CASE Die
      BY <2>7 DEF Die
    <2>8. CASE Stop
      BY <2>8, RevokeKeeps DEF Stop
    <2>9. CASE Kill
      BY <2>9 DEF Kill
    <2>10. CASE Forget
      BY <2>10 DEF Forget
    <2>11. CASE Quit
      BY <2>11 DEF Quit
    <2>12. CASE Leave
      BY <2>12, RevokeKeeps DEF Leave
    <2> QED
      BY <1>6, <2>1, <2>2, <2>3, <2>4, <2>5, <2>6, <2>7, <2>8, <2>9, <2>10, <2>11, <2>12,
         Zenon DEF Processing
  <1>7. CASE Crash
    BY <1>7 DEF Crash
  <1>8. CASE Login
    BY <1>8 DEF Login, PublicAccess
  <1>9. CASE OperatorReload
    BY <1>9 DEF OperatorReload
  <1>10. ASSUME NEW e \in Edits, Edit(e)
       PROVE  (AccessTyped /\ Generations)'
    BY <1>10 DEF Edit, Windows
  <1>11. CASE UNCHANGED vars
    BY <1>11 DEF vars
  <1> QED
    BY <1>1, <1>2, <1>3, <1>4, <1>5, <1>6, <1>7, <1>8, <1>9, <1>10, <1>11, Zenon DEF Next


(* A command never leaves the writes of its own kind.                      *)
LEMMA OrderedStep ==
  ASSUME Typed, [Next]_vars
  PROVE  Ordered'
  <1> USE TypedFields DEF At, Go, End, Idle, CommandTyped, files, process, ghosts,Ordered,
     Recovery, Publication, Withdrawal, Reversal, Cleanup
  <1>1. ASSUME NEW does \in {"open", "close", "start", "stop"}, Begin(does)
       PROVE  Ordered'
    BY <1>1 DEF Begin, Admitted, Alive, Idle
  <1>2. CASE Recovering
    <2>1. CASE Recover
      BY <2>1 DEF Recover
    <2>2. CASE Restore
      BY <2>2 DEF Restore
    <2>3. CASE RecoverReload
      BY <2>3 DEF RecoverReload
    <2>4. CASE RecoverBackup
      BY <2>4 DEF RecoverBackup
    <2>5. CASE RecoverSnippet
      BY <2>5 DEF RecoverSnippet
    <2>6. CASE RecoverRevoke
      BY <2>6 DEF RecoverRevoke
    <2>7. CASE RecoverJournal
      BY <2>7, RecoverJournalFields DEF RecoverJournal
    <2> QED
      BY <1>2, <2>1, <2>2, <2>3, <2>4, <2>5, <2>6, <2>7, Zenon DEF Recovering
  <1>3. CASE Opening
    <2>1. CASE Open
      BY <2>1, OpenFields
    <2>2. CASE OpenRefused
      BY <2>2 DEF OpenRefused
    <2>3. CASE Renew
      BY <2>3 DEF Renew
    <2>4. CASE Prepare
      BY <2>4 DEF Prepare
    <2>5. CASE Backup
      BY <2>5 DEF Backup
    <2>6. CASE Snippet
      BY <2>6 DEF Snippet
    <2>7. CASE Check
      BY <2>7 DEF Check
    <2>8. CASE Validate
      BY <2>8 DEF Validate
    <2>9. CASE Install
      BY <2>9 DEF Install
    <2>10. CASE Contract
      BY <2>10 DEF Contract
    <2>11. CASE Reload
      BY <2>11 DEF Reload
    <2>12. CASE Probe
      BY <2>12 DEF Probe
    <2>13. CASE EnableRoute
      BY <2>13 DEF EnableRoute
    <2>14. CASE Activate
      BY <2>14 DEF Activate
    <2> QED
      BY <1>3, <2>1, <2>2, <2>3, <2>4, <2>5, <2>6, <2>7, <2>8, <2>9, <2>10, <2>11, <2>12,
         <2>13, <2>14, Zenon DEF Opening
  <1>4. CASE Undoing
    <2>1. CASE Rollback
      BY <2>1 DEF Rollback
    <2>2. CASE Undo
      BY <2>2 DEF Undo
    <2>3. CASE UndoReload
      BY <2>3 DEF UndoReload
    <2>4. CASE GiveUp
      BY <2>4 DEF GiveUp
    <2>5. CASE CleanSnippet
      BY <2>5 DEF CleanSnippet
    <2>6. CASE CleanBackup
      BY <2>6 DEF CleanBackup
    <2>7. CASE CleanJournal
      BY <2>7 DEF CleanJournal
    <2>8. CASE CleanRevoke
      BY <2>8 DEF CleanRevoke
    <2> QED
      BY <1>4, <2>1, <2>2, <2>3, <2>4, <2>5, <2>6, <2>7, <2>8, Zenon DEF Undoing
  <1>5. CASE Removing
    <2>1. CASE Close
      BY <2>1 DEF Close
    <2>2. CASE Closing
      BY <2>2 DEF Closing
    <2>3. CASE CloseCheck
      BY <2>3 DEF CloseCheck
    <2>4. CASE CloseValidate
      BY <2>4 DEF CloseValidate
    <2>5. CASE CloseInstall
      BY <2>5 DEF CloseInstall
    <2>6. CASE CloseReload
      BY <2>6 DEF CloseReload
    <2>7. CASE CloseProbe
      BY <2>7 DEF CloseProbe
    <2>8. CASE CloseFailed
      BY <2>8 DEF CloseFailed
    <2>9. CASE CloseSnippet
      BY <2>9 DEF CloseSnippet
    <2>10. CASE CloseBackup
      BY <2>10 DEF CloseBackup
    <2>11. CASE Closed
      BY <2>11 DEF Closed
    <2> QED
      BY <1>5, <2>1, <2>2, <2>3, <2>4, <2>5, <2>6, <2>7, <2>8, <2>9, <2>10, <2>11, Zenon DEF
         Removing
  <1>6. CASE Processing
    <2>1. CASE Start
      BY <2>1 DEF Start
    <2>2. ASSUME NEW b \in BOOLEAN, Spawn(b)
         PROVE  Ordered'
      BY <2>2 DEF Spawn
    <2>3. CASE Record
      BY <2>3 DEF Record
    <2>4. CASE Ready
      BY <2>4 DEF Ready
    <2>5. CASE NotReady
      BY <2>5 DEF NotReady
    <2>6. CASE Serve
      BY <2>6 DEF Serve
    <2>7. CASE Die
      BY <2>7 DEF Die
    <2>8. CASE Stop
      BY <2>8 DEF Stop
    <2>9. CASE Kill
      BY <2>9 DEF Kill
    <2>10. CASE Forget
      BY <2>10 DEF Forget
    <2>11. CASE Quit
      BY <2>11 DEF Quit
    <2>12. CASE Leave
      BY <2>12 DEF Leave
    <2> QED
      BY <1>6, <2>1, <2>2, <2>3, <2>4, <2>5, <2>6, <2>7, <2>8, <2>9, <2>10, <2>11, <2>12,
         Zenon DEF Processing
  <1>7. CASE Crash
    BY <1>7 DEF Crash
  <1>8. CASE Login
    BY <1>8 DEF Login, PublicAccess
  <1>9. CASE OperatorReload
    BY <1>9 DEF OperatorReload
  <1>10. ASSUME NEW e \in Edits, Edit(e)
       PROVE  Ordered'
    BY <1>10 DEF Edit, Windows
  <1>11. CASE UNCHANGED vars
    BY <1>11 DEF vars
  <1> QED
    BY <1>1, <1>2, <1>3, <1>4, <1>5, <1>6, <1>7, <1>8, <1>9, <1>10, <1>11, Zenon DEF Next


(* A contract is enabled only behind a probe of the newest instance, and a *)
(* new instance is spawned only behind a revocation.                       *)
LEMMA PrivateStep ==
  ASSUME Typed, Private, [Next]_vars
  PROVE  Private'
  <1> USE TypedFields DEF At, Go, End, Idle, CommandTyped, files, process, ghosts, Private,
     Revoke, Disabled, RevokePublic, Enabled, Contracts
  <1>1. ASSUME NEW does \in {"open", "close", "start", "stop"}, Begin(does)
       PROVE  Private'
    BY <1>1 DEF Begin, Admitted, Alive, Idle
  <1>2. CASE Recovering
    <2>1. CASE Recover
      BY <2>1 DEF Recover
    <2>2. CASE Restore
      BY <2>2 DEF Restore
    <2>3. CASE RecoverReload
      BY <2>3 DEF RecoverReload
    <2>4. CASE RecoverBackup
      BY <2>4 DEF RecoverBackup
    <2>5. CASE RecoverSnippet
      BY <2>5 DEF RecoverSnippet
    <2>6. CASE RecoverRevoke
      BY <2>6 DEF RecoverRevoke
    <2>7. CASE RecoverJournal
      BY <2>7, RecoverJournalFields DEF RecoverJournal
    <2> QED
      BY <1>2, <2>1, <2>2, <2>3, <2>4, <2>5, <2>6, <2>7, Zenon DEF Recovering
  <1>3. CASE Opening
    <2>1. CASE Open
      BY <2>1, OpenFields
    <2>2. CASE OpenRefused
      BY <2>2 DEF OpenRefused
    <2>3. CASE Renew
      BY <2>3 DEF Renew
    <2>4. CASE Prepare
      BY <2>4 DEF Prepare
    <2>5. CASE Backup
      BY <2>5 DEF Backup
    <2>6. CASE Snippet
      BY <2>6 DEF Snippet
    <2>7. CASE Check
      BY <2>7 DEF Check
    <2>8. CASE Validate
      BY <2>8 DEF Validate
    <2>9. CASE Install
      BY <2>9 DEF Install
    <2>10. CASE Contract
      BY <2>10 DEF Contract
    <2>11. CASE Reload
      BY <2>11 DEF Reload
    <2>12. CASE Probe
      BY <2>12 DEF Probe
    <2>13. CASE EnableRoute
      BY <2>13 DEF EnableRoute
    <2>14. CASE Activate
      BY <2>14 DEF Activate
    <2> QED
      BY <1>3, <2>1, <2>2, <2>3, <2>4, <2>5, <2>6, <2>7, <2>8, <2>9, <2>10, <2>11, <2>12,
         <2>13, <2>14, Zenon DEF Opening
  <1>4. CASE Undoing
    <2>1. CASE Rollback
      BY <2>1 DEF Rollback
    <2>2. CASE Undo
      BY <2>2 DEF Undo
    <2>3. CASE UndoReload
      BY <2>3 DEF UndoReload
    <2>4. CASE GiveUp
      BY <2>4 DEF GiveUp
    <2>5. CASE CleanSnippet
      BY <2>5 DEF CleanSnippet
    <2>6. CASE CleanBackup
      BY <2>6 DEF CleanBackup
    <2>7. CASE CleanJournal
      BY <2>7 DEF CleanJournal
    <2>8. CASE CleanRevoke
      BY <2>8 DEF CleanRevoke
    <2> QED
      BY <1>4, <2>1, <2>2, <2>3, <2>4, <2>5, <2>6, <2>7, <2>8, Zenon DEF Undoing
  <1>5. CASE Removing
    <2>1. CASE Close
      BY <2>1 DEF Close
    <2>2. CASE Closing
      BY <2>2 DEF Closing
    <2>3. CASE CloseCheck
      BY <2>3 DEF CloseCheck
    <2>4. CASE CloseValidate
      BY <2>4 DEF CloseValidate
    <2>5. CASE CloseInstall
      BY <2>5 DEF CloseInstall
    <2>6. CASE CloseReload
      BY <2>6 DEF CloseReload
    <2>7. CASE CloseProbe
      BY <2>7 DEF CloseProbe
    <2>8. CASE CloseFailed
      BY <2>8 DEF CloseFailed
    <2>9. CASE CloseSnippet
      BY <2>9 DEF CloseSnippet
    <2>10. CASE CloseBackup
      BY <2>10 DEF CloseBackup
    <2>11. CASE Closed
      BY <2>11 DEF Closed
    <2> QED
      BY <1>5, <2>1, <2>2, <2>3, <2>4, <2>5, <2>6, <2>7, <2>8, <2>9, <2>10, <2>11, Zenon DEF
         Removing
  <1>6. CASE Processing
    <2>1. CASE Start
      BY <2>1 DEF Start
    <2>2. ASSUME NEW b \in BOOLEAN, Spawn(b)
         PROVE  Private'
      BY <2>2 DEF Spawn
    <2>3. CASE Record
      BY <2>3 DEF Record
    <2>4. CASE Ready
      BY <2>4 DEF Ready
    <2>5. CASE NotReady
      BY <2>5 DEF NotReady
    <2>6. CASE Serve
      BY <2>6 DEF Serve
    <2>7. CASE Die
      BY <2>7 DEF Die
    <2>8. CASE Stop
      BY <2>8 DEF Stop
    <2>9. CASE Kill
      BY <2>9 DEF Kill
    <2>10. CASE Forget
      BY <2>10 DEF Forget
    <2>11. CASE Quit
      BY <2>11 DEF Quit
    <2>12. CASE Leave
      BY <2>12 DEF Leave
    <2> QED
      BY <1>6, <2>1, <2>2, <2>3, <2>4, <2>5, <2>6, <2>7, <2>8, <2>9, <2>10, <2>11, <2>12,
         Zenon DEF Processing
  <1>7. CASE Crash
    BY <1>7 DEF Crash
  <1>8. CASE Login
    BY <1>8 DEF Login, PublicAccess
  <1>9. CASE OperatorReload
    BY <1>9 DEF OperatorReload
  <1>10. ASSUME NEW e \in Edits, Edit(e)
       PROVE  Private'
    BY <1>10 DEF Edit, Windows
  <1>11. CASE UNCHANGED vars
    BY <1>11 DEF vars
  <1> QED
    BY <1>1, <1>2, <1>3, <1>4, <1>5, <1>6, <1>7, <1>8, <1>9, <1>10, <1>11, Zenon DEF Next


(* The backup holds the configuration the journal names as the original.   *)
LEMMA JournalledStep ==
  ASSUME Typed, Journalled, Saved, Loading, [Next]_vars
  PROVE  Journalled'
  <1> USE TypedFields, PlainTyped, JournalFields DEF At, Go, End, Idle, CommandTyped, files,
     process, ghosts, Journalled, Emptied, NoJournal
  <1>1. ASSUME NEW does \in {"open", "close", "start", "stop"}, Begin(does)
       PROVE  Journalled'
    BY <1>1 DEF Begin, Admitted, Alive, Idle
  <1>2. CASE Recovering
    <2>1. CASE Recover
      BY <2>1 DEF Recover
    <2>2. CASE Restore
      BY <2>2 DEF Restore
    <2>3. CASE RecoverReload
      BY <2>3 DEF RecoverReload
    <2>4. CASE RecoverBackup
      BY <2>4 DEF RecoverBackup
    <2>5. CASE RecoverSnippet
      BY <2>5 DEF RecoverSnippet
    <2>6. CASE RecoverRevoke
      BY <2>6 DEF RecoverRevoke
    <2>7. CASE RecoverJournal
      BY <2>7, RecoverJournalFields DEF RecoverJournal
    <2> QED
      BY <1>2, <2>1, <2>2, <2>3, <2>4, <2>5, <2>6, <2>7, Zenon DEF Recovering
  <1>3. CASE Opening
    <2>1. CASE Open
      BY <2>1, OpenFields
    <2>2. CASE OpenRefused
      BY <2>2 DEF OpenRefused
    <2>3. CASE Renew
      BY <2>3 DEF Renew
    <2>4. CASE Prepare
      BY <2>4 DEF Prepare, Saved, Loading, Publication
    <2>5. CASE Backup
      BY <2>5 DEF Backup
    <2>6. CASE Snippet
      BY <2>6 DEF Snippet
    <2>7. CASE Check
      BY <2>7 DEF Check
    <2>8. CASE Validate
      BY <2>8 DEF Validate
    <2>9. CASE Install
      BY <2>9 DEF Install
    <2>10. CASE Contract
      BY <2>10 DEF Contract
    <2>11. CASE Reload
      BY <2>11 DEF Reload
    <2>12. CASE Probe
      BY <2>12 DEF Probe
    <2>13. CASE EnableRoute
      BY <2>13 DEF EnableRoute
    <2>14. CASE Activate
      BY <2>14 DEF Activate
    <2> QED
      BY <1>3, <2>1, <2>2, <2>3, <2>4, <2>5, <2>6, <2>7, <2>8, <2>9, <2>10, <2>11, <2>12,
         <2>13, <2>14, Zenon DEF Opening
  <1>4. CASE Undoing
    <2>1. CASE Rollback
      BY <2>1 DEF Rollback
    <2>2. CASE Undo
      BY <2>2 DEF Undo
    <2>3. CASE UndoReload
      BY <2>3 DEF UndoReload
    <2>4. CASE GiveUp
      BY <2>4 DEF GiveUp
    <2>5. CASE CleanSnippet
      BY <2>5 DEF CleanSnippet
    <2>6. CASE CleanBackup
      BY <2>6 DEF CleanBackup
    <2>7. CASE CleanJournal
      BY <2>7 DEF CleanJournal
    <2>8. CASE CleanRevoke
      BY <2>8 DEF CleanRevoke
    <2> QED
      BY <1>4, <2>1, <2>2, <2>3, <2>4, <2>5, <2>6, <2>7, <2>8, Zenon DEF Undoing
  <1>5. CASE Removing
    <2>1. CASE Close
      BY <2>1 DEF Close
    <2>2. CASE Closing
      BY <2>2 DEF Closing
    <2>3. CASE CloseCheck
      BY <2>3 DEF CloseCheck
    <2>4. CASE CloseValidate
      BY <2>4 DEF CloseValidate
    <2>5. CASE CloseInstall
      BY <2>5 DEF CloseInstall
    <2>6. CASE CloseReload
      BY <2>6 DEF CloseReload
    <2>7. CASE CloseProbe
      BY <2>7 DEF CloseProbe
    <2>8. CASE CloseFailed
      BY <2>8 DEF CloseFailed
    <2>9. CASE CloseSnippet
      BY <2>9 DEF CloseSnippet
    <2>10. CASE CloseBackup
      BY <2>10 DEF CloseBackup
    <2>11. CASE Closed
      BY <2>11 DEF Closed
    <2> QED
      BY <1>5, <2>1, <2>2, <2>3, <2>4, <2>5, <2>6, <2>7, <2>8, <2>9, <2>10, <2>11, Zenon DEF
         Removing
  <1>6. CASE Processing
    <2>1. CASE Start
      BY <2>1 DEF Start
    <2>2. ASSUME NEW b \in BOOLEAN, Spawn(b)
         PROVE  Journalled'
      BY <2>2 DEF Spawn
    <2>3. CASE Record
      BY <2>3 DEF Record
    <2>4. CASE Ready
      BY <2>4 DEF Ready
    <2>5. CASE NotReady
      BY <2>5 DEF NotReady
    <2>6. CASE Serve
      BY <2>6 DEF Serve
    <2>7. CASE Die
      BY <2>7 DEF Die
    <2>8. CASE Stop
      BY <2>8 DEF Stop
    <2>9. CASE Kill
      BY <2>9 DEF Kill
    <2>10. CASE Forget
      BY <2>10 DEF Forget
    <2>11. CASE Quit
      BY <2>11 DEF Quit
    <2>12. CASE Leave
      BY <2>12 DEF Leave
    <2> QED
      BY <1>6, <2>1, <2>2, <2>3, <2>4, <2>5, <2>6, <2>7, <2>8, <2>9, <2>10, <2>11, <2>12,
         Zenon DEF Processing
  <1>7. CASE Crash
    BY <1>7 DEF Crash
  <1>8. CASE Login
    BY <1>8 DEF Login, PublicAccess
  <1>9. CASE OperatorReload
    BY <1>9 DEF OperatorReload
  <1>10. ASSUME NEW e \in Edits, Edit(e)
       PROVE  Journalled'
    BY <1>10 DEF Edit, Windows
  <1>11. CASE UNCHANGED vars
    BY <1>11 DEF vars
  <1> QED
    BY <1>1, <1>2, <1>3, <1>4, <1>5, <1>6, <1>7, <1>8, <1>9, <1>10, <1>11, Zenon DEF Next


(* A configuration is replaced only by one with its edits, or within the   *)
(* window between a check and its write.                                   *)
LEMMA SavedStep ==
  ASSUME Typed, Journalled, Saved, [Next]_vars
  PROVE  Saved'
  <1> USE TypedFields, PlainTyped, WithTyped, JournalFields DEF At, Go, End, Idle,
     CommandTyped, files, process, ghosts, Saved, Kept, Journalled, Configs
  <1>1. ASSUME NEW does \in {"open", "close", "start", "stop"}, Begin(does)
       PROVE  Saved'
    BY <1>1 DEF Begin, Admitted, Alive, Idle
  <1>2. CASE Recovering
    <2>1. CASE Recover
      BY <2>1 DEF Recover
    <2>2. CASE Restore
      BY <2>2 DEF Restore
    <2>3. CASE RecoverReload
      BY <2>3 DEF RecoverReload
    <2>4. CASE RecoverBackup
      BY <2>4 DEF RecoverBackup
    <2>5. CASE RecoverSnippet
      BY <2>5 DEF RecoverSnippet
    <2>6. CASE RecoverRevoke
      BY <2>6 DEF RecoverRevoke
    <2>7. CASE RecoverJournal
      BY <2>7, RecoverJournalFields DEF RecoverJournal
    <2> QED
      BY <1>2, <2>1, <2>2, <2>3, <2>4, <2>5, <2>6, <2>7, Zenon DEF Recovering
  <1>3. CASE Opening
    <2>1. CASE Open
      BY <2>1, OpenFields, WithTyped
    <2>2. CASE OpenRefused
      BY <2>2 DEF OpenRefused
    <2>3. CASE Renew
      BY <2>3 DEF Renew
    <2>4. CASE Prepare
      BY <2>4 DEF Prepare
    <2>5. CASE Backup
      BY <2>5 DEF Backup
    <2>6. CASE Snippet
      BY <2>6 DEF Snippet
    <2>7. CASE Check
      BY <2>7 DEF Check
    <2>8. CASE Validate
      BY <2>8 DEF Validate
    <2>9. CASE Install
      BY <2>9 DEF Install
    <2>10. CASE Contract
      BY <2>10 DEF Contract
    <2>11. CASE Reload
      BY <2>11 DEF Reload
    <2>12. CASE Probe
      BY <2>12 DEF Probe
    <2>13. CASE EnableRoute
      BY <2>13 DEF EnableRoute
    <2>14. CASE Activate
      BY <2>14 DEF Activate
    <2> QED
      BY <1>3, <2>1, <2>2, <2>3, <2>4, <2>5, <2>6, <2>7, <2>8, <2>9, <2>10, <2>11, <2>12,
         <2>13, <2>14, Zenon DEF Opening
  <1>4. CASE Undoing
    <2>1. CASE Rollback
      BY <2>1 DEF Rollback
    <2>2. CASE Undo
      BY <2>2 DEF Undo
    <2>3. CASE UndoReload
      BY <2>3 DEF UndoReload
    <2>4. CASE GiveUp
      BY <2>4 DEF GiveUp
    <2>5. CASE CleanSnippet
      BY <2>5 DEF CleanSnippet
    <2>6. CASE CleanBackup
      BY <2>6 DEF CleanBackup
    <2>7. CASE CleanJournal
      BY <2>7 DEF CleanJournal
    <2>8. CASE CleanRevoke
      BY <2>8 DEF CleanRevoke
    <2> QED
      BY <1>4, <2>1, <2>2, <2>3, <2>4, <2>5, <2>6, <2>7, <2>8, Zenon DEF Undoing
  <1>5. CASE Removing
    <2>1. CASE Close
      BY <2>1 DEF Close
    <2>2. CASE Closing
      BY <2>2 DEF Closing
    <2>3. CASE CloseCheck
      BY <2>3 DEF CloseCheck
    <2>4. CASE CloseValidate
      BY <2>4 DEF CloseValidate
    <2>5. CASE CloseInstall
      BY <2>5 DEF CloseInstall
    <2>6. CASE CloseReload
      BY <2>6 DEF CloseReload
    <2>7. CASE CloseProbe
      BY <2>7 DEF CloseProbe
    <2>8. CASE CloseFailed
      BY <2>8 DEF CloseFailed
    <2>9. CASE CloseSnippet
      BY <2>9 DEF CloseSnippet
    <2>10. CASE CloseBackup
      BY <2>10 DEF CloseBackup
    <2>11. CASE Closed
      BY <2>11 DEF Closed
    <2> QED
      BY <1>5, <2>1, <2>2, <2>3, <2>4, <2>5, <2>6, <2>7, <2>8, <2>9, <2>10, <2>11, Zenon DEF
         Removing
  <1>6. CASE Processing
    <2>1. CASE Start
      BY <2>1 DEF Start
    <2>2. ASSUME NEW b \in BOOLEAN, Spawn(b)
         PROVE  Saved'
      BY <2>2 DEF Spawn
    <2>3. CASE Record
      BY <2>3 DEF Record
    <2>4. CASE Ready
      BY <2>4 DEF Ready
    <2>5. CASE NotReady
      BY <2>5 DEF NotReady
    <2>6. CASE Serve
      BY <2>6 DEF Serve
    <2>7. CASE Die
      BY <2>7 DEF Die
    <2>8. CASE Stop
      BY <2>8 DEF Stop
    <2>9. CASE Kill
      BY <2>9 DEF Kill
    <2>10. CASE Forget
      BY <2>10 DEF Forget
    <2>11. CASE Quit
      BY <2>11 DEF Quit
    <2>12. CASE Leave
      BY <2>12 DEF Leave
    <2> QED
      BY <1>6, <2>1, <2>2, <2>3, <2>4, <2>5, <2>6, <2>7, <2>8, <2>9, <2>10, <2>11, <2>12,
         Zenon DEF Processing
  <1>7. CASE Crash
    BY <1>7 DEF Crash
  <1>8. CASE Login
    BY <1>8 DEF Login, PublicAccess
  <1>9. CASE OperatorReload
    BY <1>9 DEF OperatorReload
  <1>10. ASSUME NEW e \in Edits, Edit(e)
       PROVE  Saved'
    BY <1>10 DEF Edit, Windows
  <1>11. CASE UNCHANGED vars
    BY <1>11 DEF vars
  <1> QED
    BY <1>1, <1>2, <1>3, <1>4, <1>5, <1>6, <1>7, <1>8, <1>9, <1>10, <1>11, Zenon DEF Next


(* The include is removed only after the configuration has let go of it.   *)
LEMMA LoadingStep ==
  ASSUME Typed, Journalled, Loading, [Next]_vars
  PROVE  Loading'
  <1> USE TypedFields, PlainTyped, WithTyped DEF At, Go, End, Idle, CommandTyped, files,
     process, ghosts, Loading, ConfigIsLoadable, Loadable, Journalled, Bare, Imported,
     Leaving, Recovery, Publication, Withdrawal, Reversal, Cleanup
  <1>1. ASSUME NEW does \in {"open", "close", "start", "stop"}, Begin(does)
       PROVE  Loading'
    BY <1>1 DEF Begin, Admitted, Alive, Idle
  <1>2. CASE Recovering
    <2>1. CASE Recover
      BY <2>1 DEF Recover
    <2>2. CASE Restore
      BY <2>2 DEF Restore
    <2>3. CASE RecoverReload
      BY <2>3 DEF RecoverReload
    <2>4. CASE RecoverBackup
      BY <2>4 DEF RecoverBackup
    <2>5. CASE RecoverSnippet
      BY <2>5 DEF RecoverSnippet
    <2>6. CASE RecoverRevoke
      BY <2>6 DEF RecoverRevoke
    <2>7. CASE RecoverJournal
      BY <2>7, RecoverJournalFields DEF RecoverJournal
    <2> QED
      BY <1>2, <2>1, <2>2, <2>3, <2>4, <2>5, <2>6, <2>7, Zenon DEF Recovering
  <1>3. CASE Opening
    <2>1. CASE Open
      BY <2>1, OpenFields
    <2>2. CASE OpenRefused
      BY <2>2 DEF OpenRefused
    <2>3. CASE Renew
      BY <2>3 DEF Renew
    <2>4. CASE Prepare
      BY <2>4 DEF Prepare
    <2>5. CASE Backup
      BY <2>5 DEF Backup
    <2>6. CASE Snippet
      BY <2>6 DEF Snippet
    <2>7. CASE Check
      BY <2>7 DEF Check
    <2>8. CASE Validate
      BY <2>8 DEF Validate
    <2>9. CASE Install
      BY <2>9 DEF Install
    <2>10. CASE Contract
      BY <2>10 DEF Contract
    <2>11. CASE Reload
      BY <2>11 DEF Reload
    <2>12. CASE Probe
      BY <2>12 DEF Probe
    <2>13. CASE EnableRoute
      BY <2>13 DEF EnableRoute
    <2>14. CASE Activate
      BY <2>14 DEF Activate
    <2> QED
      BY <1>3, <2>1, <2>2, <2>3, <2>4, <2>5, <2>6, <2>7, <2>8, <2>9, <2>10, <2>11, <2>12,
         <2>13, <2>14, Zenon DEF Opening
  <1>4. CASE Undoing
    <2>1. CASE Rollback
      BY <2>1 DEF Rollback
    <2>2. CASE Undo
      <3>1. /\ command.pc = "undo" /\ command'.pc = "undo_reload"
            /\ command'.does = command.does /\ command'.original = command.original
            /\ command'.updated = command.updated
        BY <2>2 DEF Undo
      <3>2. config' = command.original /\ snippet' = snippet
        BY <2>2 DEF Undo
      <3>3. command.does \in {"open", "close"}
        BY <3>1 DEF Ordered
      <3> QED
        BY <3>1, <3>2, <3>3
    <2>3. CASE UndoReload
      <3>1. /\ command.pc = "undo_reload" /\ command.does \in {"open", "close"}
            /\ config' = config /\ snippet' = snippet
        BY <2>3 DEF UndoReload, Ordered
      <3>2. \/ command.does = "open" /\ command'.pc = "clean_snippet"
            \/ command'.pc \in {"close_failed", "give_up"}
        BY <2>3 DEF UndoReload
      <3>3. /\ command'.does = command.does /\ command'.original = command.original
            /\ command'.updated = command.updated
        BY <2>3 DEF UndoReload
      <3> QED
        BY <3>1, <3>2, <3>3
    <2>4. CASE GiveUp
      BY <2>4 DEF GiveUp
    <2>5. CASE CleanSnippet
      BY <2>5 DEF CleanSnippet
    <2>6. CASE CleanBackup
      BY <2>6 DEF CleanBackup
    <2>7. CASE CleanJournal
      BY <2>7 DEF CleanJournal
    <2>8. CASE CleanRevoke
      BY <2>8 DEF CleanRevoke
    <2> QED
      BY <1>4, <2>1, <2>2, <2>3, <2>4, <2>5, <2>6, <2>7, <2>8, Zenon DEF Undoing
  <1>5. CASE Removing
    <2>1. CASE Close
      BY <2>1 DEF Close
    <2>2. CASE Closing
      BY <2>2 DEF Closing
    <2>3. CASE CloseCheck
      BY <2>3 DEF CloseCheck
    <2>4. CASE CloseValidate
      BY <2>4 DEF CloseValidate
    <2>5. CASE CloseInstall
      BY <2>5 DEF CloseInstall
    <2>6. CASE CloseReload
      <3>1. /\ command.pc = "close_reload" /\ config' = config /\ snippet' = snippet
            /\ command.does = "close"
        BY <2>6 DEF CloseReload, Ordered
      <3>2. command'.pc \in {"close_probe", "rollback"}
        BY <2>6 DEF CloseReload
      <3>3. /\ command'.does = command.does /\ command'.original = command.original
            /\ command'.updated = command.updated
        BY <2>6 DEF CloseReload
      <3> QED
        BY <3>1, <3>2, <3>3
    <2>7. CASE CloseProbe
      <3>1. /\ command.pc = "close_probe" /\ config' = config /\ snippet' = snippet
            /\ command.does = "close"
        BY <2>7 DEF CloseProbe, Ordered
      <3>2. command'.pc \in {"close_snippet", "rollback"}
        BY <2>7 DEF CloseProbe
      <3>3. /\ command'.does = command.does /\ command'.original = command.original
            /\ command'.updated = command.updated
        BY <2>7 DEF CloseProbe
      <3> QED
        BY <3>1, <3>2, <3>3
    <2>8. CASE CloseFailed
      BY <2>8 DEF CloseFailed
    <2>9. CASE CloseSnippet
      BY <2>9 DEF CloseSnippet
    <2>10. CASE CloseBackup
      BY <2>10 DEF CloseBackup
    <2>11. CASE Closed
      BY <2>11 DEF Closed
    <2> QED
      BY <1>5, <2>1, <2>2, <2>3, <2>4, <2>5, <2>6, <2>7, <2>8, <2>9, <2>10, <2>11, Zenon DEF
         Removing
  <1>6. CASE Processing
    <2>1. CASE Start
      BY <2>1 DEF Start
    <2>2. ASSUME NEW b \in BOOLEAN, Spawn(b)
         PROVE  Loading'
      BY <2>2 DEF Spawn
    <2>3. CASE Record
      BY <2>3 DEF Record
    <2>4. CASE Ready
      BY <2>4 DEF Ready
    <2>5. CASE NotReady
      BY <2>5 DEF NotReady
    <2>6. CASE Serve
      BY <2>6 DEF Serve
    <2>7. CASE Die
      BY <2>7 DEF Die
    <2>8. CASE Stop
      BY <2>8 DEF Stop
    <2>9. CASE Kill
      BY <2>9 DEF Kill
    <2>10. CASE Forget
      BY <2>10 DEF Forget
    <2>11. CASE Quit
      BY <2>11 DEF Quit
    <2>12. CASE Leave
      BY <2>12 DEF Leave
    <2> QED
      BY <1>6, <2>1, <2>2, <2>3, <2>4, <2>5, <2>6, <2>7, <2>8, <2>9, <2>10, <2>11, <2>12,
         Zenon DEF Processing
  <1>7. CASE Crash
    BY <1>7 DEF Crash
  <1>8. CASE Login
    BY <1>8 DEF Login, PublicAccess
  <1>9. CASE OperatorReload
    BY <1>9 DEF OperatorReload
  <1>10. ASSUME NEW e \in Edits, Edit(e)
       PROVE  Loading'
    BY <1>10 DEF Edit, Configs
  <1>11. CASE UNCHANGED vars
    BY <1>11 DEF vars
  <1> QED
    BY <1>1, <1>2, <1>3, <1>4, <1>5, <1>6, <1>7, <1>8, <1>9, <1>10, <1>11, Zenon DEF Next


(* The journal says closed only once the proxy has reloaded without the    *)
(* route.                                                                  *)
LEMMA WithdrawnStep ==
  ASSUME Typed, Journalled, Loading, Withdrawn, [Next]_vars
  PROVE  Withdrawn'
  <1> USE TypedFields, PlainTyped, JournalFields DEF At, Go, End, Idle, CommandTyped, files,
     process, ghosts, Withdrawn, ClosedIsGone, Loading, Bare, Gone, Unsettled, NoJournal,
     Recovery, Publication, Withdrawal, Reversal, Cleanup
  <1>1. ASSUME NEW does \in {"open", "close", "start", "stop"}, Begin(does)
       PROVE  Withdrawn'
    BY <1>1 DEF Begin, Admitted, Alive, Idle
  <1>2. CASE Recovering
    <2>1. CASE Recover
      BY <2>1 DEF Recover
    <2>2. CASE Restore
      <3>1. /\ command.pc = "restore" /\ loaded' = loaded /\ journal' = journal
            /\ config' \in backup
        BY <2>2 DEF Restore
      <3>2. command'.pc = "recover_reload"
        BY <2>2 DEF Restore
      <3>3. journal.state = "closed" => ~config'.route
        BY <3>1 DEF Journalled
      <3> QED
        BY <3>1, <3>2, <3>3
    <2>3. CASE RecoverReload
      BY <2>3 DEF RecoverReload
    <2>4. CASE RecoverBackup
      BY <2>4 DEF RecoverBackup
    <2>5. CASE RecoverSnippet
      BY <2>5 DEF RecoverSnippet
    <2>6. CASE RecoverRevoke
      BY <2>6 DEF RecoverRevoke
    <2>7. CASE RecoverJournal
      BY <2>7, RecoverJournalFields DEF RecoverJournal
    <2> QED
      BY <1>2, <2>1, <2>2, <2>3, <2>4, <2>5, <2>6, <2>7, Zenon DEF Recovering
  <1>3. CASE Opening
    <2>1. CASE Open
      BY <2>1, OpenFields
    <2>2. CASE OpenRefused
      BY <2>2 DEF OpenRefused
    <2>3. CASE Renew
      BY <2>3 DEF Renew
    <2>4. CASE Prepare
      BY <2>4 DEF Prepare
    <2>5. CASE Backup
      BY <2>5 DEF Backup
    <2>6. CASE Snippet
      BY <2>6 DEF Snippet
    <2>7. CASE Check
      BY <2>7 DEF Check
    <2>8. CASE Validate
      BY <2>8 DEF Validate
    <2>9. CASE Install
      BY <2>9 DEF Install
    <2>10. CASE Contract
      BY <2>10 DEF Contract
    <2>11. CASE Reload
      BY <2>11 DEF Reload
    <2>12. CASE Probe
      BY <2>12 DEF Probe
    <2>13. CASE EnableRoute
      BY <2>13 DEF EnableRoute
    <2>14. CASE Activate
      BY <2>14 DEF Activate
    <2> QED
      BY <1>3, <2>1, <2>2, <2>3, <2>4, <2>5, <2>6, <2>7, <2>8, <2>9, <2>10, <2>11, <2>12,
         <2>13, <2>14, Zenon DEF Opening
  <1>4. CASE Undoing
    <2>1. CASE Rollback
      BY <2>1 DEF Rollback
    <2>2. CASE Undo
      BY <2>2 DEF Undo
    <2>3. CASE UndoReload
      BY <2>3 DEF UndoReload
    <2>4. CASE GiveUp
      BY <2>4 DEF GiveUp
    <2>5. CASE CleanSnippet
      BY <2>5 DEF CleanSnippet
    <2>6. CASE CleanBackup
      BY <2>6 DEF CleanBackup
    <2>7. CASE CleanJournal
      BY <2>7 DEF CleanJournal
    <2>8. CASE CleanRevoke
      BY <2>8 DEF CleanRevoke
    <2> QED
      BY <1>4, <2>1, <2>2, <2>3, <2>4, <2>5, <2>6, <2>7, <2>8, Zenon DEF Undoing
  <1>5. CASE Removing
    <2>1. CASE Close
      BY <2>1 DEF Close
    <2>2. CASE Closing
      BY <2>2 DEF Closing
    <2>3. CASE CloseCheck
      BY <2>3 DEF CloseCheck
    <2>4. CASE CloseValidate
      BY <2>4 DEF CloseValidate
    <2>5. CASE CloseInstall
      BY <2>5 DEF CloseInstall
    <2>6. CASE CloseReload
      BY <2>6 DEF CloseReload
    <2>7. CASE CloseProbe
      BY <2>7 DEF CloseProbe
    <2>8. CASE CloseFailed
      BY <2>8 DEF CloseFailed
    <2>9. CASE CloseSnippet
      BY <2>9 DEF CloseSnippet
    <2>10. CASE CloseBackup
      BY <2>10 DEF CloseBackup
    <2>11. CASE Closed
      BY <2>11 DEF Closed
    <2> QED
      BY <1>5, <2>1, <2>2, <2>3, <2>4, <2>5, <2>6, <2>7, <2>8, <2>9, <2>10, <2>11, Zenon DEF
         Removing
  <1>6. CASE Processing
    <2>1. CASE Start
      BY <2>1 DEF Start
    <2>2. ASSUME NEW b \in BOOLEAN, Spawn(b)
         PROVE  Withdrawn'
      BY <2>2 DEF Spawn
    <2>3. CASE Record
      BY <2>3 DEF Record
    <2>4. CASE Ready
      BY <2>4 DEF Ready
    <2>5. CASE NotReady
      BY <2>5 DEF NotReady
    <2>6. CASE Serve
      BY <2>6 DEF Serve
    <2>7. CASE Die
      BY <2>7 DEF Die
    <2>8. CASE Stop
      BY <2>8 DEF Stop
    <2>9. CASE Kill
      BY <2>9 DEF Kill
    <2>10. CASE Forget
      BY <2>10 DEF Forget
    <2>11. CASE Quit
      BY <2>11 DEF Quit
    <2>12. CASE Leave
      BY <2>12 DEF Leave
    <2> QED
      BY <1>6, <2>1, <2>2, <2>3, <2>4, <2>5, <2>6, <2>7, <2>8, <2>9, <2>10, <2>11, <2>12,
         Zenon DEF Processing
  <1>7. CASE Crash
    BY <1>7 DEF Crash
  <1>8. CASE Login
    BY <1>8 DEF Login, PublicAccess
  <1>9. CASE OperatorReload
    BY <1>9 DEF OperatorReload
  <1>10. ASSUME NEW e \in Edits, Edit(e)
       PROVE  Withdrawn'
    BY <1>10 DEF Edit, Configs
  <1>11. CASE UNCHANGED vars
    BY <1>11 DEF vars
  <1> QED
    BY <1>1, <1>2, <1>3, <1>4, <1>5, <1>6, <1>7, <1>8, <1>9, <1>10, <1>11, Zenon DEF Next


(* Together they keep the types.                                           *)
LEMMA TypedStep ==
  ASSUME Typed, Generations, [Next]_vars
  PROVE  Typed'
  <1>1. CommandTyped' /\ Ordered'
    BY CommandStep, OrderedStep
  <1>2. FilesTyped' /\ AccessTyped' /\ ProcessTyped' /\ CountsTyped'
    BY FilesStep, AccessStep, ProcessStep, CountsStep
  <1>3. TypeOK'
    BY <1>2 DEF TypeOK, FilesTyped, Journals, Contracts, ProcessTyped, CountsTyped,
                      AccessTyped
  <1> QED
    BY <1>1, <1>3 DEF Typed

-----------------------------------------------------------------------------
LEMMA InitInv == Init => Inv
  <1> SUFFICES ASSUME Init PROVE Inv
    OBVIOUS
  <1> USE DEF Init
  <1>1. TypeOK
    <2>1. FilesTyped
      BY PlainTyped DEF FilesTyped
    <2>2. AccessTyped
      BY DEF AccessTyped, Contracts
    <2>3. ProcessTyped
      <3>1. 0 \in 0..MaxStarts
        BY DashboardAssumption
      <3> QED
        BY <3>1 DEF ProcessTyped
    <2>4. CountsTyped
      BY DashboardAssumption DEF CountsTyped
    <2> QED
      BY <2>1, <2>2, <2>3, <2>4 DEF TypeOK, FilesTyped, Journals, Contracts, ProcessTyped,
                        CountsTyped, AccessTyped
  <1>2. CommandTyped
    BY DEF Idle, CommandTyped, Plain, Configs
  <1>3. Ordered /\ Private /\ Generations
    BY DEF Idle, Ordered, Recovery, Publication, Withdrawal, Reversal, Cleanup, Private, At,
           Generations
  <1>4. Journalled
    BY PlainTyped DEF Journalled, NoJournal, Idle, Emptied, At
  <1>5. Saved
    BY PlainTyped DEF Saved, Kept, Idle, At
  <1>6. Loading
    BY PlainTyped DEF Loading, ConfigIsLoadable, Loadable, Idle, Bare, Imported, Publication,
           Leaving, Reversal, At
  <1>7. Withdrawn
    BY PlainTyped DEF Withdrawn, ClosedIsGone, NoJournal, Idle, Gone, Unsettled, Publication,
           Withdrawal, Reversal
  <1> QED
    BY <1>1, <1>2, <1>3, <1>4, <1>5, <1>6, <1>7 DEF Inv, Typed

LEMMA InvStep == Inv /\ [Next]_vars => Inv'
  <1> SUFFICES ASSUME Inv, [Next]_vars PROVE Inv'
    OBVIOUS
  <1> USE DEF Inv
  <1>1. Typed' /\ Generations'
    BY TypedStep, AccessStep
  <1>2. Private' /\ Journalled' /\ Saved'
    BY PrivateStep, JournalledStep, SavedStep
  <1>3. Loading' /\ Withdrawn'
    BY LoadingStep, WithdrawnStep
  <1> QED
    BY <1>1, <1>2, <1>3

(* The strengthening holds in every reachable state of open, renew, close, *)
(* recover, start and stop, with deaths of the command between any two of  *)
(* its writes and edits of the operator at any moment.                     *)
THEOREM DashboardInvariant == Spec => []Inv
  BY InitInv, InvStep, PTL DEF Spec

(* The durable files, the contract, the processes and the sessions keep    *)
(* the form that their readers expect.                                     *)
THEOREM DashboardTypes == Spec => []TypeOK
  <1>1. Inv => TypeOK
    BY DEF Inv, Typed
  <1> QED
    BY <1>1, DashboardInvariant, PTL

(* A dashboard is public only when the last successful probe reached this  *)
(* very instance: a restart never comes up public, however the previous    *)
(* one ended and whatever command died on the way.                         *)
THEOREM RestartsArePrivate == Spec => []RestartIsPrivate
  <1>1. Inv => RestartIsPrivate
    BY DEF Inv, Private, RestartIsPrivate
  <1> QED
    BY <1>1, DashboardInvariant, PTL

(* A session that some revocation has seen is never valid again, because   *)
(* its generation is below the one in the contract and none goes back.     *)
THEOREM RevocationIsFinal == Spec => []SessionsStayRevoked
  <1>1. Inv => SessionsStayRevoked
    <2> SUFFICES ASSUME Inv, NEW s \in revoked PROVE ~Valid(s)
      BY DEF SessionsStayRevoked
    <2>1. s \in sessions /\ s.generation < public.generation /\ public.generation \in Nat
      BY TypedFields DEF Inv, Generations, AccessTyped, Contracts
    <2>2. s.generation \in Nat
      BY <2>1, TypedFields DEF Inv, AccessTyped, Sessions
    <2> QED
      BY <2>1, <2>2 DEF Valid
  <1> QED
    BY <1>1, DashboardInvariant, PTL

(* No command loses an edit of the operator's configuration, except one    *)
(* saved between a hash check and the write that follows it.               *)
THEOREM EditsAreKept == Spec => []EditsSurvive
  <1>1. Inv => EditsSurvive
    BY DEF Inv, Saved, Kept, EditsSurvive
  <1> QED
    BY <1>1, DashboardInvariant, PTL

(* The configuration never imports an include that is gone, also after a   *)
(* command that died between any two of its writes.                        *)
THEOREM ConfigStaysLoadable == Spec => []ConfigIsLoadable
  <1>1. Inv => ConfigIsLoadable
    BY DEF Inv, Loading
  <1> QED
    BY <1>1, DashboardInvariant, PTL

(* Once the journal says closed, neither the file nor the running proxy    *)
(* has the route, until a later open is past its first write.              *)
THEOREM ClosedStaysGone == Spec => []ClosedIsGone
  <1>1. Inv => ClosedIsGone
    BY DEF Inv, Withdrawn
  <1> QED
    BY <1>1, DashboardInvariant, PTL
=============================================================================
