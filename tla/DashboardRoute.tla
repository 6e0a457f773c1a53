--------------------------- MODULE DashboardRoute ---------------------------
(***************************************************************************)
(* Publication of the dashboard: the port command of dashboard/routing.py  *)
(* (open, renew, close, recover), the life of the dashboard process        *)
(* (dashboard/process.py) and the public sessions that dashboard/web.py    *)
(* admits.                                                                 *)
(*                                                                         *)
(* Durable state: the operator's proxy configuration, the generated        *)
(* include, the backup of the configuration, the journal routing.json, the *)
(* public contract public.json and process.json.  One flock serialises the *)
(* commands, so at most one is under way; a command may die between any    *)
(* two of its writes, and the operator may edit the configuration at any   *)
(* moment.  A configuration is the set of the operator's edits it holds    *)
(* and whether it imports the dashboard's include; a hash comparison is a  *)
(* comparison of configurations.  File ownership, TLS files, port          *)
(* conflicts and the root-only bindings are left out.                      *)
(***************************************************************************)
EXTENDS Naturals

CONSTANTS MaxEdits,     \* edits the operator makes
          MaxStarts,    \* dashboard processes started
          MaxCommands,  \* commands given
          MaxCrashes    \* commands that die halfway

ASSUME DashboardAssumption ==
  /\ MaxEdits \in Nat /\ MaxStarts \in Nat /\ MaxCommands \in Nat /\ MaxCrashes \in Nat

VARIABLES config,      \* the proxy configuration file
          loaded,      \* the configuration the running proxy has loaded
          snippet,     \* the generated include exists
          backup,      \* {} or {the configuration before publication}
          journal,     \* routing.json
          public,      \* public.json
          recorded,    \* the instance process.json names, 0 when there is none
          dashboard,   \* the newest dashboard process: down, booting or up
          instance,    \* its number (the nonce of its start)
          detached,    \* whether it was started detached
          command,     \* the command that holds the lock, with its locals
          sessions,    \* public sessions given out: [instance, generation]
          revoked,     \* sessions that a revocation has seen
          probed,      \* the instance the last successful probe reached
          made,        \* edits the operator has saved
          raced,       \* those saved between a hash check and its write
          commands, crashes

files == <<config, snippet, backup, journal>>
process == <<recorded, dashboard, instance, detached>>
ghosts == <<sessions, made, raced, commands, crashes>>
vars == <<files, loaded, public, process, command, revoked, probed, ghosts>>

Edits == 1..MaxEdits
Configs == [edits : SUBSET Edits, route : BOOLEAN]
Sessions == [instance : 0..MaxStarts, generation : Nat]

Plain == [edits |-> {}, route |-> FALSE]
NoJournal == [state |-> "none", operation |-> "none", original |-> Plain, installed |-> Plain]
Idle == [pc |-> "idle", does |-> "none", original |-> Plain, updated |-> Plain]

(* Between these points and the write that follows, a hash is checked.     *)
Windows == {"install", "close_install", "restore", "undo"}

With(c) == [c EXCEPT !.route = TRUE]
Without(c) == [c EXCEPT !.route = FALSE]

At(p) == command.pc = p
Go(p) == command' = [command EXCEPT !.pc = p]
End == command' = Idle

Alive == recorded = instance /\ instance # 0 /\ dashboard # "down"

(* What GET /health through the proxy answers: the dashboard, with the     *)
(* nonce that process.json names when there is one.                        *)
Serving == loaded.route /\ dashboard = "up" /\ recorded \in {0, instance}

Valid(s) == public.enabled /\ s.instance = instance /\ s.generation = public.generation

Init ==
  /\ config = Plain /\ loaded = Plain /\ snippet = FALSE /\ backup = {}
  /\ journal = NoJournal
  /\ public = [enabled |-> FALSE, generation |-> 0, written |-> FALSE]
  /\ recorded = 0 /\ dashboard = "down" /\ instance = 0 /\ detached = FALSE
  /\ command = Idle
  /\ sessions = {} /\ revoked = {} /\ probed = 0 /\ made = {} /\ raced = {}
  /\ commands = 0 /\ crashes = 0

-----------------------------------------------------------------------------
(* Writes shared by the commands.                                          *)

DisabledBare == [enabled |-> FALSE, generation |-> public.generation + 1]
Disabled == [enabled |-> FALSE, generation |-> public.generation + 1, written |-> TRUE]

(* routing._revoke always writes; process._revoke_public only when the     *)
(* file exists.                                                            *)
Revoke == /\ public' = Disabled
          /\ revoked' = revoked \cup {s \in sessions : Valid(s)}

RevokeNothing == UNCHANGED <<public, revoked>>
RevokePublic == IF public.written THEN Revoke ELSE UNCHANGED <<public, revoked>>

Enabled == [enabled |-> TRUE, generation |-> public.generation + 1, written |-> TRUE]

(* A proxy that cannot read an imported file refuses the configuration.    *)
Loadable(c) == c.route => snippet

Journal(state, operation) ==
  journal' = [journal EXCEPT !.state = state, !.operation = operation]

-----------------------------------------------------------------------------
(* Commands.  The command line admits "port" only with a detached          *)
(* dashboard that is ready, and "start" only without a living one.         *)

Admitted(does) ==
  CASE does = "open"  -> Alive /\ detached /\ dashboard = "up"
    [] does = "start" -> ~Alive /\ instance < MaxStarts
    [] OTHER          -> TRUE

Begin(does) ==
  /\ At("idle") /\ commands < MaxCommands /\ Admitted(does)
  /\ commands' = commands + 1
  /\ command' = [Idle EXCEPT !.does = does,
       !.pc = IF does \in {"open", "close"}
                THEN IF journal.state \in {"prepared", "recovery_required"} THEN "recover" ELSE does
                ELSE does]
  /\ UNCHANGED <<files, loaded, public, process, revoked, probed, sessions, made, raced, crashes>>

Crash ==
  /\ ~At("idle") /\ crashes < MaxCrashes
  /\ crashes' = crashes + 1
  /\ End
  /\ dashboard' = IF command.does = "start" /\ (~detached \/ recorded # instance)
                    THEN "down" ELSE dashboard
  /\ UNCHANGED <<files, loaded, public, recorded, instance, detached, revoked, probed,
                 sessions, made, raced, commands>>

(* _recover_prepared.                                                      *)
Recover ==
  /\ At("recover")
  /\ IF \/ journal.state = "recovery_required" /\ journal.operation = "close"
        \/ config \notin {journal.installed, journal.original}
        \/ backup = {} /\ config # journal.original
       THEN End
       ELSE Go(IF backup # {} /\ config = journal.installed THEN "restore" ELSE "recover_reload")
  /\ UNCHANGED <<files, loaded, public, process, revoked, probed, ghosts>>

Restore ==
  /\ At("restore")
  /\ config' \in backup
  /\ Go("recover_reload")
  /\ UNCHANGED <<loaded, snippet, backup, journal, public, process, revoked, probed, ghosts>>

RecoverReload ==
  /\ At("recover_reload")
  /\ \/ Loadable(config) /\ loaded' = config /\ Go("recover_backup")
     \/ loaded' = loaded /\ End
  /\ UNCHANGED <<files, public, process, revoked, probed, ghosts>>

RecoverBackup ==
  /\ At("recover_backup")
  /\ backup' = {}
  /\ Go("recover_snippet")
  /\ UNCHANGED <<config, loaded, snippet, journal, public, process, revoked, probed, ghosts>>

RecoverSnippet ==
  /\ At("recover_snippet")
  /\ snippet' = FALSE
  /\ Go("recover_revoke")
  /\ UNCHANGED <<config, loaded, backup, journal, public, process, revoked, probed, ghosts>>

RecoverRevoke ==
  /\ At("recover_revoke")
  /\ Revoke
  /\ Go("recover_journal")
  /\ UNCHANGED <<files, loaded, process, probed, ghosts>>

RecoverJournal ==
  /\ At("recover_journal")
  /\ journal' = NoJournal
  /\ Go(command.does)
  /\ UNCHANGED <<config, loaded, snippet, backup, public, process, revoked, probed, ghosts>>

-----------------------------------------------------------------------------
(* Opening a route: run_port_command past the close branch.                *)

Open ==
  /\ At("open")
  /\ journal.state \in {"none", "closed"}
  /\ IF snippet \/ backup # {}
       THEN End
       ELSE command' = [command EXCEPT !.pc = "prepare", !.original = config, !.updated = With(config)]
  /\ UNCHANGED <<files, loaded, public, process, revoked, probed, ghosts>>

OpenRefused ==
  /\ At("open")
  /\ \/ journal.state \in {"closing", "close_failed"}
     \/ journal.state = "active" /\ (config # journal.installed \/ ~snippet \/ ~Serving)
     \/ journal.state \in {"none", "closed"}   \* host, port, TLS or proxy preconditions
  /\ End
  /\ UNCHANGED <<files, loaded, public, process, revoked, probed, ghosts>>

Renew ==
  /\ At("open")
  /\ journal.state = "active" /\ config = journal.installed /\ snippet /\ Serving
  /\ public' = IF public.enabled THEN public ELSE Enabled
  /\ probed' = instance
  /\ End
  /\ UNCHANGED <<files, loaded, process, revoked, ghosts>>

Prepare ==
  /\ At("prepare")
  /\ journal' = [state |-> "prepared", operation |-> "open",
                 original |-> command.original, installed |-> command.updated]
  /\ Go("backup")
  /\ UNCHANGED <<config, loaded, snippet, backup, public, process, revoked, probed, ghosts>>

Backup ==
  /\ At("backup")
  /\ backup' = {command.original}
  /\ Go("snippet")
  /\ UNCHANGED <<config, loaded, snippet, journal, public, process, revoked, probed, ghosts>>

Snippet ==
  /\ At("snippet")
  /\ snippet' = TRUE
  /\ Go("check")
  /\ UNCHANGED <<config, loaded, backup, journal, public, process, revoked, probed, ghosts>>

Check ==
  /\ At("check")
  /\ IF config # command.original
       THEN Revoke /\ End
       ELSE Go("validate") /\ UNCHANGED <<public, revoked>>
  /\ UNCHANGED <<files, loaded, process, probed, ghosts>>

Validate ==
  /\ At("validate")
  /\ \/ Loadable(command.updated) /\ config = command.original /\ Go("install")
     \/ Go("clean_snippet")
  /\ UNCHANGED <<files, loaded, public, process, revoked, probed, ghosts>>

\* A write may fail and leave the file as it was.
Install ==
  /\ At("install")
  /\ \/ config' = command.updated /\ Go("contract")
     \/ config' = config /\ Go("rollback")
  /\ UNCHANGED <<loaded, snippet, backup, journal, public, process, revoked, probed, ghosts>>

ContractFresh ==
  /\ At("contract")
  /\ public' = [enabled |-> FALSE, generation |-> 0, written |-> TRUE]
  /\ Go("reload")
  /\ UNCHANGED <<files, loaded, process, revoked, probed, ghosts>>

Contract ==
  /\ At("contract")
  /\ IF config # command.updated
       THEN Go("rollback") /\ UNCHANGED public
       ELSE Go("reload") /\ public' = [public EXCEPT !.enabled = FALSE, !.written = TRUE]
  /\ UNCHANGED <<files, loaded, process, revoked, probed, ghosts>>

Reload ==
  /\ At("reload")
  /\ \/ Loadable(config) /\ loaded' = config /\ Go("probe")
     \/ loaded' = loaded /\ Go("rollback")
  /\ UNCHANGED <<files, public, process, revoked, probed, ghosts>>

Probe ==
  /\ At("probe")
  /\ \/ Serving /\ probed' = instance /\ Go("enable")
     \/ probed' = probed /\ Go("rollback")
  /\ UNCHANGED <<files, loaded, public, process, revoked, ghosts>>

EnableRoute ==
  /\ At("enable")
  /\ \/ public' = Enabled /\ Go("activate")
     \/ public' = public /\ Go("rollback")
  /\ UNCHANGED <<files, loaded, process, revoked, probed, ghosts>>

Activate ==
  /\ At("activate")
  /\ \/ Journal("active", "open") /\ End
     \/ journal' = journal /\ Go("rollback")
  /\ UNCHANGED <<config, loaded, snippet, backup, public, process, revoked, probed, ghosts>>

-----------------------------------------------------------------------------
(* _rollback, and what open and close do after it.                         *)

RollbackBlind ==
  /\ At("rollback")
  /\ Go("undo")
  /\ UNCHANGED <<files, loaded, public, process, revoked, probed, ghosts>>

RollbackCleans ==
  /\ At("rollback")
  /\ Go(IF config \in {command.updated, command.original} THEN "undo" ELSE "clean_snippet")
  /\ UNCHANGED <<files, loaded, public, process, revoked, probed, ghosts>>

Rollback ==
  /\ At("rollback")
  /\ Go(IF config \in {command.updated, command.original} THEN "undo" ELSE "give_up")
  /\ UNCHANGED <<files, loaded, public, process, revoked, probed, ghosts>>

Undo ==
  /\ At("undo")
  /\ config' = command.original
  /\ Go("undo_reload")
  /\ UNCHANGED <<loaded, snippet, backup, journal, public, process, revoked, probed, ghosts>>

UndoReload ==
  /\ At("undo_reload")
  /\ \/ /\ Loadable(config) /\ loaded' = config
        /\ Go(IF command.does = "open" THEN "clean_snippet" ELSE "close_failed")
     \/ loaded' = loaded /\ Go("give_up")
  /\ UNCHANGED <<files, public, process, revoked, probed, ghosts>>

GiveUp ==
  /\ At("give_up")
  /\ Journal("recovery_required", command.does)
  /\ IF command.does = "open" THEN Go("clean_revoke") ELSE End
  /\ UNCHANGED <<config, loaded, snippet, backup, public, process, revoked, probed, ghosts>>

CleanSnippet ==
  /\ At("clean_snippet")
  /\ snippet' = FALSE
  /\ Go("clean_backup")
  /\ UNCHANGED <<config, loaded, backup, journal, public, process, revoked, probed, ghosts>>

CleanBackup ==
  /\ At("clean_backup")
  /\ backup' = {}
  /\ Go("clean_journal")
  /\ UNCHANGED <<config, loaded, snippet, journal, public, process, revoked, probed, ghosts>>

CleanJournal ==
  /\ At("clean_journal")
  /\ journal' = NoJournal
  /\ Go("clean_revoke")
  /\ UNCHANGED <<config, loaded, snippet, backup, public, process, revoked, probed, ghosts>>

CleanRevoke ==
  /\ At("clean_revoke")
  /\ Revoke
  /\ End
  /\ UNCHANGED <<files, loaded, process, probed, ghosts>>

-----------------------------------------------------------------------------
(* Closing a route.  The original of a close is the configuration with the *)
(* include, its update the one without.                                    *)

Close ==
  /\ At("close")
  /\ Revoke
  /\ IF journal.state \in {"none", "closed"} THEN End ELSE Go("closing")
  /\ UNCHANGED <<files, loaded, process, probed, ghosts>>

Closing ==
  /\ At("closing")
  /\ \E b \in Configs :
       /\ IF backup # {} /\ config = journal.installed THEN b \in backup ELSE b = Without(config)
       /\ command' = [command EXCEPT !.pc = "close_check", !.original = config, !.updated = b]
  /\ Journal("closing", "close")
  /\ UNCHANGED <<config, loaded, snippet, backup, public, process, revoked, probed, ghosts>>

CloseCheck ==
  /\ At("close_check")
  /\ IF config = command.original THEN Go("close_validate") ELSE End
  /\ UNCHANGED <<files, loaded, public, process, revoked, probed, ghosts>>

CloseValidate ==
  /\ At("close_validate")
  /\ \/ config = command.original /\ Go("close_install")
     \/ Go("close_failed")
  /\ UNCHANGED <<files, loaded, public, process, revoked, probed, ghosts>>

CloseInstall ==
  /\ At("close_install")
  /\ config' = command.updated
  /\ Go("close_reload")
  /\ UNCHANGED <<loaded, snippet, backup, journal, public, process, revoked, probed, ghosts>>

CloseReloadIgnored ==
  /\ At("close_reload")
  /\ loaded' \in {loaded, config}
  /\ Go("close_snippet")
  /\ UNCHANGED <<files, public, process, revoked, probed, ghosts>>

CloseReload ==
  /\ At("close_reload")
  /\ \/ Loadable(config) /\ loaded' = config /\ Go("close_probe")
     \/ loaded' = loaded /\ Go("rollback")
  /\ UNCHANGED <<files, public, process, revoked, probed, ghosts>>

CloseProbe ==
  /\ At("close_probe")
  /\ \/ ~(loaded.route /\ dashboard = "up") /\ Go("close_snippet")
     \/ Go("rollback")
  /\ UNCHANGED <<files, loaded, public, process, revoked, probed, ghosts>>

CloseFailed ==
  /\ At("close_failed")
  /\ Journal("close_failed", "close")
  /\ End
  /\ UNCHANGED <<config, loaded, snippet, backup, public, process, revoked, probed, ghosts>>

CloseSnippet ==
  /\ At("close_snippet")
  /\ snippet' = FALSE
  /\ Go("close_backup")
  /\ UNCHANGED <<config, loaded, backup, journal, public, process, revoked, probed, ghosts>>

CloseBackup ==
  /\ At("close_backup")
  /\ backup' = {}
  /\ Go("closed")
  /\ UNCHANGED <<config, loaded, snippet, journal, public, process, revoked, probed, ghosts>>

Closed ==
  /\ At("closed")
  /\ journal' = [NoJournal EXCEPT !.state = "closed"]
  /\ End
  /\ UNCHANGED <<config, loaded, snippet, backup, public, process, revoked, probed, ghosts>>

-----------------------------------------------------------------------------
(* The dashboard process.                                                  *)

Start ==
  /\ At("start")
  /\ RevokePublic
  /\ IF dashboard = "up" THEN End ELSE Go("spawn")
  /\ UNCHANGED <<files, loaded, process, probed, ghosts>>

Spawn(background) ==
  /\ At("spawn")
  /\ instance' = instance + 1 /\ dashboard' = "booting" /\ detached' = background
  /\ Go("record")
  /\ UNCHANGED <<files, loaded, public, recorded, revoked, probed, ghosts>>

Record ==
  /\ At("record")
  /\ recorded' = instance
  /\ IF detached THEN Go("ready") ELSE End
  /\ UNCHANGED <<files, loaded, public, dashboard, instance, detached, revoked, probed, ghosts>>

Ready ==
  /\ At("ready") /\ dashboard = "up"
  /\ End
  /\ UNCHANGED <<files, loaded, public, process, revoked, probed, ghosts>>

NotReady ==
  /\ At("ready")
  /\ dashboard' = "down" /\ recorded' = 0
  /\ End
  /\ UNCHANGED <<files, loaded, public, instance, detached, revoked, probed, ghosts>>

(* A detached child serves once process.json names it.                     *)
Serve ==
  /\ dashboard = "booting" /\ recorded = instance
  /\ dashboard' = "up"
  /\ UNCHANGED <<files, loaded, public, recorded, instance, detached, command, revoked, probed, ghosts>>

Die ==
  /\ dashboard # "down"
  /\ dashboard' = "down"
  /\ UNCHANGED <<files, loaded, public, recorded, instance, detached, command, revoked, probed, ghosts>>

Stop ==
  /\ At("stop")
  /\ RevokePublic
  /\ IF recorded = 0 THEN End ELSE Go("kill")
  /\ UNCHANGED <<files, loaded, process, probed, ghosts>>

Kill ==
  /\ At("kill")
  /\ \/ dashboard' = (IF Alive THEN "down" ELSE dashboard) /\ Go("forget")
     \/ Alive /\ dashboard' = dashboard /\ End
  /\ UNCHANGED <<files, loaded, public, recorded, instance, detached, revoked, probed, ghosts>>

Forget ==
  /\ At("forget")
  /\ recorded' = 0
  /\ End
  /\ UNCHANGED <<files, loaded, public, dashboard, instance, detached, revoked, probed, ghosts>>

(* A foreground dashboard that ends takes the lock, or leaves its file.    *)
Quit ==
  /\ dashboard = "up" /\ ~detached /\ At("idle")
  /\ dashboard' = "down"
  /\ command' = [Idle EXCEPT !.pc = "leave", !.does = "leave"]
  /\ UNCHANGED <<files, loaded, public, recorded, instance, detached, revoked, probed, ghosts>>

Leave ==
  /\ At("leave")
  /\ RevokePublic
  /\ Go("forget")
  /\ UNCHANGED <<files, loaded, process, probed, ghosts>>

-----------------------------------------------------------------------------
(* The public visitors and the operator.                                   *)

PublicAccess == loaded.route /\ dashboard = "up" /\ public.enabled

Login ==
  /\ PublicAccess
  /\ sessions' = sessions \cup {[instance |-> instance, generation |-> public.generation]}
  /\ UNCHANGED <<files, loaded, public, process, command, revoked, probed, made, raced, commands, crashes>>

Edit(e) ==
  /\ e \notin made /\ \A d \in 1..e-1 : d \in made
  /\ made' = made \cup {e}
  /\ config' = [config EXCEPT !.edits = @ \cup {e}]
  /\ raced' = IF command.pc \in Windows THEN raced \cup {e} ELSE raced
  /\ UNCHANGED <<snippet, backup, journal, loaded, public, process, command, revoked, probed,
                 sessions, commands, crashes>>

OperatorReload ==
  /\ Loadable(config) /\ loaded # config
  /\ loaded' = config
  /\ UNCHANGED <<files, public, process, command, revoked, probed, ghosts>>

-----------------------------------------------------------------------------
Recovering == \/ Recover \/ Restore \/ RecoverReload \/ RecoverBackup
              \/ RecoverSnippet \/ RecoverRevoke \/ RecoverJournal
Opening == \/ Open \/ OpenRefused \/ Renew \/ Prepare \/ Backup \/ Snippet \/ Check
           \/ Validate \/ Install \/ Contract \/ Reload \/ Probe \/ EnableRoute \/ Activate
Undoing == \/ Rollback \/ Undo \/ UndoReload \/ GiveUp
           \/ CleanSnippet \/ CleanBackup \/ CleanJournal \/ CleanRevoke
Removing == \/ Close \/ Closing \/ CloseCheck \/ CloseValidate \/ CloseInstall \/ CloseReload
            \/ CloseProbe \/ CloseFailed \/ CloseSnippet \/ CloseBackup \/ Closed
Processing == \/ Start \/ (\E b \in BOOLEAN : Spawn(b)) \/ Record \/ Ready \/ NotReady
              \/ Serve \/ Die \/ Stop \/ Kill \/ Forget \/ Quit \/ Leave

Next ==
  \/ \E does \in {"open", "close", "start", "stop"} : Begin(does)
  \/ Recovering \/ Opening \/ Undoing \/ Removing \/ Processing
  \/ Crash
  \/ Login \/ OperatorReload
  \/ \E e \in Edits : Edit(e)

Spec == Init /\ [][Next]_vars

-----------------------------------------------------------------------------
TypeOK ==
  /\ config \in Configs /\ loaded \in Configs /\ snippet \in BOOLEAN /\ backup \subseteq Configs
  /\ journal \in [state : {"none", "prepared", "active", "closing", "close_failed",
                           "recovery_required", "closed"},
                  operation : {"none", "open", "close"}, original : Configs, installed : Configs]
  /\ public \in [enabled : BOOLEAN, generation : Nat, written : BOOLEAN]
  /\ recorded \in 0..MaxStarts /\ instance \in 0..MaxStarts
  /\ dashboard \in {"down", "booting", "up"} /\ detached \in BOOLEAN
  /\ sessions \subseteq Sessions /\ revoked \subseteq sessions /\ probed \in 0..MaxStarts
  /\ made \subseteq Edits /\ raced \subseteq made /\ commands \in 0..MaxCommands /\ crashes \in 0..MaxCrashes

(* A dashboard is public only after an enabling that probed this very      *)
(* instance: a restart, however the previous one ended and whatever was    *)
(* crashed in between, never comes up public ("Restarting the dashboard    *)
(* does not silently re-enable public access").                            *)
RestartIsPrivate == public.enabled /\ dashboard = "up" => probed = instance

(* A public session that a revocation has seen never becomes valid again,  *)
(* whatever is opened, renewed or restarted later: generations only grow.  *)
SessionsStayRevoked == \A s \in revoked : ~Valid(s)

(* No command ever loses an edit of the operator's proxy configuration,    *)
(* except one saved between a hash check and the write right after it:     *)
(* backups are put back only over what the command itself had installed.   *)
EditsSurvive == made \ raced \subseteq config.edits

(* The configuration never imports an include that is gone: the proxy can  *)
(* always be reloaded or restarted, also after a command died halfway.     *)
ConfigIsLoadable == Loadable(config)

(* When the journal says closed, neither the file nor the running proxy    *)
(* has the route.                                                          *)
ClosedIsGone == journal.state = "closed" => ~config.route /\ ~loaded.route

(* Contradicted: a close command that ends, in success or in failure,      *)
(* leaves public access revoked (README.md:193).                           *)
CloseRevokes ==
  [][command.does = "close" /\ command'.pc = "idle" /\ crashes' = crashes
       => ~public'.enabled]_vars
=============================================================================
