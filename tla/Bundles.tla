------------------------------- MODULE Bundles -------------------------------
(***************************************************************************)
(* Runtime bundles (src/src/bundles.py): operators build, activate and     *)
(* roll back immutable snapshots of the configuration.                     *)
(*                                                                         *)
(* A command is a process: others run at the same time, and it may die     *)
(* between two writes.  Files are replaced as a whole, under one temporary *)
(* name each, which all commands share.                                    *)
(***************************************************************************)
EXTENDS Naturals, Sequences

CONSTANTS
  Operator,     \* those who run commands
  Version,      \* fingerprints of the configurations that there are
  HistoryLimit, \* how many activations the history keeps: 50
  MaxCommands,  \* bound on commands and on edits
  MaxDamage     \* bound on bundles that someone damages

VARIABLES
  content,   \* the fingerprint of the configuration as it is now
  bundles,   \* of each version: absent, whole or damaged
  history,   \* activation-history.json
  marker,    \* the file named active
  temporary, \* what the two temporary files hold
  command,   \* of each operator: the command in progress
  past,      \* ghost: what was active, in order, until an activation is cut
  spent,     \* commands and damages so far
  cut        \* ghost: was an activation cut, did it die or overlap another

files == <<bundles, history, marker, temporary>>
vars == <<content, files, command, past, spent, cut>>

None == "none"
Free == [at |-> "free", version |-> None, history |-> <<>>]

\* Mutation: the history is never shortened.
KeptAll(s) == s
Kept(s) == IF Len(s) > HistoryLimit THEN SubSeq(s, Len(s) - HistoryLimit + 1, Len(s)) ELSE s

Init ==
  /\ content \in Version
  /\ \E there \in {"absent", "whole"} : bundles = [v \in Version |-> there]
  /\ history = <<>> /\ marker = None
  /\ temporary = [history |-> None, marker |-> None]
  /\ command = [o \in Operator |-> Free]
  /\ past = <<>>
  /\ spent = [commands |-> 0, damages |-> 0]
  /\ cut = FALSE

At(o, where) == command[o].at = where
Goes(o, where) == command' = [command EXCEPT ![o].at = where]
Returns(o) == command' = [command EXCEPT ![o] = Free]
Costs == spent.commands < MaxCommands /\ spent' = [spent EXCEPT !.commands = @ + 1]
Activating(o) == command[o].at \in {"read", "history_written", "recorded", "marker_written"}

\* list_bundles(): those that _verify_bundle() accepts.  A directory that is
\* still being written has another name.
Listed == {v \in Version : bundles[v] = "whole"}

\* load_active_bundle(): without a marker the configuration is used as it is.
Loads == marker \in Listed \cup {None}

-----------------------------------------------------------------------------
(* Commands                                                                *)

Edit(v) ==
  /\ content # v /\ content' = v /\ Costs
  /\ UNCHANGED <<files, command, past, cut>>

\* build_bundle(): an existing directory is the answer as it is.
Build(o) ==
  /\ At(o, "free") /\ Costs
  /\ bundles[content] = "absent"
  /\ command' = [command EXCEPT ![o] = [Free EXCEPT !.at = "build", !.version = content]]
  /\ UNCHANGED <<content, files, past, cut>>

\* The directory is moved into place; one that has come there first stays.
Built(o) ==
  /\ At(o, "build") /\ Returns(o)
  /\ bundles' = [bundles EXCEPT ![command[o].version] = IF @ = "absent" THEN "whole" ELSE @]
  /\ UNCHANGED <<content, history, marker, temporary, past, spent, cut>>

CutIf(condition) ==
  /\ cut' = (cut \/ condition)
  /\ past' = IF cut' THEN <<>> ELSE past

Chosen(o, v) ==
  /\ command' = [command EXCEPT ![o] =
                   [at |-> "read", version |-> v, history |-> Kept(Append(history, v))]]
  /\ CutIf(\E other \in Operator \ {o} : Activating(other))

Activate(o, v) ==
  /\ At(o, "free") /\ Costs
  /\ v \in Listed /\ Chosen(o, v)
  /\ UNCHANGED <<content, files>>

\* rollback_bundle(): the latest of the history but its last entry that is
\* not the active one.
\* Mutation: the earliest.
TargetEarliest ==
  LET others == {i \in 1 .. Len(history) - 1 : history[i] \in Listed \ {marker}} IN
  IF others = {} THEN None ELSE history[CHOOSE i \in others : \A j \in others : i <= j]
Target ==
  LET others == {i \in 1 .. Len(history) - 1 : history[i] \in Listed \ {marker}} IN
  IF others = {} THEN None ELSE history[CHOOSE i \in others : \A j \in others : j <= i]

\* It fails when the active bundle is missing, or when there is no other.
Rollback(o) ==
  /\ At(o, "free") /\ Costs
  /\ Loads
  /\ Target # None /\ Chosen(o, Target)
  /\ UNCHANGED <<content, files>>

\* activate_bundle(): the history first, then the marker, each written under
\* its temporary name and moved.
WriteHistory(o) ==
  /\ At(o, "read") /\ Goes(o, "history_written")
  /\ temporary' = [temporary EXCEPT !.history = command[o].history]
  /\ UNCHANGED <<content, bundles, history, marker, past, spent, cut>>
MoveHistory(o) ==
  /\ At(o, "history_written") /\ temporary.history # None /\ Goes(o, "recorded")
  /\ history' = temporary.history
  /\ temporary' = [temporary EXCEPT !.history = None]
  /\ UNCHANGED <<content, bundles, marker, past, spent, cut>>
WriteMarker(o) ==
  /\ At(o, "recorded") /\ Goes(o, "marker_written")
  /\ temporary' = [temporary EXCEPT !.marker = command[o].version]
  /\ UNCHANGED <<content, bundles, history, marker, past, spent, cut>>
MoveMarker(o) ==
  /\ At(o, "marker_written") /\ temporary.marker # None /\ Returns(o)
  /\ marker' = temporary.marker
  /\ past' = IF cut THEN past ELSE Append(past, temporary.marker)
  /\ temporary' = [temporary EXCEPT !.marker = None]
  /\ UNCHANGED <<content, bundles, history, spent, cut>>

\* Another command has moved the temporary file, or the process dies.
Fails(o) ==
  /\ command[o] # Free /\ Returns(o)
  /\ CutIf(Activating(o))
  /\ UNCHANGED <<content, files, spent>>

Damage(v) ==
  /\ bundles[v] = "whole" /\ spent.damages < MaxDamage
  /\ bundles' = [bundles EXCEPT ![v] = "damaged"]
  /\ spent' = [spent EXCEPT !.damages = @ + 1]
  /\ UNCHANGED <<content, history, marker, temporary, command, past, cut>>

-----------------------------------------------------------------------------
Next ==
  \/ \E v \in Version : Edit(v) \/ Damage(v)
  \/ \E o \in Operator :
       \/ Build(o) \/ Built(o) \/ Rollback(o)
       \/ \E v \in Version : Activate(o, v)
       \/ WriteHistory(o) \/ MoveHistory(o) \/ WriteMarker(o) \/ MoveMarker(o)
       \/ Fails(o)

Spec == Init /\ [][Next]_vars

-----------------------------------------------------------------------------
(* Properties                                                              *)

TypeOK ==
  /\ content \in Version
  /\ \A v \in Version : bundles[v] \in {"absent", "whole", "damaged"}
  /\ marker \in Version \cup {None} /\ temporary.marker \in Version \cup {None}
  /\ Len(history) <= HistoryLimit /\ \A i \in 1 .. Len(history) : history[i] \in Version

Before(v) == \E i \in 1 .. Len(past) : past[i] = v

\* Unless an activation was cut short or overlapped another, a rollback goes to
\* what was active last before the bundle that is active now and is still whole.
RollbackGoesBack ==
  ~cut /\ Target # None =>
    \E i \in 1 .. Len(past) - 1 :
      /\ past[i] = Target
      /\ \A j \in i + 1 .. Len(past) : past[j] \notin Listed \ {marker}
=============================================================================
