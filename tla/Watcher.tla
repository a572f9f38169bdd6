------------------------------ MODULE Watcher -------------------------------
(***************************************************************************)
(* The file watcher (pkg/watcher/watcher.go): names are added and removed  *)
(* by callers, and a loop lists the watched files on every tick, sends     *)
(* what changed since the last list and then stores the new list.  The     *)
(* lock is held while the files are listed and while the events are sent,  *)
(* and free in between.  Start and Close are not under the lock: a Start   *)
(* that comes between two steps of Close starts a second loop.             *)
(*                                                                         *)
(* The disk has one directory with files in it, and files outside.  What   *)
(* is known of a file is its identity, a modification time and a mode, the *)
(* last two being bits.  The reader of the events takes each as it comes.  *)
(* The reader knows what was there when a name was added that was not      *)
(* watched, and what the events and errors tell.  The new path of a        *)
(* renamed file is not in the event and is kept with it only to say what   *)
(* the reader is told, which of the file at its new path is that it is     *)
(* there.                                                                  *)
(***************************************************************************)
EXTENDS Integers, FiniteSets, Functions

CONSTANTS
    Dir,            \* the directory
    Inside, Outside,\* the files
    WatchNames,     \* what callers add and remove
    Loops,          \* bound on the loops that are started
    MaxChanges,     \* bound on the changes of the disk
    MaxCalls        \* bound on the calls of Add, Remove, Start and Close

ASSUME WatcherAssumption ==
    /\ Inside \cap Outside = {} /\ Dir \notin Inside \cup Outside
    /\ WatchNames \subseteq {Dir} \cup Outside /\ MaxChanges \in Nat /\ MaxCalls \in Nat

VARIABLES
    disk,           \* the files there are, with what is known of each
    names, files,   \* Watcher.names and Watcher.files
    running,
    closing,        \* how many calls of Close have yet to close closed
    closePc,        \* "open", "closed", "ended" when Events and Errors are closed
                    \* too, and "cleared" when Close is over
    watch,          \* of each loop, where Start or doWatch is: "off", "asked",
                    \* "starting", "idle", "list", "error", "listed", "events",
                    \* "store" or "left"
    currFileList,
    toList,         \* the names listForAll has not come to
    pending,        \* the events pollEvents has to send
    panicked,       \* a channel was closed twice, or sent to when closed
    told,           \* history: the files as the reader knows them
    seen,           \* history: the files as they were when last listed, or when
                    \* their name was added
    untold,         \* history: the files of a call that fell between a list and
                    \* its store, and those that changed before their name was
                    \* added again
    changes, calls  \* history

callerVars == <<running, closing, closePc, panicked, calls>>
pollVars == <<watch, currFileList, toList, pending>>
history == <<told, seen, untold>>
watchVars == <<disk, names, files, callerVars, pollVars, history, changes>>

Paths == {Dir} \cup Inside \cup Outside
Children(p) == IF p = Dir THEN Inside ELSE {}
NoFiles == [p \in {} |-> {}]

closed == closePc # "open"

WatchInit(disks) ==
    /\ disk \in disks
    /\ names = {} /\ files = NoFiles
    /\ running = 0 /\ closing = 0 /\ closePc = "open" /\ panicked = FALSE
    /\ watch = [g \in Loops |-> "off"] /\ currFileList = [g \in Loops |-> NoFiles]
    /\ toList = [g \in Loops |-> {}] /\ pending = [g \in Loops |-> {}]
    /\ told = NoFiles /\ seen = NoFiles /\ untold = {}
    /\ changes = 0 /\ calls = 0

Locked == \E g \in Loops : watch[g] \in {"list", "error", "events"}
MidRound == \E g \in Loops : watch[g] \in {"listed", "store"}
Raced(name) == IF MidRound THEN {name} \cup Children(name) ELSE {}

\* Loops that Start has not launched.
Out == {"off", "asked", "starting"}

\* A file replaced by another with the same times and mode is not noticed.
Visible(f) == [p \in DOMAIN f |-> <<f[p].mod, f[p].mode>>]

\* The files of g that f does not have, or not as they are.
Differing(f, g) == {p \in DOMAIN g : p \notin DOMAIN f \/ Visible(f)[p] # Visible(g)[p]}

Overlay(f, g) == [p \in DOMAIN f \cup DOMAIN g |-> IF p \in DOMAIN g THEN g[p] ELSE f[p]]
Without(f, ps) == Restrict(f, DOMAIN f \ ps)

-----------------------------------------------------------------------------
(* The disk.  A change of the entries of the directory is a change of its  *)
(* own modification time.                                                  *)

Touch(d, ps) == [p \in DOMAIN d |->
    IF p = Dir /\ ps \cap Inside # {} THEN [d[p] EXCEPT !.mod = 1 - @] ELSE d[p]]

MayExist(p) == p \in Inside => Dir \in DOMAIN disk

Change ==
    /\ changes < MaxChanges /\ changes' = changes + 1
    /\ \/ \E p \in Inside \cup Outside :
          \/ /\ p \notin DOMAIN disk /\ MayExist(p)
             /\ disk' = Touch(Overlay(disk, [q \in {p} |-> [id |-> changes + Cardinality(Paths), mod |-> 0, mode |-> 0]]), {p})
          \/ p \in DOMAIN disk /\ disk' = Touch(Without(disk, {p}), {p})
          \/ p \in DOMAIN disk /\ disk' = [disk EXCEPT ![p].mod = 1 - @]
          \/ p \in DOMAIN disk /\ disk' = [disk EXCEPT ![p].mode = 1 - @]
       \/ \E p \in DOMAIN disk \ {Dir}, q \in (Inside \cup Outside) \ DOMAIN disk :
             MayExist(q) /\ disk' = Touch(Overlay(Without(disk, {p}), [r \in {q} |-> disk[p]]), {p, q})
       \/ Dir \in DOMAIN disk /\ disk' = Without(disk, {Dir} \cup Inside)
    /\ UNCHANGED <<names, files, callerVars, pollVars, history>>

-----------------------------------------------------------------------------
(* The callers.                                                            *)

listForName(name) == Restrict(disk, DOMAIN disk \cap ({name} \cup Children(name)))

Call == calls < MaxCalls /\ calls' = calls + 1

\* The flag is set before closed is looked at, and stays set.
StartWatcher(g) ==
    /\ Call /\ running = 0 /\ watch[g] = "off"
    /\ running' = 1 /\ watch' = [watch EXCEPT ![g] = "asked"]
    /\ UNCHANGED <<disk, names, files, closing, closePc, panicked, currFileList, toList, pending, history, changes>>

StartLooks(g) ==
    /\ watch[g] = "asked" /\ watch' = [watch EXCEPT ![g] = IF closed THEN "off" ELSE "starting"]
    /\ UNCHANGED <<disk, names, files, callerVars, currFileList, toList, pending, history, changes>>

Launch(g) ==
    /\ watch[g] = "starting" /\ watch' = [watch EXCEPT ![g] = "idle"]
    /\ UNCHANGED <<disk, names, files, callerVars, currFileList, toList, pending, history, changes>>

\* Close: the flag, closed, the wait for the loops with Events and Errors, and
\* the lists.
CloseWatcher ==
    /\ Call /\ running = 1
    /\ running' = 0 /\ closing' = closing + 1
    /\ UNCHANGED <<disk, names, files, closePc, panicked, pollVars, history, changes>>

CloseClosed ==
    /\ closing > 0 /\ closing' = closing - 1
    /\ IF closed THEN panicked' = TRUE /\ UNCHANGED closePc ELSE closePc' = "closed" /\ UNCHANGED panicked
    /\ UNCHANGED <<disk, names, files, running, calls, pollVars, history, changes>>

CloseWaits ==
    /\ closePc = "closed" /\ \A g \in Loops : watch[g] \in Out \cup {"left"}
    /\ closePc' = "ended"
    /\ UNCHANGED <<disk, names, files, running, closing, panicked, calls, pollVars, history, changes>>

CloseEnds ==
    /\ closePc = "ended" /\ ~Locked
    /\ closePc' = "cleared" /\ names' = {} /\ files' = NoFiles
    /\ UNCHANGED <<disk, running, closing, panicked, calls, pollVars, history, changes>>

\* A name that is not there cannot be added.  Of the files of a name that is
\* watched already, the reader knows what the events tell and no more.
Add(name) ==
    LET list == listForName(name)
        again == name \in names
    IN /\ Call /\ ~Locked /\ ~closed /\ name \in DOMAIN disk
       /\ names' = names \cup {name}
       /\ files' = Overlay(files, list)
       /\ told' = IF again THEN told ELSE Overlay(told, list)
       /\ seen' = IF again THEN seen ELSE Overlay(seen, list)
       /\ untold' = untold \cup Raced(name) \cup (IF again THEN Differing(files, list) ELSE {})
       /\ UNCHANGED <<disk, running, closing, closePc, panicked, pollVars, changes>>

\* doRemove: the directory's files go with it, if it is in the list.
doRemove(f, name) == IF name \in DOMAIN f THEN Without(f, {name} \cup Children(name)) ELSE f

Remove(name) ==
    /\ Call /\ ~Locked /\ ~closed
    /\ names' = names \ {name} /\ files' = doRemove(files, name)
    /\ told' = Without(told, {name} \cup Children(name))
    /\ seen' = Without(seen, {name} \cup Children(name))
    /\ untold' = untold \cup Raced(name)
    /\ UNCHANGED <<disk, running, closing, closePc, panicked, pollVars, changes>>

-----------------------------------------------------------------------------
(* doWatch.                                                                *)

\* Where listForAll goes when a name is done, and what it has seen in the end.
Listed(g, left, list) ==
    /\ watch' = [watch EXCEPT ![g] = IF left = {} THEN "listed" ELSE "list"]
    /\ seen' = IF left = {} THEN list ELSE seen

\* A tick: listForAll takes the lock and goes through the names in any order.
Tick(g) ==
    /\ watch[g] = "idle" /\ ~Locked
    /\ currFileList' = [currFileList EXCEPT ![g] = NoFiles] /\ toList' = [toList EXCEPT ![g] = names]
    /\ Listed(g, names, NoFiles)
    /\ UNCHANGED <<disk, names, files, callerVars, pending, told, untold, changes>>

\* A name that is gone is no longer watched, and an error is sent for it, which
\* tells the reader so.
ListName(g, n) ==
    /\ watch[g] = "list" /\ n \in toList[g] /\ toList' = [toList EXCEPT ![g] = @ \ {n}]
    /\ IF n \in DOMAIN disk
       THEN LET list == Overlay(currFileList[g], listForName(n)) IN
            /\ currFileList' = [currFileList EXCEPT ![g] = list] /\ Listed(g, toList'[g], list)
            /\ UNCHANGED <<names, files, told>>
       ELSE /\ names' = names \ {n} /\ files' = doRemove(files, n)
            /\ told' = Without(told, {n} \cup Children(n))
            /\ watch' = [watch EXCEPT ![g] = "error"] /\ UNCHANGED <<currFileList, seen>>
    /\ UNCHANGED <<disk, callerVars, pending, untold, changes>>

SendError(g) ==
    /\ watch[g] = "error"
    /\ panicked' = (closePc \in {"ended", "cleared"})
    /\ Listed(g, toList[g], currFileList[g])
    /\ UNCHANGED <<disk, names, files, running, closing, closePc, calls, currFileList, toList, pending,
                   told, untold, changes>>

\* The list is nil when the watcher is closed while an error waits.
ListStops(g) ==
    /\ watch[g] = "error" /\ closed
    /\ toList' = [toList EXCEPT ![g] = {}] /\ currFileList' = [currFileList EXCEPT ![g] = NoFiles]
    /\ watch' = [watch EXCEPT ![g] = "listed"]
    /\ UNCHANGED <<disk, names, files, callerVars, pending, history, changes>>

\* The files that came and those that went, and a way to take some of the first
\* for some of the second: each for one that is the same file, if there is one.
Came(new) == DOMAIN new \ DOMAIN files
Went(new) == DOMAIN files \ DOMAIN new
Same(new, q) == {p \in Went(new) : files[p].id = new[q].id}
Origins(new) == LET moved == {q \in Came(new) : Same(new, q) # {}}
                IN {from \in [moved -> Went(new)] : \A q \in moved : from[q] \in Same(new, q)}

\* Mutant: the mode of a file is not looked at.
MutEvents(new, from) ==
    LET old == files
        both == DOMAIN old \cap DOMAIN new
    IN {[op |-> "modify", path |-> p, info |-> new[p]] : p \in {r \in both : old[r].mod # new[r].mod}}
       \cup {[op |-> "move", path |-> from[q], info |-> old[from[q]], to |-> q] : q \in DOMAIN from}
       \cup {[op |-> "create", path |-> p, info |-> new[p]] : p \in Came(new) \ DOMAIN from}
       \cup {[op |-> "remove", path |-> p, info |-> old[p]] : p \in Went(new) \ Range(from)}

\* What pollEvents sends.
Events(new, from) ==
    LET old == files
        both == DOMAIN old \cap DOMAIN new
    IN {[op |-> "modify", path |-> p, info |-> new[p]] : p \in {r \in both : old[r].mod # new[r].mod}}
       \cup {[op |-> "chmod", path |-> p, info |-> new[p]] : p \in {r \in both : old[r].mode # new[r].mode}}
       \cup {[op |-> "move", path |-> from[q], info |-> old[from[q]], to |-> q] : q \in DOMAIN from}
       \cup {[op |-> "create", path |-> p, info |-> new[p]] : p \in Came(new) \ DOMAIN from}
       \cup {[op |-> "remove", path |-> p, info |-> old[p]] : p \in Went(new) \ Range(from)}

\* The order they are sent in: changes, a file's modification before its mode,
\* then moves, creations and removals.
Before(e, f) ==
    LET rank(x) == CASE x.op \in {"modify", "chmod"} -> 1 [] x.op = "move" -> 2
                     [] x.op = "create" -> 3 [] OTHER -> 4
    IN rank(e) < rank(f) \/ (e.path = f.path /\ e.op = "modify" /\ f.op = "chmod")

PollEvents(g) ==
    /\ watch[g] = "listed" /\ ~Locked
    /\ \E from \in Origins(currFileList[g]) : pending' = [pending EXCEPT ![g] = Events(currFileList[g], from)]
    /\ watch' = [watch EXCEPT ![g] = IF pending'[g] = {} THEN "store" ELSE "events"]
    /\ UNCHANGED <<disk, names, files, callerVars, currFileList, toList, history, changes>>

\* What the reader makes of an event.  That of a file that moved has what was
\* known of it before: the file may have changed since.
Moved == [mod |-> 2, mode |-> 2]

Hear(e) ==
    CASE e.op = "remove" -> Without(told, {e.path})
      [] e.op = "move" -> Overlay(Without(told, {e.path}), [p \in {e.to} |-> Moved])
      [] OTHER -> Overlay(told, [p \in {e.path} |-> e.info])

SendEvent(g) ==
    /\ watch[g] = "events"
    /\ panicked' = (closePc \in {"ended", "cleared"})
    /\ \E e \in pending[g] :
          /\ \A f \in pending[g] : ~Before(f, e)
          /\ pending' = [pending EXCEPT ![g] = @ \ {e}] /\ told' = Hear(e)
    /\ watch' = [watch EXCEPT ![g] = IF pending'[g] = {} THEN "store" ELSE "events"]
    /\ UNCHANGED <<disk, names, files, running, closing, closePc, calls, currFileList, toList,
                   seen, untold, changes>>

\* Closed: the other events are not sent.
EventsStop(g) ==
    /\ watch[g] = "events" /\ closed
    /\ pending' = [pending EXCEPT ![g] = {}] /\ watch' = [watch EXCEPT ![g] = "store"]
    /\ UNCHANGED <<disk, names, files, callerVars, currFileList, toList, history, changes>>

StoreFiles(g) ==
    /\ watch[g] = "store" /\ ~Locked
    /\ files' = currFileList[g]
    /\ currFileList' = [currFileList EXCEPT ![g] = NoFiles] /\ watch' = [watch EXCEPT ![g] = "idle"]
    /\ UNCHANGED <<disk, names, callerVars, toList, pending, history, changes>>

WatchLeaves(g) ==
    /\ watch[g] = "idle" /\ closed /\ watch' = [watch EXCEPT ![g] = "left"]
    /\ UNCHANGED <<disk, names, files, callerVars, currFileList, toList, pending, history, changes>>

\* A panic ends the program.
WatchNext ==
    /\ ~panicked
    /\ \/ Change \/ CloseWatcher \/ CloseClosed \/ CloseWaits \/ CloseEnds
       \/ \E n \in WatchNames : Add(n) \/ Remove(n)
       \/ \E g \in Loops : \/ StartWatcher(g) \/ StartLooks(g) \/ Launch(g)
                           \/ Tick(g) \/ SendError(g) \/ ListStops(g) \/ PollEvents(g) \/ SendEvent(g)
                           \/ EventsStop(g) \/ StoreFiles(g) \/ WatchLeaves(g)
                           \/ \E n \in WatchNames : ListName(g, n)

-----------------------------------------------------------------------------
OneLoop == \A g, h \in Loops : g # h => watch[g] \in Out \/ watch[h] \in Out

\* One loop at most runs, and no round is under way.
BetweenRounds == OneLoop /\ ~closed /\ \A g \in Loops : watch[g] \in Out \cup {"idle"}

\* The reader knows whether the file was there when the disk was last looked at,
\* and its look unless it was renamed.
Informed(p) ==
    /\ p \in DOMAIN told <=> p \in DOMAIN seen
    /\ p \in DOMAIN told /\ told[p] # Moved => Visible(told)[p] = Visible(seen)[p]

\* No two loops run before a Close has begun; Start says that a watcher is already
\* started (watcher.go:16).  Between two rounds the events and errors have told
\* the reader of every file that came, went or changed since the round before,
\* or since its name was added, and of none that did not.  The only files of
\* which they may not are those of a name that was added or removed between a
\* list and its store, though watcher.go:91 and 116 say that a call waits for the
\* events, and those that had changed when their name was added again, though
\* watcher.go:21 says that an event is sent for each.
EventsTell ==
    /\ ~closed /\ closing = 0 => OneLoop
    /\ BetweenRounds => \A p \in (DOMAIN told \cup DOMAIN seen) \ untold : Informed(p)
=============================================================================
