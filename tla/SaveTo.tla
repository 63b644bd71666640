------------------------------- MODULE SaveTo -------------------------------
(***************************************************************************)
(* Registry.SaveTo (registry_save.go, save_unix.go): several saves to the  *)
(* same file, by one process or by many, and a crash of the machine.       *)
(*                                                                         *)
(* Each saver calls SaveTo once; its number stands for the document it     *)
(* writes, for the inode of its temp file and for the temp file's name.    *)
(* A crash keeps of every directory entry one of the values it has had     *)
(* since the directory was last synced, and of a file that was not synced  *)
(* since it last changed whatever had reached the disk.                    *)
(*                                                                         *)
(* Not modelled: an error of Lstat or Stat on a file that exists.          *)
(***************************************************************************)
EXTENDS Naturals, Sequences

CONSTANTS
    Savers,
    Names,          \* the names callers and links use
    DirOf,          \* of each name, its directory
    Setups,         \* at first: layout, what the names stand for, and rights, whether the process
                    \* may give a file an "owner", a "group" or "none" that it is not its own
    MaxSymlinkHops

Files == Savers \cup {"old"}
Places == Savers \cup Names

Missing == [kind |-> "missing"]
File(f) == [kind |-> "file", inode |-> f]
Link(n) == [kind |-> "link", to |-> n]
Entries == {Missing} \cup {File(f) : f \in Files} \cup {Link(n) : n \in Names}

ASSUME SaveToAssumption ==
    /\ Savers \cap (Names \cup {"old"}) = {}
    /\ Setups \subseteq [layout : [Names -> {Missing, File("old")} \cup {Link(n) : n \in Names}],
                         rights : {"owner", "group", "none"}]
    /\ MaxSymlinkHops \in Nat

OldAttrs == [mode |-> "old", owner |-> "old", group |-> "old"]
NewAttrs == [mode |-> "0600", owner |-> "self", group |-> "self"]
NoAttrs == [mode |-> "none", owner |-> "none", group |-> "none"]

VARIABLES
    layout, rights, \* chosen at first
    entry,          \* of each place, its directory entry
    maybe,          \* of each place, the entries a crash may leave
    inode,          \* content, attributes, and whether they are on disk
    saver,          \* where each SaveTo is, and its locals
    crashed,        \* the machine has crashed; once is enough
    renames         \* history: the savers whose rename took place, in order

saveVars == <<layout, rights, entry, maybe, inode, saver, crashed, renames>>

Idle == [pc |-> "idle", target |-> "none", hops |-> 0, existing |-> NoAttrs, failed |-> FALSE, sure |-> FALSE]

SaveInitAs(setup) ==
    /\ layout = setup.layout /\ rights = setup.rights
    /\ entry = [p \in Places |-> IF p \in Names THEN layout[p] ELSE Missing]
    /\ maybe = [p \in Places |-> {entry[p]}]
    /\ inode = [f \in Files |-> [content |-> IF f = "old" THEN "whole" ELSE "none", synced |-> f = "old",
                                 attrs |-> IF f = "old" THEN OldAttrs ELSE NewAttrs]]
    /\ saver = [s \in Savers |-> Idle]
    /\ crashed = FALSE /\ renames = <<>>
-----------------------------------------------------------------------------
Goto(s, pc) == saver' = [saver EXCEPT ![s].pc = pc]
Fail(s, pc) == saver' = [saver EXCEPT ![s].pc = pc, ![s].failed = TRUE]
SetEntry(p, e) == entry' = [entry EXCEPT ![p] = e] /\ maybe' = [maybe EXCEPT ![p] = @ \cup {e}]
SetInode(f, i) == inode' = [inode EXCEPT ![f] = i]

DirsUnchanged == UNCHANGED <<layout, rights, entry, maybe, crashed, renames>>
OnlySaver == DirsUnchanged /\ UNCHANGED inode

\* Calls that are refused first (a closed registry, no format) do nothing.
SaveCall(s, n) ==
    /\ saver[s].pc = "idle"
    /\ saver' = [saver EXCEPT ![s].pc = "resolve", ![s].target = n]
    /\ OnlySaver

\* Mutant of resolveSymlinks: the link itself is written.
resolveNothing(s) == saver[s].pc = "resolve" /\ Goto(s, "stat") /\ OnlySaver

\* resolveSymlinks, one iteration: Lstat and Readlink.
resolveSymlinks(s) ==
    /\ saver[s].pc = "resolve"
    /\ LET e == entry[saver[s].target]
       IN  IF e.kind = "link" /\ saver[s].hops < MaxSymlinkHops
           THEN saver' = [saver EXCEPT ![s].target = e.to, ![s].hops = @ + 1]
           ELSE Goto(s, "stat")
    /\ OnlySaver

\* Stat follows links: at one that goes in circles it fails, as on no file.
SaveStat(s) ==
    /\ saver[s].pc = "stat"
    /\ LET e == entry[saver[s].target]
       IN  saver' = [saver EXCEPT ![s].pc = "create",
                                  ![s].existing = IF e.kind = "file" THEN inode[e.inode].attrs ELSE NoAttrs]
    /\ OnlySaver

CreateTemp(s) ==
    /\ saver[s].pc = "create"
    /\ \/ SetEntry(s, File(s)) /\ Goto(s, "encode") /\ UNCHANGED <<layout, rights, inode, crashed, renames>>
       \/ Fail(s, "returned") /\ OnlySaver

\* encodeWith; an error leaves what was written before it.
encodeWith(s) ==
    /\ saver[s].pc = "encode"
    /\ \/ SetInode(s, [inode[s] EXCEPT !.content = "whole"]) /\ Goto(s, "own")
       \/ SetInode(s, [inode[s] EXCEPT !.content = "part"]) /\ Fail(s, "close")
    /\ DirsUnchanged

\* keepOwner: the owner and the group, else the group, else neither.
keepOwner(attrs, existing) ==
    [attrs EXCEPT !.owner = IF rights = "owner" THEN existing.owner ELSE @,
                  !.group = IF rights \in {"owner", "group"} THEN existing.group ELSE @]

\* finishTemp up to the Chmod: a new file stays as CreateTemp made it.
TakeAttrs(s) ==
    /\ saver[s].pc = "own"
    /\ LET attrs == keepOwner(inode[s].attrs, saver[s].existing)
       IN  IF saver[s].existing = NoAttrs THEN Goto(s, "sync") /\ UNCHANGED inode
           ELSE \/ /\ SetInode(s, [inode[s] EXCEPT !.attrs = [attrs EXCEPT !.mode = saver[s].existing.mode]])
                   /\ Goto(s, "sync")
                \/ SetInode(s, [inode[s] EXCEPT !.attrs = attrs]) /\ Fail(s, "close")
    /\ DirsUnchanged

\* Mutant of SyncTemp: the temp file is not flushed.
SyncNothing(s) == saver[s].pc = "sync" /\ Goto(s, "close") /\ OnlySaver

SyncTemp(s) ==
    /\ saver[s].pc = "sync"
    /\ \/ SetInode(s, [inode[s] EXCEPT !.synced = TRUE]) /\ Goto(s, "close") /\ DirsUnchanged
       \/ Fail(s, "close") /\ OnlySaver

CloseTemp(s) ==
    /\ saver[s].pc = "close"
    /\ \/ Goto(s, IF saver[s].failed THEN "remove" ELSE "rename")
       \/ Fail(s, "remove")
    /\ OnlySaver

\* The target's entry and the temp file's: atomic for who looks, not for a
\* crash before the directory is synced.
Rename(s) ==
    /\ saver[s].pc = "rename"
    /\ \/ /\ entry' = [entry EXCEPT ![saver[s].target] = File(s), ![s] = Missing]
          /\ maybe' = [maybe EXCEPT ![saver[s].target] = @ \cup {File(s)}, ![s] = @ \cup {Missing}]
          /\ renames' = Append(renames, s)
          /\ Goto(s, "syncDir")
          /\ UNCHANGED <<layout, rights, inode, crashed>>
       \/ Fail(s, "remove") /\ OnlySaver

\* Its own error is ignored: the temp file then stays.
RemoveTemp(s) ==
    /\ saver[s].pc = "remove"
    /\ \/ SetEntry(s, Missing) /\ Goto(s, "returned") /\ UNCHANGED <<layout, rights, inode, crashed, renames>>
       \/ Goto(s, "littered") /\ OnlySaver

\* The temp file of s is next to its target.
InDir(p, d) == d = DirOf[IF p \in Names THEN p ELSE saver[p].target]
HasDir(p) == p \in Names \/ saver[p].target \in Names

\* Mutant of syncDir: nothing is flushed.
syncNoDir(s) == saver[s].pc = "syncDir" /\ saver' = [saver EXCEPT ![s].pc = "returned", ![s].sure = TRUE] /\ OnlySaver

\* Best effort: an error of it is not returned.
syncDir(s) ==
    /\ saver[s].pc = "syncDir"
    /\ \/ /\ maybe' = [p \in Places |-> IF HasDir(p) /\ InDir(p, DirOf[saver[s].target]) THEN {entry[p]} ELSE maybe[p]]
          /\ saver' = [saver EXCEPT ![s].pc = "returned", ![s].sure = TRUE]
          /\ UNCHANGED <<layout, rights, entry, inode, crashed, renames>>
       \/ Goto(s, "returned") /\ OnlySaver

\* Savers in flight are gone; those that have not begun run after the restart.
Crash ==
    /\ ~crashed /\ crashed' = TRUE
    /\ entry' \in {e \in [Places -> UNION {maybe[p] : p \in Places}] : \A p \in Places : e[p] \in maybe[p]}
    /\ maybe' = [p \in Places |-> {entry'[p]}]
    /\ \E lost \in SUBSET {f \in Files : ~inode[f].synced} :
          inode' = [f \in Files |-> IF f \in lost THEN [content |-> "part", synced |-> TRUE, attrs |-> NewAttrs]
                                    ELSE [inode[f] EXCEPT !.synced = TRUE]]
    /\ saver' = [s \in Savers |-> IF saver[s].pc \in {"idle", "returned", "littered"} THEN saver[s]
                                  ELSE [saver[s] EXCEPT !.pc = "crashed"]]
    /\ UNCHANGED <<layout, rights, renames>>

SaveStep(s) ==
    \/ resolveSymlinks(s) \/ SaveStat(s) \/ CreateTemp(s) \/ encodeWith(s) \/ TakeAttrs(s) \/ SyncTemp(s)
    \/ CloseTemp(s) \/ Rename(s) \/ RemoveTemp(s) \/ syncDir(s)

SaveNext ==
    \/ \E s \in Savers : SaveStep(s) \/ \E n \in Names : SaveCall(s, n)
    \/ Crash

SaveSpec == (\E setup \in Setups : SaveInitAs(setup)) /\ [][SaveNext]_saveVars
-----------------------------------------------------------------------------
\* Whoever opens the file, at any time and after a crash, finds one whole
\* document: "a temp file next to path, which is synced to disk and then
\* renamed over it" (SaveTo).
SavedWhole ==
    \A n \in Names : \A e \in maybe[n] :
        e.kind = "file" => inode[e.inode].content = "whole" /\ inode[e.inode].synced

\* A save that returned after its directory was synced is not undone by a
\* crash: the file then holds its document or that of a later rename.
Position(f) == CHOOSE i \in 0..Len(renames) : IF f = "old" THEN i = 0 ELSE i > 0 /\ renames[i] = f
SavedDurable ==
    \A s \in Savers : saver[s].pc = "returned" /\ saver[s].sure =>
        \A e \in maybe[saver[s].target] : e.kind = "file" /\ Position(e.inode) >= Position(s)

\* Names that only lead to each other.
Circular == UNION {S \in SUBSET Names : \A n \in S : layout[n].kind = "link" /\ layout[n].to \in S}

\* "the file it points to is written and the link is kept", "An existing file
\* keeps its permissions", and its owner and group as far as the caller may
\* set them, "a new file is created owner-only"; a save that fails leaves
\* every name as it was, and no temp file unless removing it failed (SaveTo).
SavedInPlace ==
    /\ \A n \in Names \ Circular : layout[n].kind = "link" => entry[n] = layout[n]
    /\ \A n \in Names : entry[n].kind = "file" =>
          LET attrs == inode[entry[n].inode].attrs
          IN  IF layout[n] # File("old") THEN attrs.mode = "0600"
              ELSE /\ attrs.mode = "old"
                   /\ rights = "owner" => attrs.owner = "old"
                   /\ rights # "none" => attrs.group = "old"
    /\ \A s \in Savers : saver[s].failed =>
          /\ \A n \in Names : File(s) \notin maybe[n]
          /\ saver[s].pc = "returned" /\ ~crashed => entry[s] = Missing
=============================================================================
