----------------------------- MODULE SaveProofs -----------------------------
(***************************************************************************)
(* What SaveTo promises, for any savers, names, links and directories, and *)
(* whenever the machine crashes: never half a document under a name, what  *)
(* a synced directory holds is not undone, links and attributes are kept.  *)
(***************************************************************************)
EXTENDS SaveTo, FiniteSetTheorems, TLAPS

Attrs == [mode : {"old", "0600", "none"}, owner : {"old", "self", "none"}, group : {"old", "self", "none"}]
Inodes == [content : {"none", "part", "whole"}, synced : BOOLEAN, attrs : Attrs]
Steps == {"idle", "resolve", "stat", "create", "encode", "own", "sync", "close", "rename",
          "remove", "syncDir", "returned", "littered", "crashed"}
Locals == [pc : Steps, target : Names \cup {"none"}, hops : Nat, existing : Attrs,
           failed : BOOLEAN, sure : BOOLEAN]

SaveTypes ==
    /\ entry \in [Places -> Entries]
    /\ maybe \in [Places -> SUBSET Entries]
    /\ inode \in [Files -> Inodes]
    /\ saver \in [Savers -> Locals]
    /\ rights \in {"owner", "group", "none"}

Flushed(f) == inode[f].content = "whole" /\ inode[f].synced

\* A saver has a target once it is called; its document is whole once it is
\* encoded, and on disk once it is synced.
Progress ==
    \A s \in Savers :
        /\ saver[s].pc # "idle" => saver[s].target \in Names
        /\ saver[s].pc \in {"own", "sync"} => inode[s].content = "whole"
        /\ saver[s].pc = "close" /\ ~saver[s].failed => Flushed(s)
        /\ saver[s].pc = "rename" => Flushed(s)

\* A saver whose file may be found under a name does not write to it again.
Finished ==
    \A n \in Names : \A s \in Savers :
        File(s) \in maybe[n] => saver[s].pc \in {"syncDir", "returned", "crashed"}

NamesFlushed ==
    \A n \in Names : \A e \in maybe[n] : e.kind = "file" => Flushed(e.inode)

SaveInv ==
    /\ SaveTypes
    /\ \A p \in Places : entry[p] \in maybe[p]
    /\ Progress /\ Finished /\ NamesFlushed
-----------------------------------------------------------------------------
\* Savers, names and the old file are different things, and a link is not a file.
LEMMA Kinds ==
    /\ Savers \cap Names = {} /\ "old" \notin Savers
    /\ \A f \in Files : File(f) \in Entries /\ File(f).kind = "file" /\ File(f).inode = f
    /\ Missing \in Entries /\ Missing.kind = "missing"
    /\ \A n \in Names : Link(n) \in Entries /\ Link(n).kind = "link" /\ Link(n).to = n
    /\ \A e \in Entries : e.kind = "file" => \E f \in Files : e = File(f)
    /\ \A e \in Entries : e.kind = "link" => e.to \in Names
<1>1. Savers \cap Names = {} /\ "old" \notin Savers
  BY SaveToAssumption
<1>2. ASSUME NEW f \in Files PROVE File(f) \in Entries /\ File(f).kind = "file" /\ File(f).inode = f
  BY DEF File, Entries
<1>3. Missing \in Entries /\ Missing.kind = "missing"
  BY DEF Missing, Entries
<1>4. ASSUME NEW n \in Names PROVE Link(n) \in Entries /\ Link(n).kind = "link" /\ Link(n).to = n
  BY DEF Link, Entries
<1>5. ASSUME NEW e \in Entries
      PROVE  /\ e.kind = "file" => \E f \in Files : e = File(f)
             /\ e.kind = "link" => e.to \in Names
  <2>1. CASE e = Missing
    BY <2>1, <1>3
  <2>2. ASSUME NEW f \in Files, e = File(f) PROVE e.kind = "file"
    BY <2>2, <1>2
  <2>3. ASSUME NEW n \in Names, e = Link(n) PROVE e.kind = "link" /\ e.to \in Names
    BY <2>3, <1>4
  <2> QED BY <2>1, <2>2, <2>3 DEF Entries
<1> QED BY <1>1, <1>2, <1>3, <1>4, <1>5

LEMMA SaveInitInv == ASSUME NEW setup \in Setups, SaveInitAs(setup) PROVE SaveInv
<1>1. setup.layout \in [Names -> {Missing, File("old")} \cup {Link(n) : n \in Names}] /\ setup.rights \in {"owner", "group", "none"}
  BY SaveToAssumption
<1>2. SaveTypes
  <2>1. \A p \in Places : (IF p \in Names THEN layout[p] ELSE Missing) \in Entries
    BY <1>1, Kinds DEF SaveInitAs, Files
  <2>2. entry \in [Places -> Entries] /\ maybe \in [Places -> SUBSET Entries]
    BY <2>1 DEF SaveInitAs
  <2>3. inode \in [Files -> Inodes]
    BY DEF SaveInitAs, Inodes, Attrs, OldAttrs, NewAttrs
  <2>4. saver \in [Savers -> Locals]
    BY DEF SaveInitAs, Idle, Locals, Steps, Attrs, NoAttrs
  <2> QED BY <1>1, <2>2, <2>3, <2>4 DEF SaveTypes, SaveInitAs
<1>3. \A p \in Places : entry[p] \in maybe[p]
  BY DEF SaveInitAs
<1>4. \A n \in Names : maybe[n] \subseteq {Missing, File("old")} \cup {Link(m) : m \in Names}
  <2>1. layout \in [Names -> {Missing, File("old")} \cup {Link(m) : m \in Names}]
    BY <1>1 DEF SaveInitAs
  <2>2. \A n \in Names : maybe[n] = {layout[n]}
    BY DEF SaveInitAs, Places
  <2> QED BY <2>1, <2>2
<1>5. Progress
  BY DEF SaveInitAs, Progress, Idle
<1>6. Finished
  <2>1. \A s \in Savers : File(s) # Missing /\ File(s) # File("old") /\ \A n \in Names : File(s) # Link(n)
    BY Kinds DEF Files
  <2> QED BY <1>4, <2>1 DEF Finished
<1>7. NamesFlushed
  <2>1. Flushed("old")
    BY DEF SaveInitAs, Flushed, Files
  <2> QED BY <1>4, <2>1, Kinds DEF NamesFlushed, Files
<1> QED BY <1>2, <1>3, <1>5, <1>6, <1>7 DEF SaveInv
-----------------------------------------------------------------------------
\* What a saver may do: change itself and its inode, and put its file under a
\* name once the document is on disk and it will not write to it again.
LEMMA SaverMoves ==
    ASSUME SaveInv, NEW s \in Savers, NEW l \in Locals, NEW i \in Inodes,
           rights' = rights,
           saver' = [saver EXCEPT ![s] = l], inode' = [inode EXCEPT ![s] = i],
           entry' \in [Places -> Entries], maybe' \in [Places -> SUBSET Entries],
           \A p \in Places : entry'[p] \in maybe'[p],
           \A n \in Names : \A e \in maybe'[n] :
               \/ e \in maybe[n]
               \/ e = File(s) /\ l.pc = "syncDir" /\ i.content = "whole" /\ i.synced,
           \A n \in Names : File(s) \in maybe[n] => i = inode[s] /\ l.pc \in {"syncDir", "returned", "crashed"},
           l.pc # "idle" => l.target \in Names,
           l.pc \in {"own", "sync"} => i.content = "whole",
           (l.pc = "close" /\ ~l.failed) \/ l.pc = "rename" => i.content = "whole" /\ i.synced
    PROVE  SaveInv'
<1>1. SaveTypes'
  BY DEF SaveInv, SaveTypes, Files
<1>2. /\ saver'[s] = l /\ inode'[s] = i
      /\ \A t \in Savers \ {s} : saver'[t] = saver[t]
      /\ \A f \in Files \ {s} : inode'[f] = inode[f]
  BY DEF SaveInv, SaveTypes, Files
<1>3. Progress'
  BY <1>2 DEF SaveInv, Progress, Flushed, Files
<1>4. Finished'
  <2> SUFFICES ASSUME NEW n \in Names, NEW t \in Savers, File(t) \in maybe'[n]
               PROVE  saver'[t].pc \in {"syncDir", "returned", "crashed"}
    BY DEF Finished
  <2>1. CASE t = s
    BY <1>2, <2>1
  <2>2. CASE t # s
    <3>1. File(t) # File(s)
      BY <2>2, Kinds DEF Files
    <3> QED BY <1>2, <2>2, <3>1 DEF SaveInv, Finished
  <2> QED BY <2>1, <2>2
<1>5. NamesFlushed'
  <2> SUFFICES ASSUME NEW n \in Names, NEW e \in maybe'[n], e.kind = "file" PROVE Flushed(e.inode)'
    BY DEF NamesFlushed
  <2>1. CASE e \in maybe[n]
    <3>1. e \in Entries
      BY <2>1 DEF SaveInv, SaveTypes, Places
    <3>2. PICK f \in Files : e = File(f)
      BY <3>1, Kinds
    <3>3. e.inode = f /\ Flushed(f)
      BY <2>1, <3>2, Kinds DEF SaveInv, NamesFlushed
    <3>4. f = s => i = inode[s]
      BY <2>1, <3>2
    <3> QED BY <1>2, <3>3, <3>4 DEF Flushed
  <2>2. CASE e = File(s) /\ i.content = "whole" /\ i.synced
    BY <1>2, <2>2, Kinds DEF Flushed, Files
  <2> QED BY <2>1, <2>2
<1> QED BY <1>1, <1>3, <1>4, <1>5 DEF SaveInv

\* The steps that change nothing but the saver itself.
LEMMA SaverTurns ==
    ASSUME SaveInv, NEW s \in Savers, NEW l \in Locals,
           saver' = [saver EXCEPT ![s] = l], OnlySaver,
           saver[s].pc = "syncDir" => l.pc = "returned",
           saver[s].pc \notin {"returned", "crashed"},
           l.pc # "idle" => l.target \in Names,
           l.pc \notin {"own", "sync"},
           (l.pc = "close" /\ ~l.failed) \/ l.pc = "rename" => Flushed(s)
    PROVE  SaveInv'
<1>1. inode[s] \in Inodes /\ inode' = [inode EXCEPT ![s] = inode[s]]
  BY DEF SaveInv, SaveTypes, OnlySaver, Files
<1>2. rights' = rights /\ entry' = entry /\ maybe' = maybe
  BY DEF OnlySaver, DirsUnchanged
<1>3. \A n \in Names : File(s) \in maybe[n] => l.pc \in {"syncDir", "returned", "crashed"}
  BY DEF SaveInv, Finished
<1>4. /\ entry' \in [Places -> Entries] /\ maybe' \in [Places -> SUBSET Entries]
      /\ \A p \in Places : entry'[p] \in maybe'[p]
      /\ \A n \in Names : \A e \in maybe'[n] : e \in maybe[n]
  BY <1>2 DEF SaveInv, SaveTypes
<1>5. (l.pc = "close" /\ ~l.failed) \/ l.pc = "rename" => inode[s].content = "whole" /\ inode[s].synced
  BY DEF Flushed
<1> QED BY <1>1, <1>2, <1>3, <1>4, <1>5, SaverMoves

LEMMA CallKeeps == ASSUME SaveInv, NEW s \in Savers, NEW n \in Names, SaveCall(s, n) PROVE SaveInv'
<1> DEFINE l == [saver[s] EXCEPT !.pc = "resolve", !.target = n]
<1>1. l \in Locals /\ l.pc = "resolve" /\ l.target = n /\ saver' = [saver EXCEPT ![s] = l] /\ OnlySaver
  BY DEF SaveCall, SaveInv, SaveTypes, Locals, Steps
<1>2. saver[s].pc = "idle"
  BY DEF SaveCall
<1> HIDE DEF l
<1> QED BY <1>1, <1>2, SaverTurns

LEMMA GotoIsMove ==
    ASSUME SaveTypes, NEW s \in Savers, NEW pc \in Steps, saver[s].target \in Names
    PROVE  /\ Goto(s, pc) => \E l \in Locals : saver' = [saver EXCEPT ![s] = l] /\ l.pc = pc
                               /\ l.failed = saver[s].failed /\ l.target \in Names
           /\ Fail(s, pc) => \E l \in Locals : saver' = [saver EXCEPT ![s] = l] /\ l.pc = pc
                               /\ l.failed /\ l.target \in Names
<1> DEFINE l == [saver[s] EXCEPT !.pc = pc]
           f == [saver[s] EXCEPT !.pc = pc, !.failed = TRUE]
<1>1. l \in Locals /\ l.pc = pc /\ l.failed = saver[s].failed /\ l.target \in Names
  BY DEF SaveTypes, Locals
<1>2. f \in Locals /\ f.pc = pc /\ f.failed /\ f.target \in Names
  BY DEF SaveTypes, Locals
<1>3. Goto(s, pc) => saver' = [saver EXCEPT ![s] = l]
  BY DEF Goto
<1>4. Fail(s, pc) => saver' = [saver EXCEPT ![s] = f]
  BY DEF Fail
<1> HIDE DEF l, f
<1> QED BY <1>1, <1>2, <1>3, <1>4

\* Following a link, looking at the file, and the steps that only may fail.
LEMMA ResolveKeeps == ASSUME SaveInv, NEW s \in Savers, resolveSymlinks(s) PROVE SaveInv'
<1>1. saver[s].pc = "resolve" /\ saver[s].target \in Names /\ OnlySaver
  BY DEF resolveSymlinks, SaveInv, Progress
<1>2. CASE Goto(s, "stat")
  <2>1. PICK l \in Locals : saver' = [saver EXCEPT ![s] = l] /\ l.pc = "stat" /\ l.target \in Names
    BY <1>1, <1>2, GotoIsMove DEF SaveInv, Steps
  <2> QED BY <1>1, <2>1, SaverTurns
<1>3. CASE entry[saver[s].target].kind = "link"
             /\ saver' = [saver EXCEPT ![s].target = entry[saver[s].target].to, ![s].hops = @ + 1]
  <2> DEFINE to == entry[saver[s].target].to
             hops == saver[s].hops + 1
             l == [saver[s] EXCEPT !.target = to, !.hops = hops]
  <2>1. to \in Names
    BY <1>1, <1>3, Kinds DEF SaveInv, SaveTypes, Places
  <2>2. saver[s] \in Locals /\ hops \in Nat
    BY DEF SaveInv, SaveTypes, Locals
  <2>3. saver' = [saver EXCEPT ![s] = l]
    BY <1>3
  <2> HIDE DEF to, hops
  <2>4. l \in Locals /\ l.pc = "resolve" /\ l.target \in Names
    BY <1>1, <2>1, <2>2 DEF Locals
  <2> HIDE DEF l
  <2> QED BY <1>1, <2>3, <2>4, SaverTurns
<1> QED BY <1>2, <1>3 DEF resolveSymlinks

LEMMA StatKeeps == ASSUME SaveInv, NEW s \in Savers, SaveStat(s) PROVE SaveInv'
<1> DEFINE e == entry[saver[s].target]
           attrs == IF e.kind = "file" THEN inode[e.inode].attrs ELSE NoAttrs
           l == [saver[s] EXCEPT !.pc = "create", !.existing = attrs]
<1>1. saver[s].pc = "stat" /\ saver[s].target \in Names /\ OnlySaver
  BY DEF SaveStat, SaveInv, Progress
<1>2. attrs \in Attrs
  <2>1. CASE e.kind = "file"
    <3>1. PICK f \in Files : e = File(f)
      BY <1>1, <2>1, Kinds DEF SaveInv, SaveTypes, Places
    <3> QED BY <2>1, <3>1, Kinds DEF SaveInv, SaveTypes, Inodes
  <2>2. CASE e.kind # "file"
    BY <2>2 DEF NoAttrs, Attrs
  <2> QED BY <2>1, <2>2
<1>3. saver' = [saver EXCEPT ![s] = l]
  BY DEF SaveStat
<1> HIDE DEF attrs
<1>4. l \in Locals /\ l.pc = "create" /\ l.target \in Names
  BY <1>1, <1>2 DEF SaveInv, SaveTypes, Locals, Steps
<1> HIDE DEF l
<1> QED BY <1>1, <1>3, <1>4, SaverTurns

LEMMA CloseKeeps == ASSUME SaveInv, NEW s \in Savers, CloseTemp(s) PROVE SaveInv'
<1>1. saver[s].pc = "close" /\ saver[s].target \in Names /\ OnlySaver
  BY DEF CloseTemp, SaveInv, Progress
<1>2. ~saver[s].failed => Flushed(s)
  BY <1>1 DEF SaveInv, Progress
<1>3. CASE Goto(s, "rename") /\ ~saver[s].failed
  <2>1. PICK l \in Locals : saver' = [saver EXCEPT ![s] = l] /\ l.pc = "rename" /\ l.target \in Names
    BY <1>1, <1>3, GotoIsMove DEF SaveInv, Steps
  <2> QED BY <1>1, <1>2, <1>3, <2>1, SaverTurns
<1>4. CASE Goto(s, "remove") \/ Fail(s, "remove")
  <2>1. PICK l \in Locals : saver' = [saver EXCEPT ![s] = l] /\ l.pc = "remove" /\ l.target \in Names
    BY <1>1, <1>4, GotoIsMove DEF SaveInv, Steps
  <2> QED BY <1>1, <2>1, SaverTurns
<1> QED BY <1>3, <1>4 DEF CloseTemp

\* The steps that write to the temp file: entries stay, the name has not
\* been given to it yet.
LEMMA SaverWrites ==
    ASSUME SaveInv, NEW s \in Savers, NEW l \in Locals, NEW i \in Inodes,
           DirsUnchanged, saver[s].pc \in {"encode", "own", "sync"},
           saver' = [saver EXCEPT ![s] = l], inode' = [inode EXCEPT ![s] = i],
           l.pc \in {"own", "sync", "close"}, l.target \in Names,
           l.pc \in {"own", "sync"} => i.content = "whole",
           l.pc = "close" /\ ~l.failed => i.content = "whole" /\ i.synced
    PROVE  SaveInv'
<1>1. \A n \in Names : File(s) \notin maybe[n]
  BY DEF SaveInv, Finished
<1>2. /\ rights' = rights /\ entry' = entry /\ maybe' = maybe
      /\ entry' \in [Places -> Entries] /\ maybe' \in [Places -> SUBSET Entries]
      /\ \A p \in Places : entry'[p] \in maybe'[p]
  BY DEF DirsUnchanged, SaveInv, SaveTypes
<1> QED BY <1>1, <1>2, SaverMoves

LEMMA EncodeKeeps == ASSUME SaveInv, NEW s \in Savers, encodeWith(s) PROVE SaveInv'
<1>1. saver[s].pc = "encode" /\ saver[s].target \in Names /\ DirsUnchanged /\ inode[s] \in Inodes
  BY DEF encodeWith, SaveInv, Progress, SaveTypes, Files
<1> DEFINE i(c) == [inode[s] EXCEPT !.content = c]
<1>2. \A c \in {"part", "whole"} : i(c) \in Inodes /\ i(c).content = c
  BY <1>1 DEF Inodes
<1>3. CASE inode' = [inode EXCEPT ![s] = i("whole")] /\ Goto(s, "own")
  <2>1. PICK l \in Locals : saver' = [saver EXCEPT ![s] = l] /\ l.pc = "own" /\ l.target \in Names
    BY <1>1, <1>3, GotoIsMove DEF SaveInv, Steps
  <2> HIDE DEF i
  <2> QED BY <1>1, <1>2, <1>3, <2>1, SaverWrites
<1>4. CASE inode' = [inode EXCEPT ![s] = i("part")] /\ Fail(s, "close")
  <2>1. PICK l \in Locals : saver' = [saver EXCEPT ![s] = l] /\ l.pc = "close" /\ l.failed /\ l.target \in Names
    BY <1>1, <1>4, GotoIsMove DEF SaveInv, Steps
  <2> HIDE DEF i
  <2> QED BY <1>1, <1>2, <1>4, <2>1, SaverWrites
<1> QED BY <1>3, <1>4 DEF encodeWith, SetInode

LEMMA AttrsKeep == ASSUME SaveInv, NEW s \in Savers, TakeAttrs(s) PROVE SaveInv'
<1> DEFINE attrs == keepOwner(inode[s].attrs, saver[s].existing)
           moded == [attrs EXCEPT !.mode = saver[s].existing.mode]
           i(x) == [inode[s] EXCEPT !.attrs = x]
<1>1. saver[s].pc = "own" /\ saver[s].target \in Names /\ DirsUnchanged /\ inode[s] \in Inodes
      /\ inode[s].content = "whole" /\ saver[s].existing \in Attrs
  BY DEF TakeAttrs, SaveInv, Progress, SaveTypes, Files, Locals
<1>2. attrs \in Attrs
  BY <1>1 DEF keepOwner, Attrs, Inodes
<1>3. moded \in Attrs
  BY <1>1, <1>2 DEF Attrs
<1>4. CASE UNCHANGED inode /\ Goto(s, "sync")
  <2>1. PICK l \in Locals : saver' = [saver EXCEPT ![s] = l] /\ l.pc = "sync" /\ l.target \in Names
    BY <1>1, <1>4, GotoIsMove DEF SaveInv, Steps
  <2>2. inode' = [inode EXCEPT ![s] = inode[s]]
    BY <1>4 DEF SaveInv, SaveTypes
  <2> QED BY <1>1, <2>1, <2>2, SaverWrites
<1>5. ASSUME NEW x \in Attrs PROVE i(x) \in Inodes /\ i(x).content = "whole"
  BY <1>1 DEF Inodes
<1>6. CASE inode' = [inode EXCEPT ![s] = i(moded)] /\ Goto(s, "sync")
  <2>1. PICK l \in Locals : saver' = [saver EXCEPT ![s] = l] /\ l.pc = "sync" /\ l.target \in Names
    BY <1>1, <1>6, GotoIsMove DEF SaveInv, Steps
  <2> HIDE DEF i, moded
  <2> QED BY <1>1, <1>3, <1>5, <1>6, <2>1, SaverWrites
<1>7. CASE inode' = [inode EXCEPT ![s] = i(attrs)] /\ Fail(s, "close")
  <2>1. PICK l \in Locals : saver' = [saver EXCEPT ![s] = l] /\ l.pc = "close" /\ l.failed /\ l.target \in Names
    BY <1>1, <1>7, GotoIsMove DEF SaveInv, Steps
  <2> HIDE DEF i, attrs
  <2> QED BY <1>1, <1>2, <1>5, <1>7, <2>1, SaverWrites
<1> QED BY <1>4, <1>6, <1>7 DEF TakeAttrs, SetInode

LEMMA SyncKeeps == ASSUME SaveInv, NEW s \in Savers, SyncTemp(s) PROVE SaveInv'
<1> DEFINE i == [inode[s] EXCEPT !.synced = TRUE]
<1>1. saver[s].pc = "sync" /\ saver[s].target \in Names /\ inode[s] \in Inodes /\ inode[s].content = "whole"
  BY DEF SyncTemp, SaveInv, Progress, SaveTypes, Files
<1>2. i \in Inodes /\ i.content = "whole" /\ i.synced
  BY <1>1 DEF Inodes
<1>3. CASE inode' = [inode EXCEPT ![s] = i] /\ Goto(s, "close") /\ DirsUnchanged
  <2>1. PICK l \in Locals : saver' = [saver EXCEPT ![s] = l] /\ l.pc = "close" /\ l.target \in Names
    BY <1>1, <1>3, GotoIsMove DEF SaveInv, Steps
  <2> HIDE DEF i
  <2> QED BY <1>1, <1>2, <1>3, <2>1, SaverWrites
<1>4. CASE Fail(s, "close") /\ OnlySaver
  <2>1. PICK l \in Locals : saver' = [saver EXCEPT ![s] = l] /\ l.pc = "close" /\ l.failed /\ l.target \in Names
    BY <1>1, <1>4, GotoIsMove DEF SaveInv, Steps
  <2> QED BY <1>1, <1>4, <2>1, SaverTurns
<1> QED BY <1>3, <1>4 DEF SyncTemp, SetInode

\* The steps that change directory entries.
LEMMA SaverLists ==
    ASSUME SaveInv, NEW s \in Savers, NEW l \in Locals,
           saver' = [saver EXCEPT ![s] = l], UNCHANGED <<rights, inode>>,
           entry' \in [Places -> Entries], maybe' \in [Places -> SUBSET Entries],
           \A p \in Places : entry'[p] \in maybe'[p],
           \A n \in Names : \A e \in maybe'[n] : e \in maybe[n] \/ (e = File(s) /\ l.pc = "syncDir"),
           saver[s].pc \in {"create", "remove", "rename", "syncDir"},
           saver[s].pc = "syncDir" => l.pc = "returned",
           l.pc \in {"encode", "returned", "syncDir"}, l.target \in Names,
           l.pc = "syncDir" => Flushed(s)
    PROVE  SaveInv'
<1>1. inode[s] \in Inodes /\ inode' = [inode EXCEPT ![s] = inode[s]] /\ rights' = rights
  BY DEF SaveInv, SaveTypes, Files
<1>2. \A n \in Names : File(s) \in maybe[n] => l.pc \in {"syncDir", "returned", "crashed"}
  BY DEF SaveInv, Finished
<1>3. \A n \in Names : \A e \in maybe'[n] :
        e \in maybe[n] \/ (e = File(s) /\ l.pc = "syncDir" /\ inode[s].content = "whole" /\ inode[s].synced)
  BY DEF Flushed
<1> QED BY <1>1, <1>2, <1>3, SaverMoves

LEMMA SetEntryIsMove ==
    ASSUME SaveInv, NEW s \in Savers, NEW e \in Entries, SetEntry(s, e)
    PROVE  /\ entry' \in [Places -> Entries] /\ maybe' \in [Places -> SUBSET Entries]
           /\ \A p \in Places : entry'[p] \in maybe'[p]
           /\ \A n \in Names : maybe'[n] = maybe[n]
<1>1. s \in Places /\ s \notin Names
  BY Kinds DEF Places
<1>2. entry' = [entry EXCEPT ![s] = e] /\ maybe' = [maybe EXCEPT ![s] = maybe[s] \cup {e}]
  BY DEF SetEntry
<1> QED BY <1>1, <1>2 DEF SaveInv, SaveTypes, Places

LEMMA CreateKeeps == ASSUME SaveInv, NEW s \in Savers, CreateTemp(s) PROVE SaveInv'
<1>1. saver[s].pc = "create" /\ saver[s].target \in Names
  BY DEF CreateTemp, SaveInv, Progress
<1>2. CASE SetEntry(s, File(s)) /\ Goto(s, "encode") /\ UNCHANGED <<layout, rights, inode, crashed, renames>>
  <2>1. PICK l \in Locals : saver' = [saver EXCEPT ![s] = l] /\ l.pc = "encode" /\ l.target \in Names
    BY <1>1, <1>2, GotoIsMove DEF SaveInv, Steps
  <2>2. File(s) \in Entries
    BY Kinds DEF Files
  <2> QED BY <1>1, <1>2, <2>1, <2>2, SetEntryIsMove, SaverLists
<1>3. CASE Fail(s, "returned") /\ OnlySaver
  <2>1. PICK l \in Locals : saver' = [saver EXCEPT ![s] = l] /\ l.pc = "returned" /\ l.target \in Names
    BY <1>1, <1>3, GotoIsMove DEF SaveInv, Steps
  <2> QED BY <1>1, <1>3, <2>1, SaverTurns
<1> QED BY <1>2, <1>3 DEF CreateTemp

LEMMA RemoveKeeps == ASSUME SaveInv, NEW s \in Savers, RemoveTemp(s) PROVE SaveInv'
<1>1. saver[s].pc = "remove" /\ saver[s].target \in Names
  BY DEF RemoveTemp, SaveInv, Progress
<1>2. CASE SetEntry(s, Missing) /\ Goto(s, "returned") /\ UNCHANGED <<layout, rights, inode, crashed, renames>>
  <2>1. PICK l \in Locals : saver' = [saver EXCEPT ![s] = l] /\ l.pc = "returned" /\ l.target \in Names
    BY <1>1, <1>2, GotoIsMove DEF SaveInv, Steps
  <2> QED BY <1>1, <1>2, <2>1, Kinds, SetEntryIsMove, SaverLists
<1>3. CASE Goto(s, "littered") /\ OnlySaver
  <2>1. PICK l \in Locals : saver' = [saver EXCEPT ![s] = l] /\ l.pc = "littered" /\ l.target \in Names
    BY <1>1, <1>3, GotoIsMove DEF SaveInv, Steps
  <2> QED BY <1>1, <1>3, <2>1, SaverTurns
<1> QED BY <1>2, <1>3 DEF RemoveTemp

LEMMA RenameKeeps == ASSUME SaveInv, NEW s \in Savers, Rename(s) PROVE SaveInv'
<1> DEFINE t == saver[s].target
<1>1. saver[s].pc = "rename" /\ t \in Names /\ Flushed(s)
  BY DEF Rename, SaveInv, Progress
<1>2. CASE /\ entry' = [entry EXCEPT ![t] = File(s), ![s] = Missing]
           /\ maybe' = [maybe EXCEPT ![t] = maybe[t] \cup {File(s)}, ![s] = maybe[s] \cup {Missing}]
           /\ Goto(s, "syncDir") /\ UNCHANGED <<layout, rights, inode, crashed>>
  <2>1. PICK l \in Locals : saver' = [saver EXCEPT ![s] = l] /\ l.pc = "syncDir" /\ l.target \in Names
    BY <1>1, <1>2, GotoIsMove DEF SaveInv, Steps
  <2> HIDE DEF t
  <2>2. File(s) \in Entries /\ Missing \in Entries /\ s \notin Names /\ s \in Places /\ t \in Places /\ s # t
    BY <1>1, Kinds DEF Files, Places
  <2>3. /\ entry' \in [Places -> Entries] /\ maybe' \in [Places -> SUBSET Entries]
        /\ \A p \in Places : entry'[p] \in maybe'[p]
    BY <1>2, <2>2 DEF SaveInv, SaveTypes
  <2>4. \A n \in Names : maybe'[n] \subseteq maybe[n] \cup {File(s)}
    BY <1>2, <2>2 DEF SaveInv, SaveTypes, Places
  <2> QED BY <1>1, <1>2, <2>1, <2>3, <2>4, SaverLists
<1>3. CASE Fail(s, "remove") /\ OnlySaver
  <2>1. PICK l \in Locals : saver' = [saver EXCEPT ![s] = l] /\ l.pc = "remove" /\ l.target \in Names
    BY <1>1, <1>3, GotoIsMove DEF SaveInv, Steps
  <2> QED BY <1>1, <1>3, <2>1, SaverTurns
<1> QED BY <1>2, <1>3 DEF Rename

LEMMA SyncDirKeeps == ASSUME SaveInv, NEW s \in Savers, syncDir(s) PROVE SaveInv'
<1>1. saver[s].pc = "syncDir" /\ saver[s].target \in Names /\ saver[s] \in Locals
  BY DEF syncDir, SaveInv, Progress, SaveTypes
<1>2. CASE Goto(s, "returned") /\ OnlySaver
  <2>1. PICK l \in Locals : saver' = [saver EXCEPT ![s] = l] /\ l.pc = "returned" /\ l.target \in Names
    BY <1>1, <1>2, GotoIsMove DEF SaveInv, Steps
  <2> QED BY <1>1, <1>2, <2>1, SaverTurns
<1>3. CASE /\ maybe' = [p \in Places |-> IF HasDir(p) /\ InDir(p, DirOf[saver[s].target]) THEN {entry[p]} ELSE maybe[p]]
           /\ saver' = [saver EXCEPT ![s].pc = "returned", ![s].sure = TRUE]
           /\ UNCHANGED <<layout, rights, entry, inode, crashed, renames>>
  <2> DEFINE l == [saver[s] EXCEPT !.pc = "returned", !.sure = TRUE]
  <2>1. l \in Locals /\ l.pc = "returned" /\ l.target \in Names /\ saver' = [saver EXCEPT ![s] = l]
    BY <1>1, <1>3 DEF Locals, Steps
  <2>2. \A p \in Places : maybe'[p] \in {{entry[p]}, maybe[p]}
    BY <1>3
  <2>3. /\ entry' \in [Places -> Entries] /\ maybe' \in [Places -> SUBSET Entries]
        /\ \A p \in Places : entry'[p] \in maybe'[p]
        /\ \A n \in Names : maybe'[n] \subseteq maybe[n]
    <3>1. entry' = entry /\ DOMAIN maybe' = Places /\ maybe' = [p \in Places |-> maybe'[p]]
      BY <1>3
    <3>2. \A p \in Places : entry[p] \in Entries /\ entry[p] \in maybe[p] /\ maybe[p] \subseteq Entries
      BY DEF SaveInv, SaveTypes
    <3> QED BY <2>2, <3>1, <3>2 DEF SaveInv, SaveTypes, Places
  <2> HIDE DEF l
  <2> QED BY <1>1, <1>3, <2>1, <2>3, SaverLists
<1> QED BY <1>2, <1>3 DEF syncDir

LEMMA CrashKeeps == ASSUME SaveInv, Crash PROVE SaveInv'
<1>1. entry' \in [Places -> Entries] /\ \A p \in Places : entry'[p] \in maybe[p]
  BY DEF Crash, SaveInv, SaveTypes
<1>2. maybe' = [p \in Places |-> {entry'[p]}] /\ rights' = rights
  BY DEF Crash
<1>3. PICK lost \in SUBSET {f \in Files : ~inode[f].synced} :
        inode' = [f \in Files |-> IF f \in lost THEN [content |-> "part", synced |-> TRUE, attrs |-> NewAttrs]
                                   ELSE [inode[f] EXCEPT !.synced = TRUE]]
  BY DEF Crash
<1>4. \A f \in Files : inode'[f] \in Inodes /\ (Flushed(f) => Flushed(f)')
  <2> SUFFICES ASSUME NEW f \in Files PROVE inode'[f] \in Inodes /\ (Flushed(f) => Flushed(f)')
    OBVIOUS
  <2>1. inode[f] \in Inodes
    BY DEF SaveInv, SaveTypes
  <2>2. CASE f \in lost
    BY <1>3, <2>2 DEF Flushed, Inodes, Attrs, NewAttrs
  <2>3. CASE f \notin lost
    BY <1>3, <2>1, <2>3 DEF Flushed, Inodes
  <2> QED BY <2>2, <2>3
<1>5. \A s \in Savers : /\ saver'[s] \in Locals
                        /\ \/ saver'[s] = saver[s] /\ saver[s].pc \in {"idle", "returned", "littered"}
                           \/ saver'[s].pc = "crashed" /\ saver'[s].target = saver[s].target
                               /\ saver[s].pc \notin {"idle", "littered"}
  <2> SUFFICES ASSUME NEW s \in Savers
               PROVE  /\ saver'[s] \in Locals
                      /\ \/ saver'[s] = saver[s] /\ saver[s].pc \in {"idle", "returned", "littered"}
                         \/ saver'[s].pc = "crashed" /\ saver'[s].target = saver[s].target
                             /\ saver[s].pc \notin {"idle", "littered"}
    OBVIOUS
  <2>1. saver[s] \in Locals
    BY DEF SaveInv, SaveTypes
  <2>2. saver'[s] = IF saver[s].pc \in {"idle", "returned", "littered"} THEN saver[s]
                    ELSE [saver[s] EXCEPT !.pc = "crashed"]
    BY DEF Crash
  <2> QED BY <2>1, <2>2 DEF Locals, Steps
<1>6. saver' = [s \in Savers |-> saver'[s]] /\ inode' = [f \in Files |-> inode'[f]]
  BY <1>3 DEF Crash
<1>7. SaveTypes'
  BY <1>1, <1>2, <1>4, <1>5, <1>6 DEF SaveInv, SaveTypes
<1>8. Progress'
  BY <1>5 DEF SaveInv, Progress
<1>9. \A n \in Names : maybe'[n] \subseteq maybe[n]
  BY <1>1, <1>2 DEF Places
<1>10. Finished'
  BY <1>5, <1>9 DEF SaveInv, Finished
<1>11. NamesFlushed'
  <2> SUFFICES ASSUME NEW n \in Names, NEW e \in maybe'[n], e.kind = "file" PROVE Flushed(e.inode)'
    BY DEF NamesFlushed
  <2>1. e \in maybe[n] /\ e \in Entries
    BY <1>9 DEF SaveInv, SaveTypes, Places
  <2>2. e.inode \in Files
    BY <2>1, Kinds
  <2> QED BY <1>4, <2>1, <2>2 DEF SaveInv, NamesFlushed
<1> QED BY <1>1, <1>2, <1>7, <1>8, <1>10, <1>11 DEF SaveInv
-----------------------------------------------------------------------------
LEMMA SaveStepKeeps == SaveInv /\ [SaveNext]_saveVars => SaveInv'
<1> SUFFICES ASSUME SaveInv, [SaveNext]_saveVars PROVE SaveInv'
  OBVIOUS
<1>1. CASE \E s \in Savers : SaveStep(s)
  BY <1>1, ResolveKeeps, StatKeeps, CreateKeeps, EncodeKeeps, AttrsKeep, SyncKeeps, CloseKeeps,
     RenameKeeps, RemoveKeeps, SyncDirKeeps DEF SaveStep
<1>2. CASE \E s \in Savers : \E n \in Names : SaveCall(s, n)
  BY <1>2, CallKeeps
<1>3. CASE Crash
  BY <1>3, CrashKeeps
<1>4. CASE UNCHANGED saveVars
  BY <1>4 DEF saveVars, SaveInv, SaveTypes, Progress, Finished, NamesFlushed, Flushed
<1> QED BY <1>1, <1>2, <1>3, <1>4 DEF SaveNext

\* Whatever saves run beside each other, on whatever links, errors and a
\* crash included, every name that is a file is one whole document, on disk:
\* SaveTo syncs the temp file before it renames it over the target and never
\* writes to it again.
THEOREM SavesWhole == SaveSpec => []SavedWhole
<1>1. (\E setup \in Setups : SaveInitAs(setup)) => SaveInv
  BY SaveInitInv
<1>2. SaveInv => SavedWhole
  BY DEF SaveInv, NamesFlushed, Flushed, SavedWhole
<1> QED BY <1>1, <1>2, SaveStepKeeps, PTL DEF SaveSpec
-----------------------------------------------------------------------------
(* SavedDurable: what a synced directory holds is not older than the save  *)
(* that synced it.                                                         *)

\* The entry is of the document of s or of one renamed over it later.
Newer(e, s) ==
    /\ e.kind = "file"
    /\ \E i, j \in DOMAIN renames : i <= j /\ renames[i] = s /\ renames[j] = e.inode

\* Every saver renames at most once, and then it has only to sync the directory.
RenamesOnce ==
    /\ renames \in Seq(Savers)
    /\ \A i, j \in DOMAIN renames : renames[i] = renames[j] => i = j
    /\ \A i \in DOMAIN renames : saver[renames[i]].pc \in {"syncDir", "returned", "crashed"}

\* What a saver finds when it syncs the directory, and what is on disk after.
SyncedBy(s) ==
    LET n == saver[s].target
    IN  /\ saver[s].pc = "syncDir" => Newer(entry[n], s)
        /\ saver[s].sure => saver[s].pc = "returned" /\ n \in Names /\ \A e \in maybe[n] : Newer(e, s)

DurableInv == SaveInv /\ RenamesOnce /\ \A s \in Savers : SyncedBy(s)

\* Position is a saver's place among the renames.
LEMMA PositionOf ==
    ASSUME RenamesOnce, NEW i \in DOMAIN renames
    PROVE  Position(renames[i]) = i
<1> DEFINE f == renames[i]
<1>1. i \in 0..Len(renames) /\ i > 0 /\ f \in Savers /\ DOMAIN renames = 1..Len(renames) /\ Len(renames) \in Nat
  BY DEF RenamesOnce
<1>2. f # "old"
  BY <1>1, Kinds
<1>3. \A j \in 0..Len(renames) : (IF f = "old" THEN j = 0 ELSE j > 0 /\ renames[j] = f) <=> j = i
  BY <1>1, <1>2 DEF RenamesOnce
<1> HIDE DEF f
<1>4. Position(f) = CHOOSE j \in 0..Len(renames) : j = i
  BY <1>3 DEF Position
<1> QED BY <1>1, <1>4 DEF f

LEMMA DurableHolds == ASSUME DurableInv PROVE SavedDurable
<1> SUFFICES ASSUME NEW s \in Savers, saver[s].sure, NEW e \in maybe[saver[s].target]
             PROVE  e.kind = "file" /\ Position(e.inode) >= Position(s)
  BY DEF SavedDurable
<1>1. Newer(e, s)
  BY DEF DurableInv, SyncedBy
<1>2. PICK i \in DOMAIN renames, j \in DOMAIN renames : i <= j /\ renames[i] = s /\ renames[j] = e.inode
  BY <1>1 DEF Newer
<1>3. Position(s) = i /\ Position(e.inode) = j
  BY <1>2, PositionOf DEF DurableInv
<1>4. DOMAIN renames \subseteq Nat
  BY DEF DurableInv, RenamesOnce
<1> QED BY <1>1, <1>2, <1>3, <1>4 DEF Newer
-----------------------------------------------------------------------------
\* What the steps of a saver leave alone: the other savers, and of its own
\* locals all but where it is and whether it failed.
Others(s) == \A t \in Savers \ {s} : saver'[t] = saver[t]
NamesKept == \A n \in Names : entry'[n] = entry[n] /\ maybe'[n] = maybe[n]
LocalsKept(s) ==
    /\ saver'[s].target = saver[s].target /\ saver'[s].hops = saver[s].hops
    /\ saver'[s].existing = saver[s].existing /\ saver'[s].sure = saver[s].sure

LEMMA GotoFields ==
    ASSUME SaveTypes, NEW s \in Savers, NEW pc, Goto(s, pc)
    PROVE  Others(s) /\ LocalsKept(s) /\ saver'[s].pc = pc /\ saver'[s].failed = saver[s].failed
<1> DEFINE l == [saver[s] EXCEPT !.pc = pc]
<1>1. saver[s] \in Locals /\ saver' = [saver EXCEPT ![s] = l]
  BY DEF Goto, SaveTypes
<1>2. /\ l.pc = pc /\ l.failed = saver[s].failed /\ l.target = saver[s].target /\ l.hops = saver[s].hops
      /\ l.existing = saver[s].existing /\ l.sure = saver[s].sure
  BY <1>1 DEF Locals
<1> HIDE DEF l
<1>3. saver'[s] = l /\ Others(s)
  BY <1>1 DEF SaveTypes, Others
<1> QED BY <1>2, <1>3 DEF LocalsKept

LEMMA FailFields ==
    ASSUME SaveTypes, NEW s \in Savers, NEW pc, Fail(s, pc)
    PROVE  Others(s) /\ LocalsKept(s) /\ saver'[s].pc = pc /\ saver'[s].failed
<1> DEFINE l == [saver[s] EXCEPT !.pc = pc, !.failed = TRUE]
<1>1. saver[s] \in Locals /\ saver' = [saver EXCEPT ![s] = l]
  BY DEF Fail, SaveTypes
<1>2. /\ l.pc = pc /\ l.failed /\ l.target = saver[s].target /\ l.hops = saver[s].hops
      /\ l.existing = saver[s].existing /\ l.sure = saver[s].sure
  BY <1>1 DEF Locals
<1> HIDE DEF l
<1>3. saver'[s] = l /\ Others(s)
  BY <1>1 DEF SaveTypes, Others
<1> QED BY <1>2, <1>3 DEF LocalsKept

\* Any step of a saver but its rename and what follows it: no name changes.
Turn(s) ==
    /\ saver[s].pc \notin {"syncDir", "returned", "littered", "crashed"}
    /\ saver'[s].pc # "syncDir" /\ saver'[s].sure = saver[s].sure
    /\ Others(s) /\ NamesKept /\ UNCHANGED <<layout, rights, renames, crashed>>
    /\ \A t \in Savers \ {s} : entry'[t] = entry[t]
    /\ \A f \in Files \ {s} : inode'[f] = inode[f]

RenameFails(s) == saver[s].pc = "rename" /\ Fail(s, "remove") /\ OnlySaver

LEMMA CallTurns == ASSUME SaveInv, NEW s \in Savers, NEW n \in Names, SaveCall(s, n)
                   PROVE  Turn(s) /\ saver'[s].pc = "resolve" /\ saver'[s].target = n
                          /\ saver'[s].hops = saver[s].hops /\ saver'[s].failed = saver[s].failed
<1> DEFINE l == [saver[s] EXCEPT !.pc = "resolve", !.target = n]
<1>1. saver[s] \in Locals /\ saver' = [saver EXCEPT ![s] = l]
  BY DEF SaveCall, SaveInv, SaveTypes
<1>2. l.pc = "resolve" /\ l.target = n /\ l.hops = saver[s].hops /\ l.failed = saver[s].failed /\ l.sure = saver[s].sure
  BY <1>1 DEF Locals
<1> HIDE DEF l
<1>3. saver'[s] = l /\ Others(s)
  BY <1>1 DEF SaveInv, SaveTypes, Others
<1> QED BY <1>2, <1>3 DEF SaveCall, Turn, NamesKept, OnlySaver, DirsUnchanged

LEMMA FollowTurns ==
    ASSUME SaveInv, NEW s \in Savers, NEW to, saver[s].pc = "resolve", OnlySaver,
           saver' = [saver EXCEPT ![s].target = to, ![s].hops = @ + 1]
    PROVE  Turn(s) /\ saver'[s].pc = "resolve" /\ saver'[s].target = to
           /\ saver'[s].hops = saver[s].hops + 1 /\ saver'[s].failed = saver[s].failed
<1> DEFINE hops == saver[s].hops + 1
           l == [saver[s] EXCEPT !.target = to, !.hops = hops]
<1>1. saver[s] \in Locals /\ saver' = [saver EXCEPT ![s] = l]
  BY DEF SaveInv, SaveTypes
<1> HIDE DEF hops
<1>2. l.pc = "resolve" /\ l.target = to /\ l.hops = hops /\ l.failed = saver[s].failed /\ l.sure = saver[s].sure
  BY <1>1 DEF Locals
<1> HIDE DEF l
<1>3. saver'[s] = l /\ Others(s)
  BY <1>1 DEF SaveInv, SaveTypes, Others
<1> QED BY <1>2, <1>3 DEF hops, Turn, NamesKept, OnlySaver, DirsUnchanged

LEMMA StatTurns ==
    ASSUME SaveInv, NEW s \in Savers, SaveStat(s)
    PROVE  LET e == entry[saver[s].target]
           IN  /\ Turn(s) /\ saver'[s].pc = "create" /\ saver'[s].target = saver[s].target
               /\ saver'[s].failed = saver[s].failed
               /\ saver'[s].existing = IF e.kind = "file" THEN inode[e.inode].attrs ELSE NoAttrs
<1> DEFINE e == entry[saver[s].target]
           x == IF e.kind = "file" THEN inode[e.inode].attrs ELSE NoAttrs
           l == [saver[s] EXCEPT !.pc = "create", !.existing = x]
<1>1. saver[s] \in Locals /\ saver' = [saver EXCEPT ![s] = l]
  BY DEF SaveStat, SaveInv, SaveTypes
<1> HIDE DEF x
<1>2. /\ l.pc = "create" /\ l.target = saver[s].target /\ l.failed = saver[s].failed /\ l.existing = x
      /\ l.sure = saver[s].sure
  BY <1>1 DEF Locals
<1> HIDE DEF l
<1>3. saver'[s] = l /\ Others(s)
  BY <1>1 DEF SaveInv, SaveTypes, Others
<1>4. Turn(s)
  BY <1>2, <1>3 DEF SaveStat, Turn, NamesKept, OnlySaver, DirsUnchanged
<1> QED BY <1>2, <1>3, <1>4 DEF x

LEMMA OtherTurns ==
    ASSUME SaveInv, NEW s \in Savers,
           \/ resolveSymlinks(s) /\ Goto(s, "stat")
           \/ CreateTemp(s) \/ encodeWith(s) \/ TakeAttrs(s) \/ SyncTemp(s)
           \/ CloseTemp(s) \/ RenameFails(s) \/ RemoveTemp(s)
    PROVE  Turn(s) /\ LocalsKept(s)
<1>1. PICK pc : Goto(s, pc) \/ Fail(s, pc)
  BY DEF CreateTemp, encodeWith, TakeAttrs, SyncTemp, CloseTemp, RenameFails, RemoveTemp
<1>2. Others(s) /\ LocalsKept(s) /\ SaveTypes
  BY <1>1, GotoFields, FailFields DEF SaveInv
<1>3. saver'[s].pc # "syncDir"
  BY <1>2, GotoFields, FailFields
     DEF CreateTemp, encodeWith, TakeAttrs, SyncTemp, CloseTemp, RenameFails, RemoveTemp
<1>4. saver[s].pc \notin {"syncDir", "returned", "littered", "crashed"}
  BY DEF resolveSymlinks, CreateTemp, encodeWith, TakeAttrs, SyncTemp, CloseTemp, RenameFails, RemoveTemp
<1>5. UNCHANGED <<layout, rights, renames, crashed>>
  BY DEF resolveSymlinks, CreateTemp, encodeWith, TakeAttrs, SyncTemp, CloseTemp, RenameFails, RemoveTemp,
         OnlySaver, DirsUnchanged
<1>6. \A f \in Files \ {s} : inode'[f] = inode[f]
  BY DEF resolveSymlinks, CreateTemp, encodeWith, TakeAttrs, SyncTemp, CloseTemp, RenameFails, RemoveTemp,
         OnlySaver, DirsUnchanged, SetInode, SaveInv, SaveTypes
<1>7. UNCHANGED <<entry, maybe>> \/ \E e : SetEntry(s, e)
  BY DEF resolveSymlinks, CreateTemp, encodeWith, TakeAttrs, SyncTemp, CloseTemp, RenameFails, RemoveTemp,
         OnlySaver, DirsUnchanged
<1>8. s \notin Names
  BY Kinds
<1>9. NamesKept /\ \A t \in Savers \ {s} : entry'[t] = entry[t]
  BY <1>7, <1>8 DEF SetEntry, NamesKept, SaveInv, SaveTypes, Places
<1> QED BY <1>2, <1>3, <1>4, <1>5, <1>6, <1>9 DEF Turn, LocalsKept
-----------------------------------------------------------------------------
LEMMA DurableInit == ASSUME NEW setup \in Setups, SaveInitAs(setup) PROVE DurableInv
<1>1. SaveInv
  BY SaveInitInv
<1>2. renames = << >> /\ \A s \in Savers : saver[s] = Idle
  BY DEF SaveInitAs
<1>3. RenamesOnce
  BY <1>2 DEF RenamesOnce
<1>4. \A s \in Savers : saver[s].pc = "idle" /\ ~saver[s].sure
  <2>1. Idle.pc = "idle" /\ ~Idle.sure
    BY DEF Idle
  <2> QED BY <1>2, <2>1
<1> QED BY <1>1, <1>3, <1>4 DEF DurableInv, SyncedBy

\* What another saver has found stays found while no name changes.
LEMMA SyncedStays ==
    ASSUME DurableInv, NEW t \in Savers, saver'[t] = saver[t], NamesKept, UNCHANGED renames
    PROVE  SyncedBy(t)'
<1>1. saver[t].pc = "syncDir" => saver[t].target \in Names
  BY DEF DurableInv, SaveInv, Progress
<1> QED BY <1>1 DEF DurableInv, SyncedBy, NamesKept, Newer

LEMMA DurableTurns == ASSUME DurableInv, NEW s \in Savers, Turn(s) PROVE RenamesOnce' /\ \A t \in Savers : SyncedBy(t)'
<1>1. RenamesOnce'
  BY DEF DurableInv, RenamesOnce, Turn, Others
<1>2. ~saver[s].sure
  BY DEF DurableInv, SyncedBy, Turn
<1>3. SyncedBy(s)'
  BY <1>2 DEF SyncedBy, Turn
<1>4. ASSUME NEW t \in Savers \ {s} PROVE SyncedBy(t)'
  BY SyncedStays DEF Turn, Others
<1> QED BY <1>1, <1>3, <1>4

\* The document renamed last is newer than every one renamed before it.
LEMMA DurableRenames ==
    ASSUME DurableInv, NEW s \in Savers, Rename(s), ~RenameFails(s)
    PROVE  RenamesOnce' /\ \A t \in Savers : SyncedBy(t)'
<1> DEFINE n == saver[s].target
           k == Len(renames) + 1
<1>1. /\ saver[s].pc = "rename" /\ n \in Names /\ Goto(s, "syncDir") /\ renames' = Append(renames, s)
      /\ entry' = [entry EXCEPT ![n] = File(s), ![s] = Missing]
      /\ maybe' = [maybe EXCEPT ![n] = @ \cup {File(s)}, ![s] = @ \cup {Missing}]
  BY DEF Rename, RenameFails, DurableInv, SaveInv, Progress
<1>2. Others(s) /\ LocalsKept(s) /\ saver'[s].pc = "syncDir"
  BY <1>1, GotoFields DEF DurableInv, SaveInv
<1>3. s \notin Names /\ File(s).kind = "file" /\ File(s).inode = s
  BY Kinds DEF Files
<1>4. \A m \in Names : /\ entry'[m] = IF m = n THEN File(s) ELSE entry[m]
                       /\ maybe'[m] = IF m = n THEN maybe[m] \cup {File(s)} ELSE maybe[m]
  BY <1>1, <1>3 DEF DurableInv, SaveInv, SaveTypes, Places
<1>5. /\ renames' \in Seq(Savers) /\ DOMAIN renames' = 1..k /\ k \in Nat \ {0}
      /\ DOMAIN renames = 1..(k - 1) /\ renames'[k] = s
      /\ \A i \in 1..(k - 1) : renames'[i] = renames[i]
  BY <1>1 DEF DurableInv, RenamesOnce
<1>6. \A i \in 1..(k - 1) : renames[i] # s
  BY <1>1, <1>5 DEF DurableInv, RenamesOnce
<1> HIDE DEF n, k
<1>7. RenamesOnce'
  <2>1. ASSUME NEW i \in 1..k, NEW j \in 1..k, renames'[i] = renames'[j] PROVE i = j
    BY <1>5, <1>6, <2>1 DEF DurableInv, RenamesOnce
  <2>2. ASSUME NEW i \in 1..k PROVE saver'[renames'[i]].pc \in {"syncDir", "returned", "crashed"}
    <3>1. CASE i = k
      BY <1>2, <1>5, <3>1
    <3>2. CASE i # k
      <4>1. i \in 1..(k - 1) /\ renames'[i] = renames[i] /\ renames[i] \in Savers \ {s}
        BY <1>5, <1>6, <3>2 DEF DurableInv, RenamesOnce
      <4> QED BY <1>2, <1>5, <4>1 DEF DurableInv, RenamesOnce, Others
    <3> QED BY <3>1, <3>2
  <2> QED BY <1>5, <2>1, <2>2 DEF RenamesOnce
<1>8. \A e, t : Newer(e, t) => Newer(e, t)'
  BY <1>5 DEF Newer
<1>9. ASSUME NEW e, NEW t, Newer(e, t) PROVE Newer(File(s), t)'
  <2>1. PICK i \in DOMAIN renames : renames[i] = t
    BY <1>9 DEF Newer
  <2>2. i \in 1..k /\ i <= k /\ renames'[i] = t /\ k \in 1..k
    BY <1>5, <2>1
  <2> QED BY <1>3, <1>5, <2>2 DEF Newer
<1>10. Newer(File(s), s)'
  BY <1>3, <1>5 DEF Newer
<1>11. SyncedBy(s)'
  BY <1>1, <1>2, <1>4, <1>10 DEF n, SyncedBy, LocalsKept, DurableInv
<1>12. ASSUME NEW t \in Savers \ {s} PROVE SyncedBy(t)'
  <2> DEFINE m == saver[t].target
  <2>1. saver'[t] = saver[t]
    BY <1>2 DEF Others
  <2>2. saver[t].pc = "syncDir" => m \in Names /\ Newer(entry[m], t)
    BY DEF DurableInv, SyncedBy, SaveInv, Progress
  <2>3. saver[t].sure => /\ saver[t].pc = "returned" /\ m \in Names /\ entry[m] \in maybe[m]
                         /\ \A e \in maybe[m] : Newer(e, t)
    BY DEF DurableInv, SyncedBy, SaveInv, Places
  <2>4. ASSUME saver[t].pc = "syncDir", NEW e, e = entry'[m] PROVE Newer(e, t)'
    BY <1>4, <1>8, <1>9, <2>2, <2>4
  <2>5. ASSUME saver[t].sure, NEW e \in maybe'[m] PROVE Newer(e, t)'
    BY <1>4, <1>8, <1>9, <2>3, <2>5
  <2> QED BY <2>1, <2>3, <2>4, <2>5 DEF SyncedBy
<1> QED BY <1>7, <1>11, <1>12

\* Flushing the directory leaves of every name in it the entry it has now.
LEMMA SyncDirFields ==
    ASSUME SaveInv, NEW s \in Savers, syncDir(s)
    PROVE  /\ Others(s) /\ saver[s].pc = "syncDir" /\ saver'[s].pc = "returned"
           /\ saver'[s].target = saver[s].target /\ saver'[s].failed = saver[s].failed
           /\ UNCHANGED <<layout, rights, entry, inode, crashed, renames>>
           /\ \A n \in Names : maybe'[n] \in {maybe[n], {entry[n]}}
           /\ saver'[s].sure => saver[s].sure \/ maybe'[saver[s].target] = {entry[saver[s].target]}
<1>1. saver[s].pc = "syncDir" /\ saver[s].target \in Names /\ saver[s] \in Locals
  BY DEF syncDir, SaveInv, Progress, SaveTypes
<1>2. CASE Goto(s, "returned") /\ OnlySaver
  BY <1>1, <1>2, GotoFields DEF SaveInv, LocalsKept, OnlySaver, DirsUnchanged
<1>3. CASE /\ maybe' = [p \in Places |-> IF HasDir(p) /\ InDir(p, DirOf[saver[s].target]) THEN {entry[p]} ELSE maybe[p]]
           /\ saver' = [saver EXCEPT ![s].pc = "returned", ![s].sure = TRUE]
           /\ UNCHANGED <<layout, rights, entry, inode, crashed, renames>>
  <2> DEFINE l == [saver[s] EXCEPT !.pc = "returned", !.sure = TRUE]
  <2>1. saver' = [saver EXCEPT ![s] = l]
    BY <1>3
  <2>2. l.pc = "returned" /\ l.target = saver[s].target /\ l.failed = saver[s].failed
    BY <1>1 DEF Locals
  <2> HIDE DEF l
  <2>3. saver'[s] = l /\ Others(s)
    BY <2>1 DEF SaveInv, SaveTypes, Others
  <2>4. \A p \in Places : maybe'[p] = IF HasDir(p) /\ InDir(p, DirOf[saver[s].target]) THEN {entry[p]} ELSE maybe[p]
    BY <1>3
  <2>5. maybe'[saver[s].target] = {entry[saver[s].target]}
    BY <1>1, <2>4 DEF HasDir, InDir, Places
  <2>6. \A n \in Names : maybe'[n] \in {maybe[n], {entry[n]}}
    BY <2>4 DEF Places
  <2> QED BY <1>1, <1>3, <2>2, <2>3, <2>5, <2>6
<1> QED BY <1>2, <1>3 DEF syncDir

LEMMA DurableSyncs ==
    ASSUME DurableInv, NEW s \in Savers, syncDir(s)
    PROVE  RenamesOnce' /\ \A t \in Savers : SyncedBy(t)'
<1>1. /\ Others(s) /\ saver[s].pc = "syncDir" /\ saver'[s].pc = "returned" /\ saver'[s].target = saver[s].target
      /\ UNCHANGED <<entry, renames>>
      /\ \A n \in Names : maybe'[n] \in {maybe[n], {entry[n]}}
      /\ saver'[s].sure => saver[s].sure \/ maybe'[saver[s].target] = {entry[saver[s].target]}
  BY SyncDirFields DEF DurableInv
<1>2. RenamesOnce'
  BY <1>1 DEF DurableInv, RenamesOnce, Others
<1>3. \A e, t : Newer(e, t) => Newer(e, t)'
  BY <1>1 DEF Newer
<1>4. \A n \in Names : maybe'[n] \subseteq maybe[n]
  BY <1>1 DEF DurableInv, SaveInv, Places
<1>5. SyncedBy(s)'
  <2>1. saver[s].target \in Names /\ ~saver[s].sure /\ Newer(entry[saver[s].target], s)
    BY <1>1 DEF DurableInv, SaveInv, Progress, SyncedBy
  <2> QED BY <1>1, <1>3, <2>1 DEF SyncedBy
<1>6. ASSUME NEW t \in Savers \ {s} PROVE SyncedBy(t)'
  <2>1. SyncedBy(t) /\ saver'[t] = saver[t]
    BY <1>1 DEF DurableInv, Others
  <2> QED BY <1>1, <1>3, <1>4, <2>1 DEF SyncedBy
<1> QED BY <1>2, <1>5, <1>6

\* What a crash leaves of every name, of every file and of every saver.
LEMMA CrashFields ==
    ASSUME SaveInv, Crash
    PROVE  /\ UNCHANGED <<layout, rights, renames>> /\ crashed'
           /\ \A n \in Names : entry'[n] \in maybe[n] /\ maybe'[n] = {entry'[n]}
           /\ \A f \in Files : inode'[f].attrs = inode[f].attrs \/ (inode'[f].attrs = NewAttrs /\ ~inode[f].synced)
           /\ \A s \in Savers : \/ saver'[s] = saver[s] /\ saver[s].pc \in {"idle", "returned", "littered"}
                                \/ /\ saver'[s].pc = "crashed" /\ saver[s].pc \notin {"idle", "returned", "littered"}
                                   /\ saver'[s].target = saver[s].target /\ saver'[s].failed = saver[s].failed
                                   /\ saver'[s].sure = saver[s].sure
<1>1. UNCHANGED <<layout, rights, renames>> /\ crashed'
  BY DEF Crash
<1>2. \A n \in Names : entry'[n] \in maybe[n] /\ maybe'[n] = {entry'[n]}
  BY DEF Crash, Places
<1>3. ASSUME NEW f \in Files
      PROVE  inode'[f].attrs = inode[f].attrs \/ (inode'[f].attrs = NewAttrs /\ ~inode[f].synced)
  <2>1. PICK lost \in SUBSET {g \in Files : ~inode[g].synced} :
          inode' = [g \in Files |-> IF g \in lost THEN [content |-> "part", synced |-> TRUE, attrs |-> NewAttrs]
                                    ELSE [inode[g] EXCEPT !.synced = TRUE]]
    BY DEF Crash
  <2>2. inode[f] \in Inodes
    BY DEF SaveInv, SaveTypes
  <2>3. CASE f \in lost
    BY <2>1, <2>3
  <2>4. CASE f \notin lost
    BY <2>1, <2>2, <2>4 DEF Inodes
  <2> QED BY <2>3, <2>4
<1>4. ASSUME NEW s \in Savers
      PROVE  \/ saver'[s] = saver[s] /\ saver[s].pc \in {"idle", "returned", "littered"}
             \/ /\ saver'[s].pc = "crashed" /\ saver[s].pc \notin {"idle", "returned", "littered"}
                /\ saver'[s].target = saver[s].target /\ saver'[s].failed = saver[s].failed
                /\ saver'[s].sure = saver[s].sure
  <2>1. saver[s] \in Locals
    BY DEF SaveInv, SaveTypes
  <2>2. saver'[s] = IF saver[s].pc \in {"idle", "returned", "littered"} THEN saver[s]
                    ELSE [saver[s] EXCEPT !.pc = "crashed"]
    BY DEF Crash
  <2> QED BY <2>1, <2>2 DEF Locals
<1> QED BY <1>1, <1>2, <1>3, <1>4

LEMMA DurableCrash == ASSUME DurableInv, Crash PROVE RenamesOnce' /\ \A t \in Savers : SyncedBy(t)'
<1>1. /\ UNCHANGED renames
      /\ \A n \in Names : entry'[n] \in maybe[n] /\ maybe'[n] = {entry'[n]}
      /\ \A s \in Savers : \/ saver'[s] = saver[s] /\ saver[s].pc \in {"idle", "returned", "littered"}
                           \/ saver'[s].pc = "crashed" /\ saver[s].pc \notin {"idle", "returned", "littered"}
                              /\ saver'[s].sure = saver[s].sure
  BY CrashFields DEF DurableInv
<1>2. RenamesOnce'
  <2>1. \A i \in DOMAIN renames : renames[i] \in Savers /\ saver[renames[i]].pc \in {"syncDir", "returned", "crashed"}
    BY DEF DurableInv, RenamesOnce
  <2>2. \A i \in DOMAIN renames : saver'[renames[i]].pc \in {"syncDir", "returned", "crashed"}
    BY <1>1, <2>1
  <2> QED BY <1>1, <2>2 DEF DurableInv, RenamesOnce
<1>3. \A e, t : Newer(e, t) => Newer(e, t)'
  BY <1>1 DEF Newer
<1>4. ASSUME NEW t \in Savers PROVE SyncedBy(t)'
  <2>1. SyncedBy(t)
    BY DEF DurableInv
  <2> QED BY <1>1, <1>3, <2>1 DEF SyncedBy
<1> QED BY <1>2, <1>4

LEMMA StepTurns ==
    ASSUME SaveInv, NEW s \in Savers, SaveStep(s) \/ \E n \in Names : SaveCall(s, n)
    PROVE  Turn(s) \/ (Rename(s) /\ ~RenameFails(s)) \/ syncDir(s)
<1>1. CASE \E n \in Names : SaveCall(s, n)
  BY <1>1, CallTurns
<1>2. CASE resolveSymlinks(s)
  <2>1. CASE Goto(s, "stat")
    BY <1>2, <2>1, OtherTurns
  <2>2. CASE saver' = [saver EXCEPT ![s].target = entry[saver[s].target].to, ![s].hops = @ + 1]
    BY <1>2, <2>2, FollowTurns DEF resolveSymlinks
  <2> QED BY <1>2, <2>1, <2>2 DEF resolveSymlinks
<1>3. CASE SaveStat(s)
  BY <1>3, StatTurns
<1>4. CASE CreateTemp(s) \/ encodeWith(s) \/ TakeAttrs(s) \/ SyncTemp(s) \/ CloseTemp(s) \/ RenameFails(s) \/ RemoveTemp(s)
  BY <1>4, OtherTurns
<1> QED BY <1>1, <1>2, <1>3, <1>4 DEF SaveStep

LEMMA DurableStep == DurableInv /\ [SaveNext]_saveVars => DurableInv'
<1> SUFFICES ASSUME DurableInv, [SaveNext]_saveVars PROVE DurableInv'
  OBVIOUS
<1>1. SaveInv'
  BY SaveStepKeeps DEF DurableInv
<1>2. RenamesOnce' /\ \A t \in Savers : SyncedBy(t)'
  <2>1. ASSUME NEW s \in Savers, SaveStep(s) \/ \E n \in Names : SaveCall(s, n)
        PROVE  RenamesOnce' /\ \A t \in Savers : SyncedBy(t)'
    <3>1. Turn(s) \/ (Rename(s) /\ ~RenameFails(s)) \/ syncDir(s)
      BY <2>1, StepTurns DEF DurableInv
    <3> QED BY <3>1, DurableTurns, DurableRenames, DurableSyncs
  <2>2. CASE UNCHANGED saveVars
    BY <2>2 DEF saveVars, DurableInv, RenamesOnce, SyncedBy, Newer
  <2> QED BY <2>1, <2>2, DurableCrash DEF SaveNext
<1> QED BY <1>1, <1>2 DEF DurableInv

\* A save that returned after it synced the directory is not undone: whatever
\* other savers do and whenever the machine crashes, the file holds its
\* document or that of a rename that came later (SaveTo, syncDir).
THEOREM SavesDurably == SaveSpec => []SavedDurable
<1>1. (\E setup \in Setups : SaveInitAs(setup)) => DurableInv
  BY DurableInit
<1> QED BY <1>1, DurableHolds, DurableStep, PTL DEF SaveSpec
-----------------------------------------------------------------------------
(* SavedInPlace: links stay, attributes stay, a save that fails leaves no  *)
(* trace.                                                                  *)

\* The attributes a file under the name may have.
AttrsOf(n, attrs) ==
    IF layout[n] = File("old")
    THEN /\ attrs.mode = "old"
         /\ rights = "owner" => attrs.owner = "old"
         /\ rights # "none" => attrs.group = "old"
    ELSE attrs.mode = "0600"

\* Links come from the layout only, a file stays one, and a link that leads
\* somewhere stays as it is.
NameInPlace(n) ==
    /\ n \notin Circular /\ layout[n].kind = "link" => maybe[n] = {layout[n]}
    /\ \A e \in maybe[n] : /\ e.kind = "link" => e = layout[n]
                           /\ layout[n] = File("old") => e.kind = "file"
                           /\ e.kind = "file" => AttrsOf(n, inode[e.inode].attrs)

\* What a saver carries from the target's file to its own.
CarriedBy(s) ==
    LET n == saver[s].target
    IN  /\ saver[s].pc \in {"idle", "resolve", "stat", "create", "encode", "own"} => inode[s].attrs = NewAttrs
        /\ saver[s].pc \in {"create", "encode", "own"} =>
              \/ saver[s].existing = NoAttrs /\ layout[n] # File("old")
              \/ AttrsOf(n, saver[s].existing)
        /\ saver[s].pc \in {"sync", "rename"} \/ (saver[s].pc = "close" /\ ~saver[s].failed) =>
              AttrsOf(n, inode[s].attrs)

\* A save that failed is not renamed, and what returned has left no temp file.
CleanBy(s) ==
    /\ saver[s].pc \in {"rename", "syncDir"} => ~saver[s].failed
    /\ saver[s].failed => \A n \in Names : File(s) \notin maybe[n]
    /\ ~crashed /\ saver[s].pc \in {"idle", "resolve", "stat", "create", "syncDir", "returned"} => entry[s] = Missing

\* Names each of which is a link to the next.
Walk(w) ==
    \A i \in DOMAIN w : layout[w[i]].kind = "link" /\ (i + 1 \in DOMAIN w => layout[w[i]].to = w[i + 1])

\* After k links, resolveSymlinks is at n.
Reached(n, k) == \E w \in [1..k -> Names] : Walk(w) /\ (k > 0 => layout[w[k]].to = n)

\* No more links follow each other than resolveSymlinks follows, but in circles.
NoLongChain ==
    \A w \in [1..(MaxSymlinkHops + 1) -> Names] : Walk(w) => w[MaxSymlinkHops + 1] \in Circular

\* What resolveSymlinks returns is no link that leads somewhere.
ResolvedBy(s) ==
    /\ saver[s].pc = "idle" => saver[s].hops = 0
    /\ saver[s].pc = "resolve" => saver[s].hops <= MaxSymlinkHops /\ Reached(saver[s].target, saver[s].hops)
    /\ saver[s].pc \in {"stat", "create", "encode", "own", "sync", "close", "rename"}
          /\ layout[saver[s].target].kind = "link" => saver[s].target \in Circular

LayoutTypes == layout \in [Names -> {Missing, File("old")} \cup {Link(n) : n \in Names}]

PlaceInv ==
    /\ SaveInv /\ LayoutTypes /\ NoLongChain
    /\ \A n \in Names : NameInPlace(n)
    /\ \A s \in Savers : CarriedBy(s) /\ CleanBy(s) /\ ResolvedBy(s)

LEMMA PlaceHolds == ASSUME PlaceInv PROVE SavedInPlace
<1>1. \A n \in Names : entry[n] \in maybe[n]
  BY DEF PlaceInv, SaveInv, Places
<1>2. \A n \in Names \ Circular : layout[n].kind = "link" => entry[n] = layout[n]
  BY <1>1 DEF PlaceInv, NameInPlace
<1>3. \A n \in Names : entry[n].kind = "file" => AttrsOf(n, inode[entry[n].inode].attrs)
  BY <1>1 DEF PlaceInv, NameInPlace
<1>4. \A s \in Savers : saver[s].failed =>
          /\ \A n \in Names : File(s) \notin maybe[n]
          /\ saver[s].pc = "returned" /\ ~crashed => entry[s] = Missing
  BY DEF PlaceInv, CleanBy
<1> QED BY <1>2, <1>3, <1>4 DEF SavedInPlace, AttrsOf

LEMMA PlaceInit ==
    ASSUME NEW setup \in Setups, SaveInitAs(setup), NoLongChain
    PROVE  PlaceInv
<1>1. SaveInv
  BY SaveInitInv
<1>2. LayoutTypes
  BY SaveToAssumption DEF SaveInitAs, LayoutTypes
<1>3. /\ \A n \in Names : maybe[n] = {layout[n]}
      /\ \A f \in Files : inode[f].attrs = IF f = "old" THEN OldAttrs ELSE NewAttrs
      /\ \A s \in Savers : saver[s] = Idle /\ entry[s] = Missing
  <2>1. \A f \in Files : inode[f].attrs = IF f = "old" THEN OldAttrs ELSE NewAttrs
    BY DEF SaveInitAs
  <2>2. \A s \in Savers : saver[s] = Idle /\ entry[s] = Missing
    BY Kinds DEF SaveInitAs, Places
  <2>3. \A n \in Names : maybe[n] = {layout[n]}
    BY DEF SaveInitAs, Places
  <2> QED BY <2>1, <2>2, <2>3
<1>4. ASSUME NEW n \in Names PROVE NameInPlace(n)
  <2>1. CASE layout[n] = File("old")
    <3>1. File("old").kind = "file" /\ File("old").inode = "old" /\ inode["old"].attrs = OldAttrs
      BY <1>3, Kinds DEF Files
    <3>2. AttrsOf(n, OldAttrs)
      BY <2>1 DEF AttrsOf, OldAttrs
    <3> QED BY <1>3, <2>1, <3>1, <3>2 DEF NameInPlace
  <2>2. CASE layout[n] # File("old")
    <3>1. layout[n].kind # "file"
      BY <1>2, <2>2, Kinds DEF LayoutTypes
    <3> QED BY <1>3, <2>2, <3>1 DEF NameInPlace
  <2> QED BY <2>1, <2>2
<1>5. ASSUME NEW s \in Savers PROVE CarriedBy(s) /\ CleanBy(s) /\ ResolvedBy(s)
  <2>1. Idle.pc = "idle" /\ ~Idle.failed /\ Idle.hops = 0
    BY DEF Idle
  <2>2. inode[s].attrs = NewAttrs
    BY <1>3, Kinds DEF Files
  <2> QED BY <1>3, <2>1, <2>2 DEF CarriedBy, CleanBy, ResolvedBy
<1> QED BY <1>1, <1>2, <1>4, <1>5 DEF PlaceInv

\* A step that changes no name keeps the invariant if the saver does its part.
LEMMA PlaceTurns ==
    ASSUME PlaceInv, SaveInv', NEW s \in Savers, Turn(s),
           CarriedBy(s)', saver'[s].pc = "rename" => ~saver'[s].failed, ResolvedBy(s)',
           ~crashed /\ saver'[s].pc \in {"idle", "resolve", "stat", "create", "returned"} => entry'[s] = Missing
    PROVE  PlaceInv'
<1>1. LayoutTypes' /\ Circular' = Circular /\ NoLongChain'
  BY DEF PlaceInv, Turn, LayoutTypes, NoLongChain, Circular, Walk
<1>2. \A n \in Names : File(s) \notin maybe[n]
  BY DEF PlaceInv, SaveInv, Finished, Turn
<1>3. ASSUME NEW n \in Names PROVE NameInPlace(n)'
  <2>1. maybe'[n] = maybe[n] /\ layout' = layout /\ rights' = rights
    BY DEF Turn, NamesKept
  <2>2. ASSUME NEW e \in maybe[n], e.kind = "file" PROVE inode'[e.inode] = inode[e.inode]
    <3>1. PICK f \in Files : e = File(f)
      BY <2>2, Kinds DEF PlaceInv, SaveInv, SaveTypes, Places
    <3>2. e.inode = f /\ f # s
      BY <1>2, <2>2, <3>1, Kinds
    <3> QED BY <3>2 DEF Turn
  <2> QED BY <1>1, <2>1, <2>2 DEF PlaceInv, NameInPlace, AttrsOf
<1>4. CleanBy(s)'
  BY <1>2 DEF Turn, NamesKept, CleanBy
<1>5. ASSUME NEW t \in Savers \ {s} PROVE CarriedBy(t)' /\ CleanBy(t)' /\ ResolvedBy(t)'
  <2>1. /\ saver'[t] = saver[t] /\ entry'[t] = entry[t] /\ inode'[t] = inode[t]
        /\ UNCHANGED <<layout, rights, crashed>> /\ NamesKept
    BY DEF Turn, Others, Files
  <2>2. CarriedBy(t)'
    BY <2>1 DEF PlaceInv, CarriedBy, AttrsOf
  <2>3. CleanBy(t)'
    BY <2>1 DEF PlaceInv, CleanBy, NamesKept
  <2>4. ResolvedBy(t)'
    BY <1>1, <2>1 DEF PlaceInv, ResolvedBy, Reached, Walk
  <2> QED BY <2>2, <2>3, <2>4
<1> QED BY <1>1, <1>3, <1>4, <1>5 DEF PlaceInv

\* One link more.
LEMMA WalkOn ==
    ASSUME LayoutTypes, NEW n \in Names, NEW k \in Nat, Reached(n, k), layout[n].kind = "link"
    PROVE  \E w \in [1..(k + 1) -> Names] : Walk(w) /\ w[k + 1] = n
<1>1. PICK w \in [1..k -> Names] : Walk(w) /\ (k > 0 => layout[w[k]].to = n)
  BY DEF Reached
<1> DEFINE v == [i \in 1..(k + 1) |-> IF i <= k THEN w[i] ELSE n]
<1>2. v \in [1..(k + 1) -> Names] /\ v[k + 1] = n
  BY <1>1
<1>3. ASSUME NEW i \in 1..(k + 1)
      PROVE  layout[v[i]].kind = "link" /\ (i + 1 \in 1..(k + 1) => layout[v[i]].to = v[i + 1])
  <2>1. CASE i < k
    <3>1. i \in 1..k /\ i + 1 \in 1..k /\ v[i] = w[i] /\ v[i + 1] = w[i + 1]
      BY <2>1
    <3> QED BY <1>1, <3>1 DEF Walk
  <2>2. CASE i = k
    <3>1. k \in 1..k /\ k > 0 /\ v[k] = w[k] /\ v[k + 1] = n
      BY <2>2
    <3> QED BY <1>1, <2>2, <3>1 DEF Walk
  <2>3. CASE i = k + 1
    BY <1>2, <2>3
  <2> QED BY <2>1, <2>2, <2>3
<1> HIDE DEF v
<1> QED BY <1>2, <1>3 DEF Walk

LEMMA PlaceCalls == ASSUME PlaceInv, SaveInv', NEW s \in Savers, NEW n \in Names, SaveCall(s, n) PROVE PlaceInv'
<1>1. /\ Turn(s) /\ saver[s].pc = "idle" /\ saver'[s].pc = "resolve" /\ saver'[s].target = n
      /\ saver'[s].hops = 0 /\ saver'[s].failed = saver[s].failed
      /\ UNCHANGED <<entry, inode, layout>>
  BY CallTurns DEF SaveCall, PlaceInv, ResolvedBy, OnlySaver, DirsUnchanged
<1>2. CarriedBy(s)'
  BY <1>1 DEF PlaceInv, CarriedBy
<1>3. ResolvedBy(s)'
  <2> DEFINE w == [i \in 1..0 |-> n]
  <2>1. w \in [1..0 -> Names] /\ Walk(w) /\ ~(0 > 0)
    BY DEF Walk
  <2> HIDE DEF w
  <2>2. Reached(n, 0)
    BY <2>1, Zenon DEF Reached
  <2>3. Reached(n, 0)'
    BY <1>1, <2>2 DEF Reached, Walk
  <2> QED BY <1>1, <2>3, SaveToAssumption DEF ResolvedBy
<1>4. ~crashed => entry'[s] = Missing
  BY <1>1 DEF PlaceInv, CleanBy
<1> QED BY <1>1, <1>2, <1>3, <1>4, PlaceTurns

\* After MaxSymlinkHops links the next one leads in circles.
LEMMA PlaceResolves == ASSUME PlaceInv, SaveInv', NEW s \in Savers, resolveSymlinks(s) PROVE PlaceInv'
<1>0. PICK n, k : n = saver[s].target /\ k = saver[s].hops
  OBVIOUS
<1>1. /\ saver[s].pc = "resolve" /\ n \in Names /\ k \in Nat /\ k <= MaxSymlinkHops /\ Reached(n, k)
      /\ MaxSymlinkHops \in Nat /\ OnlySaver
  BY <1>0, SaveToAssumption
     DEF resolveSymlinks, PlaceInv, SaveInv, SaveTypes, Locals, Progress, ResolvedBy
<1>2. UNCHANGED <<entry, inode, layout, rights>> /\ (~crashed => entry[s] = Missing)
  BY <1>1 DEF OnlySaver, DirsUnchanged, PlaceInv, CleanBy
<1>3. entry[n] \in maybe[n] /\ entry[n] \in Entries
  BY <1>1 DEF PlaceInv, SaveInv, SaveTypes, Places
<1>4. entry[n].kind = "link" => entry[n] = layout[n]
  BY <1>1, <1>3 DEF PlaceInv, NameInPlace
<1>5. layout[n].kind = "link" => \E w \in [1..(k + 1) -> Names] : Walk(w) /\ w[k + 1] = n
  BY <1>1, WalkOn DEF PlaceInv
<1>6. CASE entry[n].kind = "link" /\ k < MaxSymlinkHops
           /\ saver' = [saver EXCEPT ![s].target = entry[n].to, ![s].hops = @ + 1]
  <2>0. PICK to : to = entry[n].to
    OBVIOUS
  <2>1. /\ Turn(s) /\ saver'[s].pc = "resolve" /\ saver'[s].target = to
        /\ saver'[s].hops = k + 1
    BY <1>0, <1>1, <1>6, <2>0, FollowTurns DEF PlaceInv
  <2>2. PICK w \in [1..(k + 1) -> Names] : Walk(w) /\ w[k + 1] = n
    BY <1>4, <1>5, <1>6
  <2>3. layout[w[k + 1]].to = to
    BY <1>4, <1>6, <2>0, <2>2
  <2>4. Reached(to, k + 1)
    BY <2>2, <2>3 DEF Reached
  <2>5. Reached(to, k + 1)'
    BY <1>2, <2>4 DEF Reached, Walk
  <2>6. ResolvedBy(s)'
    BY <1>1, <1>6, <2>1, <2>5 DEF ResolvedBy
  <2>7. CarriedBy(s)'
    BY <1>1, <1>2, <2>1 DEF PlaceInv, CarriedBy
  <2> QED BY <1>2, <2>1, <2>6, <2>7, PlaceTurns
<1>7. CASE ~(entry[n].kind = "link" /\ k < MaxSymlinkHops) /\ Goto(s, "stat")
  <2>1. Turn(s) /\ saver'[s].pc = "stat" /\ saver'[s].target = n
    BY <1>0, <1>1, <1>7, GotoFields, OtherTurns DEF resolveSymlinks, PlaceInv, SaveInv, LocalsKept
  <2>2. ASSUME layout[n].kind = "link", n \notin Circular PROVE FALSE
    <3>1. entry[n] = layout[n]
      BY <1>1, <1>3, <2>2 DEF PlaceInv, NameInPlace
    <3>2. k = MaxSymlinkHops
      BY <1>1, <1>7, <2>2, <3>1
    <3> QED BY <1>5, <2>2, <3>2 DEF PlaceInv, NoLongChain
  <2>3. Circular' = Circular
    BY <1>2 DEF Circular
  <2>4. ResolvedBy(s)'
    BY <1>2, <2>1, <2>2, <2>3 DEF ResolvedBy
  <2>5. CarriedBy(s)'
    BY <1>1, <1>2, <2>1 DEF PlaceInv, CarriedBy
  <2> QED BY <1>2, <2>1, <2>4, <2>5, PlaceTurns
<1> QED BY <1>0, <1>6, <1>7 DEF resolveSymlinks

LEMMA PlaceStats == ASSUME PlaceInv, SaveInv', NEW s \in Savers, SaveStat(s) PROVE PlaceInv'
<1> DEFINE n == saver[s].target
           e == entry[n]
<1>1. saver[s].pc = "stat" /\ n \in Names /\ UNCHANGED <<entry, inode, layout, rights>>
  BY DEF SaveStat, PlaceInv, SaveInv, Progress, OnlySaver, DirsUnchanged
<1>2. /\ Turn(s) /\ saver'[s].pc = "create" /\ saver'[s].target = n /\ saver'[s].failed = saver[s].failed
      /\ saver'[s].existing = IF e.kind = "file" THEN inode[e.inode].attrs ELSE NoAttrs
  BY StatTurns DEF PlaceInv
<1>3. e \in maybe[n]
  BY <1>1 DEF PlaceInv, SaveInv, Places
<1>4. \/ saver'[s].existing = NoAttrs /\ layout[n] # File("old")
      \/ AttrsOf(n, saver'[s].existing)
  BY <1>1, <1>2, <1>3 DEF PlaceInv, NameInPlace
<1> HIDE DEF n
<1>5. CarriedBy(s)'
  BY <1>1, <1>2, <1>4 DEF PlaceInv, CarriedBy, AttrsOf
<1>6. ResolvedBy(s)'
  BY <1>1, <1>2 DEF n, PlaceInv, ResolvedBy, Circular
<1>7. ~crashed => entry'[s] = Missing
  BY <1>1 DEF PlaceInv, CleanBy
<1> QED BY <1>1, <1>2, <1>5, <1>6, <1>7, PlaceTurns

\* The steps after SaveStat stay at the target.
LEMMA PlaceStays ==
    ASSUME PlaceInv, SaveInv', NEW s \in Savers, Turn(s), LocalsKept(s), CarriedBy(s)',
           saver[s].pc \in {"create", "encode", "own", "sync", "close", "rename", "remove"},
           saver'[s].pc \notin {"idle", "resolve", "stat", "create"},
           saver'[s].pc \in {"sync", "close", "rename"} => saver[s].pc # "remove",
           saver'[s].pc \in {"encode", "own"} => saver[s].pc # "remove",
           saver'[s].pc = "rename" => ~saver'[s].failed,
           ~crashed /\ saver'[s].pc = "returned" => entry'[s] = Missing
    PROVE  PlaceInv'
<1>1. ResolvedBy(s)'
  BY DEF PlaceInv, ResolvedBy, Turn, LocalsKept, Circular
<1> QED BY <1>1, PlaceTurns

LEMMA PlaceCreates == ASSUME PlaceInv, SaveInv', NEW s \in Savers, CreateTemp(s) PROVE PlaceInv'
<1>1. /\ Turn(s) /\ LocalsKept(s) /\ saver[s].pc = "create" /\ UNCHANGED <<inode, layout, rights>>
      /\ saver'[s].pc \in {"encode", "returned"}
      /\ saver'[s].pc = "returned" => UNCHANGED entry
  <2>1. Turn(s) /\ LocalsKept(s) /\ saver[s].pc = "create" /\ UNCHANGED <<inode, layout, rights>>
    BY OtherTurns DEF CreateTemp, PlaceInv, OnlySaver, DirsUnchanged
  <2>2. CASE Goto(s, "encode")
    BY <2>1, <2>2, GotoFields DEF PlaceInv, SaveInv
  <2>3. CASE Fail(s, "returned") /\ OnlySaver
    BY <2>1, <2>3, FailFields DEF PlaceInv, SaveInv, OnlySaver, DirsUnchanged
  <2> QED BY <2>1, <2>2, <2>3 DEF CreateTemp
<1>2. CarriedBy(s)'
  BY <1>1 DEF PlaceInv, CarriedBy, LocalsKept, AttrsOf
<1>3. ~crashed => entry[s] = Missing
  BY <1>1 DEF PlaceInv, CleanBy
<1> QED BY <1>1, <1>2, <1>3, PlaceStays

LEMMA PlaceEncodes == ASSUME PlaceInv, SaveInv', NEW s \in Savers, encodeWith(s) PROVE PlaceInv'
<1>1. /\ Turn(s) /\ LocalsKept(s) /\ saver[s].pc = "encode" /\ UNCHANGED <<layout, rights>>
  BY OtherTurns DEF encodeWith, PlaceInv, DirsUnchanged
<1>2. saver'[s].pc = "own" \/ (saver'[s].pc = "close" /\ saver'[s].failed)
  BY GotoFields, FailFields DEF encodeWith, PlaceInv, SaveInv
<1>3. inode'[s].attrs = inode[s].attrs
  BY DEF encodeWith, SetInode, PlaceInv, SaveInv, SaveTypes, Files, Inodes
<1>4. CarriedBy(s)'
  BY <1>1, <1>2, <1>3 DEF PlaceInv, CarriedBy, LocalsKept, AttrsOf
<1> QED BY <1>1, <1>2, <1>4, PlaceStays

\* A file that replaces one takes its mode, and its owner and group as far
\* as the process may give them.
LEMMA PlaceOwns == ASSUME PlaceInv, SaveInv', NEW s \in Savers, TakeAttrs(s) PROVE PlaceInv'
<1> DEFINE n == saver[s].target
           x == saver[s].existing
           attrs == keepOwner(inode[s].attrs, x)
           moded == [attrs EXCEPT !.mode = x.mode]
<1>1. /\ Turn(s) /\ LocalsKept(s) /\ saver[s].pc = "own" /\ UNCHANGED <<layout, rights>>
  BY OtherTurns DEF TakeAttrs, PlaceInv, DirsUnchanged
<1>2. /\ inode[s] \in Inodes /\ x \in Attrs /\ inode[s].attrs = NewAttrs
      /\ (x = NoAttrs /\ layout[n] # File("old")) \/ AttrsOf(n, x)
  BY <1>1 DEF PlaceInv, SaveInv, SaveTypes, Locals, Files, CarriedBy
<1>3. CASE x = NoAttrs /\ Goto(s, "sync") /\ UNCHANGED inode
  <2>1. saver'[s].pc = "sync"
    BY <1>3, GotoFields DEF PlaceInv, SaveInv
  <2>2. layout[n] # File("old")
    BY <1>2, <1>3 DEF AttrsOf, NoAttrs
  <2>3. AttrsOf(n, NewAttrs)
    BY <2>2 DEF AttrsOf, NewAttrs
  <2>4. CarriedBy(s)'
    BY <1>1, <1>2, <1>3, <2>1, <2>3 DEF CarriedBy, LocalsKept, AttrsOf
  <2> QED BY <1>1, <2>1, <2>4, PlaceStays
<1>4. CASE /\ x # NoAttrs /\ Goto(s, "sync")
           /\ inode' = [inode EXCEPT ![s] = [inode[s] EXCEPT !.attrs = moded]]
  <2>1. saver'[s].pc = "sync"
    BY <1>4, GotoFields DEF PlaceInv, SaveInv
  <2>2. AttrsOf(n, x)
    BY <1>2, <1>4
  <2>3. /\ attrs \in Attrs
        /\ attrs.owner = IF rights = "owner" THEN x.owner ELSE NewAttrs.owner
        /\ attrs.group = IF rights \in {"owner", "group"} THEN x.group ELSE NewAttrs.group
    <3> DEFINE o == IF rights = "owner" THEN x.owner ELSE NewAttrs.owner
               g == IF rights \in {"owner", "group"} THEN x.group ELSE NewAttrs.group
    <3>1. o \in {"old", "self", "none"} /\ g \in {"old", "self", "none"} /\ NewAttrs \in Attrs
      BY <1>2 DEF Attrs, NewAttrs
    <3>2. attrs = [NewAttrs EXCEPT !.owner = o, !.group = g]
      BY <1>2 DEF keepOwner
    <3> HIDE DEF o, g, attrs
    <3>3. attrs \in Attrs /\ attrs.owner = o /\ attrs.group = g
      BY <3>1, <3>2 DEF Attrs
    <3> QED BY <3>3 DEF o, g
  <2> HIDE DEF attrs
  <2>4. moded.mode = x.mode /\ moded.owner = attrs.owner /\ moded.group = attrs.group
    BY <2>3 DEF Attrs
  <2>5. AttrsOf(n, moded)
    BY <2>2, <2>3, <2>4 DEF AttrsOf, PlaceInv, SaveInv, SaveTypes
  <2> HIDE DEF moded
  <2>6. inode'[s].attrs = moded
    BY <1>2, <1>4 DEF PlaceInv, SaveInv, SaveTypes, Files, Inodes
  <2>7. CarriedBy(s)'
    BY <1>1, <2>1, <2>5, <2>6 DEF CarriedBy, LocalsKept, AttrsOf
  <2> QED BY <1>1, <2>1, <2>7, PlaceStays
<1>5. CASE Fail(s, "close")
  <2>1. saver'[s].pc = "close" /\ saver'[s].failed
    BY <1>5, FailFields DEF PlaceInv, SaveInv
  <2>2. CarriedBy(s)'
    BY <2>1 DEF CarriedBy
  <2> QED BY <1>1, <2>1, <2>2, PlaceStays
<1> QED BY <1>3, <1>4, <1>5 DEF TakeAttrs, SetInode

LEMMA PlaceSyncs == ASSUME PlaceInv, SaveInv', NEW s \in Savers, SyncTemp(s) PROVE PlaceInv'
<1>1. /\ Turn(s) /\ LocalsKept(s) /\ saver[s].pc = "sync" /\ UNCHANGED <<layout, rights>>
  BY OtherTurns DEF SyncTemp, PlaceInv, OnlySaver, DirsUnchanged
<1>2. saver'[s].pc = "close"
  BY GotoFields, FailFields DEF SyncTemp, PlaceInv, SaveInv
<1>3. inode'[s].attrs = inode[s].attrs
  BY DEF SyncTemp, OnlySaver, SetInode, PlaceInv, SaveInv, SaveTypes, Files, Inodes
<1>4. CarriedBy(s)'
  BY <1>1, <1>2, <1>3 DEF PlaceInv, CarriedBy, LocalsKept, AttrsOf
<1> QED BY <1>1, <1>2, <1>4, PlaceStays

LEMMA PlaceCloses == ASSUME PlaceInv, SaveInv', NEW s \in Savers, CloseTemp(s) PROVE PlaceInv'
<1>1. /\ Turn(s) /\ LocalsKept(s) /\ saver[s].pc = "close" /\ UNCHANGED <<layout, rights, inode>>
  BY OtherTurns DEF CloseTemp, PlaceInv, OnlySaver, DirsUnchanged
<1>2. saver'[s].pc = "remove" \/ (saver'[s].pc = "rename" /\ ~saver[s].failed /\ ~saver'[s].failed)
  <2>1. CASE Goto(s, IF saver[s].failed THEN "remove" ELSE "rename")
    BY <2>1, GotoFields DEF PlaceInv, SaveInv
  <2>2. CASE Fail(s, "remove")
    BY <2>2, FailFields DEF PlaceInv, SaveInv
  <2> QED BY <2>1, <2>2 DEF CloseTemp
<1>3. CarriedBy(s)'
  BY <1>1, <1>2 DEF PlaceInv, CarriedBy, LocalsKept, AttrsOf
<1> QED BY <1>1, <1>2, <1>3, PlaceStays

\* Giving up: the temp file is removed, or stays with the name it has.
LEMMA PlaceGivesUp ==
    ASSUME PlaceInv, SaveInv', NEW s \in Savers, RenameFails(s) \/ RemoveTemp(s)
    PROVE  PlaceInv'
<1>1. Turn(s) /\ LocalsKept(s) /\ saver[s].pc \in {"rename", "remove"}
  BY OtherTurns DEF RenameFails, RemoveTemp, PlaceInv
<1>2. saver'[s].pc \in {"remove", "littered", "returned"}
  BY GotoFields, FailFields DEF RenameFails, RemoveTemp, PlaceInv, SaveInv
<1>3. CarriedBy(s)'
  BY <1>2 DEF CarriedBy
<1>4. saver'[s].pc = "returned" => entry'[s] = Missing
  <2>1. CASE SetEntry(s, Missing)
    BY <2>1 DEF SetEntry, PlaceInv, SaveInv, SaveTypes, Places
  <2>2. CASE Goto(s, "littered")
    BY <2>2, GotoFields DEF PlaceInv, SaveInv
  <2>3. CASE RenameFails(s)
    BY <2>3, FailFields DEF RenameFails, PlaceInv, SaveInv
  <2> QED BY <2>1, <2>2, <2>3 DEF RemoveTemp
<1> QED BY <1>1, <1>2, <1>3, <1>4, PlaceStays

\* The file takes the place of what may be replaced: no link that leads
\* somewhere, and with the attributes the name's file had.
LEMMA PlaceRenames ==
    ASSUME PlaceInv, SaveInv', NEW s \in Savers, Rename(s), ~RenameFails(s)
    PROVE  PlaceInv'
<1>0. PICK n : n = saver[s].target
  OBVIOUS
<1>1. /\ saver[s].pc = "rename" /\ n \in Names /\ Goto(s, "syncDir") /\ UNCHANGED <<layout, rights, inode, crashed>>
      /\ entry' = [entry EXCEPT ![n] = File(s), ![s] = Missing]
      /\ maybe' = [maybe EXCEPT ![n] = @ \cup {File(s)}, ![s] = @ \cup {Missing}]
  BY <1>0 DEF Rename, RenameFails, PlaceInv, SaveInv, Progress
<1>2. Others(s) /\ LocalsKept(s) /\ saver'[s].pc = "syncDir" /\ saver'[s].failed = saver[s].failed
  BY <1>1, GotoFields DEF PlaceInv, SaveInv
<1>3. s \notin Names /\ File(s).kind = "file" /\ File(s).inode = s /\ \A t \in Savers \ {s} : File(t) # File(s)
  BY Kinds DEF Files
<1>4. /\ \A m \in Names : maybe'[m] = IF m = n THEN maybe[m] \cup {File(s)} ELSE maybe[m]
      /\ entry'[s] = Missing
      /\ \A t \in Savers \ {s} : entry'[t] = entry[t]
  <2>1. n # s /\ n \in Places /\ s \in Places
    BY <1>1, <1>3 DEF Places
  <2>2. maybe \in [Places -> SUBSET Entries] /\ entry \in [Places -> Entries]
    BY DEF PlaceInv, SaveInv, SaveTypes
  <2>3. \A p \in Places : /\ maybe'[p] = IF p = s THEN maybe[s] \cup {Missing}
                                         ELSE IF p = n THEN maybe[n] \cup {File(s)} ELSE maybe[p]
                          /\ entry'[p] = IF p = s THEN Missing ELSE IF p = n THEN File(s) ELSE entry[p]
    BY <1>1, <2>1, <2>2
  <2>4. Savers \cap Names = {}
    BY Kinds
  <2> QED BY <1>1, <1>3, <2>1, <2>3, <2>4 DEF Places
<1>5. LayoutTypes' /\ Circular' = Circular /\ NoLongChain'
  BY <1>1 DEF PlaceInv, LayoutTypes, NoLongChain, Circular, Walk
<1>6. AttrsOf(n, inode[s].attrs) /\ (layout[n].kind = "link" => n \in Circular) /\ ~saver[s].failed
  BY <1>0, <1>1 DEF PlaceInv, CarriedBy, ResolvedBy, CleanBy
<1>7. ASSUME NEW m \in Names PROVE NameInPlace(m)'
  <2>1. NameInPlace(m)
    BY DEF PlaceInv
  <2>2. CASE m # n
    BY <1>1, <1>4, <1>5, <2>1, <2>2 DEF NameInPlace, AttrsOf
  <2>3. CASE m = n
    <3>1. m \notin Circular => layout[m].kind # "link"
      BY <1>6, <2>3
    <3>2. ASSUME NEW e \in maybe'[m]
          PROVE  /\ e.kind = "link" => e = layout[m]
                 /\ layout[m] = File("old") => e.kind = "file"
                 /\ e.kind = "file" => AttrsOf(m, inode[e.inode].attrs)
      <4>1. CASE e \in maybe[m]
        BY <2>1, <4>1 DEF NameInPlace
      <4>2. CASE e = File(s)
        BY <1>3, <1>6, <2>3, <4>2
      <4> QED BY <1>4, <4>1, <4>2
    <3> QED BY <1>1, <1>5, <3>1, <3>2 DEF NameInPlace, AttrsOf
  <2> QED BY <2>2, <2>3
<1>8. CarriedBy(s)' /\ CleanBy(s)' /\ ResolvedBy(s)'
  BY <1>2, <1>4, <1>6 DEF CarriedBy, CleanBy, ResolvedBy
<1>9. ASSUME NEW t \in Savers \ {s} PROVE CarriedBy(t)' /\ CleanBy(t)' /\ ResolvedBy(t)'
  <2>1. saver'[t] = saver[t] /\ CarriedBy(t) /\ CleanBy(t) /\ ResolvedBy(t)
    BY <1>2 DEF PlaceInv, Others
  <2>2. CarriedBy(t)'
    BY <1>1, <2>1 DEF CarriedBy, AttrsOf
  <2>3. CleanBy(t)'
    <3>1. \A m \in Names : File(t) \in maybe'[m] => File(t) \in maybe[m]
      BY <1>3, <1>4
    <3>2. entry'[t] = entry[t] /\ crashed' = crashed
      BY <1>1, <1>4
    <3> QED BY <2>1, <3>1, <3>2 DEF CleanBy
  <2>4. ResolvedBy(t)'
    BY <1>1, <1>5, <2>1 DEF ResolvedBy, Reached, Walk
  <2> QED BY <2>2, <2>3, <2>4
<1> QED BY <1>5, <1>7, <1>8, <1>9 DEF PlaceInv

LEMMA PlaceSyncsDir == ASSUME PlaceInv, SaveInv', NEW s \in Savers, syncDir(s) PROVE PlaceInv'
<1>1. /\ Others(s) /\ saver[s].pc = "syncDir" /\ saver'[s].pc = "returned"
      /\ saver'[s].target = saver[s].target /\ saver'[s].failed = saver[s].failed
      /\ UNCHANGED <<layout, rights, entry, inode, crashed, renames>>
      /\ \A n \in Names : maybe'[n] \in {maybe[n], {entry[n]}}
  BY SyncDirFields DEF PlaceInv
<1>2. \A n \in Names : entry[n] \in maybe[n] /\ entry[n] \in maybe'[n] /\ maybe'[n] \subseteq maybe[n]
  BY <1>1 DEF PlaceInv, SaveInv, Places
<1>3. LayoutTypes' /\ Circular' = Circular /\ NoLongChain'
  BY <1>1 DEF PlaceInv, LayoutTypes, NoLongChain, Circular, Walk
<1>4. ASSUME NEW n \in Names PROVE NameInPlace(n)'
  <2>1. NameInPlace(n)
    BY DEF PlaceInv
  <2> QED BY <1>1, <1>2, <1>3, <2>1 DEF NameInPlace, AttrsOf
<1>5. CarriedBy(s)' /\ CleanBy(s)' /\ ResolvedBy(s)'
  BY <1>1, <1>2 DEF PlaceInv, CarriedBy, CleanBy, ResolvedBy
<1>6. ASSUME NEW t \in Savers \ {s} PROVE CarriedBy(t)' /\ CleanBy(t)' /\ ResolvedBy(t)'
  <2>1. saver'[t] = saver[t] /\ CarriedBy(t) /\ CleanBy(t) /\ ResolvedBy(t)
    BY <1>1 DEF PlaceInv, Others
  <2>2. CarriedBy(t)' /\ CleanBy(t)'
    BY <1>1, <1>2, <2>1 DEF CarriedBy, CleanBy, AttrsOf
  <2>3. ResolvedBy(t)'
    BY <1>1, <1>3, <2>1 DEF ResolvedBy, Reached, Walk
  <2> QED BY <2>2, <2>3
<1> QED BY <1>3, <1>4, <1>5, <1>6 DEF PlaceInv

\* A crash loses attributes of files that no name may show.
LEMMA PlaceCrash == ASSUME PlaceInv, SaveInv', Crash PROVE PlaceInv'
<1>1. /\ UNCHANGED <<layout, rights>> /\ crashed'
      /\ \A n \in Names : entry'[n] \in maybe[n] /\ maybe'[n] = {entry'[n]}
      /\ \A f \in Files : inode'[f].attrs = inode[f].attrs \/ (inode'[f].attrs = NewAttrs /\ ~inode[f].synced)
      /\ \A s \in Savers : \/ saver'[s] = saver[s] /\ saver[s].pc \in {"idle", "returned", "littered"}
                           \/ saver'[s].pc = "crashed" /\ saver'[s].failed = saver[s].failed
  BY CrashFields DEF PlaceInv
<1>2. LayoutTypes' /\ Circular' = Circular /\ NoLongChain'
  BY <1>1 DEF PlaceInv, LayoutTypes, NoLongChain, Circular, Walk
<1>3. ASSUME NEW n \in Names PROVE NameInPlace(n)'
  <2>1. NameInPlace(n)
    BY DEF PlaceInv
  <2>2. ASSUME NEW e \in maybe[n], e.kind = "file" PROVE inode'[e.inode].attrs = inode[e.inode].attrs
    <3>1. e.inode \in Files /\ inode[e.inode].synced
      BY <2>2, Kinds DEF PlaceInv, SaveInv, SaveTypes, NamesFlushed, Flushed, Places
    <3> QED BY <1>1, <3>1
  <2> QED BY <1>1, <1>2, <2>1, <2>2 DEF NameInPlace, AttrsOf
<1>4. ASSUME NEW s \in Savers PROVE CarriedBy(s)' /\ CleanBy(s)' /\ ResolvedBy(s)'
  <2>1. CarriedBy(s) /\ CleanBy(s) /\ ResolvedBy(s) /\ s \in Files
    BY DEF PlaceInv, Files
  <2>2. CarriedBy(s)'
    BY <1>1, <2>1 DEF CarriedBy
  <2>3. CleanBy(s)'
    BY <1>1, <2>1 DEF CleanBy
  <2>4. ResolvedBy(s)'
    BY <1>1, <2>1 DEF ResolvedBy
  <2> QED BY <2>2, <2>3, <2>4
<1> QED BY <1>2, <1>3, <1>4 DEF PlaceInv

LEMMA PlaceStep == PlaceInv /\ [SaveNext]_saveVars => PlaceInv'
<1> SUFFICES ASSUME PlaceInv, [SaveNext]_saveVars PROVE PlaceInv'
  OBVIOUS
<1>1. SaveInv'
  BY SaveStepKeeps DEF PlaceInv
<1>2. ASSUME NEW s \in Savers, SaveStep(s) PROVE PlaceInv'
  <2>1. CASE Rename(s)
    BY <1>1, <2>1, PlaceRenames, PlaceGivesUp
  <2> QED BY <1>1, <1>2, <2>1, PlaceResolves, PlaceStats, PlaceCreates, PlaceEncodes, PlaceOwns,
             PlaceSyncs, PlaceCloses, PlaceGivesUp, PlaceSyncsDir DEF SaveStep
<1>3. CASE \E s \in Savers : \E n \in Names : SaveCall(s, n)
  BY <1>1, <1>3, PlaceCalls
<1>4. CASE Crash
  BY <1>1, <1>4, PlaceCrash
<1>5. CASE UNCHANGED saveVars
  BY <1>1, <1>5 DEF saveVars, PlaceInv, LayoutTypes, NoLongChain, Walk, Circular, NameInPlace, AttrsOf,
                    CarriedBy, CleanBy, ResolvedBy, Reached
<1> QED BY <1>2, <1>3, <1>4, <1>5 DEF SaveNext

\* A save writes the file a link leads to and keeps the link; an existing file
\* keeps its mode, and its owner and group as far as the process may give
\* them; a new one is its owner's only; a save that fails leaves no trace
\* (SaveTo, resolveSymlinks, keepOwner).  No more links may follow each other
\* than resolveSymlinks follows: of a longer chain it replaces a link.
THEOREM SavesInPlace == SaveSpec /\ NoLongChain => []SavedInPlace
<1>1. (\E setup \in Setups : SaveInitAs(setup)) /\ NoLongChain => PlaceInv
  BY PlaceInit
<1>2. PlaceInv => SavedInPlace
  BY PlaceHolds
<1> QED BY <1>1, <1>2, PlaceStep, PTL DEF SaveSpec
-----------------------------------------------------------------------------
LEMMA LeastIndex ==
    ASSUME NEW T, T \subseteq Nat, T # {}
    PROVE  \E i \in T : \A j \in T : ~(j < i)
<1>1. PICK i \in T : \A j \in T : ~(<<j, i>> \in OpToRel(<, Nat))
  BY NatLessThanWellFounded, WFMin
<1> QED BY <1>1 DEF OpToRel

\* SavesInPlace's hypothesis holds of all links among at most MaxSymlinkHops
\* names: a walk of more links comes by some name twice, so it is in a circle.
LEMMA FewNames ==
    ASSUME LayoutTypes, IsFiniteSet(Names), Cardinality(Names) <= MaxSymlinkHops
    PROVE  NoLongChain
<1> DEFINE k == MaxSymlinkHops + 1
<1> SUFFICES ASSUME NEW w \in [1..k -> Names], Walk(w) PROVE w[k] \in Circular
  BY DEF NoLongChain
<1>1. k \in Nat \ {0} /\ Cardinality(Names) \in Nat /\ MaxSymlinkHops \in Nat
  BY SaveToAssumption, FS_CardinalityType
<1> HIDE DEF k
<1>2. IsFiniteSet(1..k) /\ Cardinality(1..k) = k /\ Cardinality(Names) < k
  <2>1. 1 \in Int /\ k \in Int /\ ~(1 > k) /\ k - 1 + 1 = k
    BY <1>1
  <2>2. IsFiniteSet(1..k) /\ Cardinality(1..k) = IF 1 > k THEN 0 ELSE k - 1 + 1
    BY <2>1, FS_Interval, Zenon
  <2>3. Cardinality(1..k) = k
    BY <2>1, <2>2, Zenon
  <2>4. Cardinality(Names) < k
    BY <1>1 DEF k
  <2> QED BY <2>2, <2>3, <2>4
<1>3. PICK x \in 1..k, y \in 1..k : x < y /\ w[x] = w[y]
  <2>1. PICK a \in 1..k, b \in 1..k : a # b /\ w[a] = w[b]
    BY <1>2, FS_PigeonHole
  <2>2. a < b \/ b < a
    BY <1>1, <2>1
  <2> QED BY <2>1, <2>2
<1>4. \A i \in 1..k : layout[w[i]].kind = "link" /\ (i + 1 \in 1..k => layout[w[i]].to = w[i + 1])
  BY DEF Walk
<1>5. w[x] \in Circular
  <2> DEFINE C == {w[i] : i \in x..(y - 1)}
  <2>1. C \in SUBSET Names /\ w[x] \in C
    BY <1>1, <1>3
  <2>2. ASSUME NEW i \in x..(y - 1) PROVE layout[w[i]].kind = "link" /\ layout[w[i]].to \in C
    <3>1. i \in 1..k /\ i + 1 \in 1..k /\ layout[w[i]].kind = "link" /\ layout[w[i]].to = w[i + 1]
      BY <1>1, <1>3, <1>4
    <3>2. CASE i + 1 = y
      BY <1>3, <2>1, <3>1, <3>2
    <3>3. CASE i + 1 # y
      <4>1. i + 1 \in x..(y - 1)
        BY <1>1, <1>3, <3>3
      <4> QED BY <3>1, <4>1
    <3> QED BY <3>2, <3>3
  <2>3. \A n \in C : layout[n].kind = "link" /\ layout[n].to \in C
    BY <2>2
  <2> HIDE DEF C
  <2> QED BY <2>1, <2>3 DEF Circular
<1>6. \A n \in Circular : layout[n].to \in Circular
  BY DEF Circular
<1> DEFINE T == {i \in x..k : w[i] \notin Circular}
<1> SUFFICES ASSUME w[k] \notin Circular PROVE FALSE
  OBVIOUS
<1>7. T \subseteq Nat /\ T # {}
  BY <1>1, <1>3
<1>8. PICK i \in T : \A j \in T : ~(j < i)
  <2> HIDE DEF T
  <2> QED BY <1>7, LeastIndex
<1>9. i - 1 \in x..k /\ i \in 1..k /\ i - 1 \in 1..k
  BY <1>1, <1>3, <1>5, <1>8
<1>10. w[i - 1] \in Circular
  <2>1. i - 1 \notin T
    BY <1>8, <1>9
  <2> QED BY <1>9, <2>1
<1>11. layout[w[i - 1]].to = w[i]
  <2>1. (i - 1) + 1 = i
    BY <1>9
  <2> QED BY <1>4, <1>9, <2>1
<1> QED BY <1>6, <1>8, <1>10, <1>11
=============================================================================
