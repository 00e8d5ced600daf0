------------------------------- MODULE SessionLog -------------------------------
(*******************************************************************************)
(* SessionManager (session-manager.ts): the conversation of a worker as a tree *)
(* of entries in memory and as lines of a file.  An entry points at the entry  *)
(* it continues; the leaf is the entry the next one continues.  Nothing is     *)
(* written before somebody has said something; then the whole session is, and  *)
(* from then on one line for each entry.  A process may die between two writes *)
(* or within one, and a write may fail, wholly or half way.  Files of an older *)
(* version are those of the second, which differ from today's in one name; the *)
(* first, whose entries had no ids, is left out.                               *)
(*******************************************************************************)
EXTENDS Integers, FiniteSets, SequencesExt

CONSTANTS
    Files,          \* paths of session files
    FirstId,        \* the first id that earlier processes have not used
    MaxId,          \* ids, those of the labels a branched session repeats included
    Kinds,          \* kinds of entries that are appended
    MaxFaults,      \* deaths of the process and writes that fail
    NoPath,         \* the path of a process that holds no session
    Earlier         \* files of earlier processes, one of which there may be at first

ASSUME BoundsAssumption ==
    /\ FirstId \in Nat \ {0} /\ MaxId \in Nat /\ FirstId <= MaxId + 1
    /\ MaxFaults \in Nat

ASSUME KindsAssumption == Kinds \subseteq {"talk", "setup", "label", "unlabel", "compaction", "summary"}

VARIABLES
    disk,       \* the files: their lines, whether the last one lacks its newline,
                \* whether they are of an older version
    running,    \* a process holds a session
    memory,     \* its entries, leaf, file, and whether they have been written
    io,         \* the write that is under way
    acked,      \* ids of the entries the session's callers know to be written
    next,       \* the next fresh id
    crashes,    \* deaths so far
    errors,     \* failed writes so far
    atRisk      \* history: a migration was cut off or a branching out failed

faults == <<crashes, errors, atRisk>>
vars == <<disk, running, memory, io, acked, next, crashes, errors, atRisk>>

NoId == 0
Ids == 1..MaxId
Modes == {"append", "create", "fork", "adopt", "migrate", "copy"}

Line(id, parent, kind, ref) == [id |-> id, parent |-> parent, kind |-> kind, ref |-> ref]
Header == Line(NoId, NoId, "session", NoId)
Malformed == Line(NoId, NoId, "malformed", NoId)

EntryType ==
    [id : Ids, parent : Ids \cup {NoId},
     kind : {"talk", "setup", "label", "unlabel", "compaction", "summary"},
     ref : Ids \cup {NoId}]

LineType == EntryType \cup {Header, Malformed}

NoFile == [made |-> FALSE, lines |-> <<>>, open |-> FALSE, old |-> FALSE]
EmptySession(f) == [entries |-> <<>>, leaf |-> NoId, file |-> f, flushed |-> FALSE]
NoSession == EmptySession(NoPath)
NoWrite == [mode |-> "none", todo |-> <<>>, opened |-> FALSE]

IdsOf(es) == {es[k].id : k \in DOMAIN es}

\* What stands at some places of a sequence, in their order (the filters of the code):
\* the n-th place is the one with n of them up to it. Said by rank and not by SelectSeq,
\* whose recursion no proof could follow.
Nth(places, n) == CHOOSE k \in places : Cardinality({j \in places : j <= k}) = n
Picked(s, places) == [n \in 1..Cardinality(places) |-> s[Nth(places, n)]]

-------------------------------------------------------------------------------
(* Files. *)

\* A line written behind one without its newline ends up in that line.
Joined(file, line) ==
    IF file.open THEN Append(Front(file.lines), Malformed) ELSE Append(file.lines, line)

Written(file, line) ==
    [file EXCEPT !.made = TRUE, !.lines = Joined(file, line), !.open = FALSE]

\* What a write leaves that was interrupted: nothing, a part of the line, or all
\* of it but the newline.
Interrupted(file, line) ==
    {file} \cup {[file EXCEPT !.made = TRUE, !.lines = Joined(file, part), !.open = TRUE] :
                    part \in {line, Malformed}}

\* Malformed lines are skipped; a file is a session if a header comes first.
Parsed(file) == Picked(file.lines, {k \in DOMAIN file.lines : file.lines[k] # Malformed})
Headed(rows) == rows # <<>> /\ Head(rows) = Header
EntriesOf(rows) == IF Headed(rows) THEN Tail(rows) ELSE <<>>
Readable(file) == Headed(Parsed(file))
EntriesIn(file) == EntriesOf(Parsed(file))

FileType == [made : BOOLEAN, lines : Seq(LineType), open : BOOLEAN, old : BOOLEAN]

\* Rows in the order in which their ids were first used, behind their parents.
Sound(rows) ==
    /\ rows \in Seq(EntryType \cup {Header})
    /\ \A i, j \in DOMAIN rows : i < j => rows[i].id < rows[j].id
    /\ \A i \in DOMAIN rows : rows[i] = Header \/ rows[i].parent < rows[i].id

\* No parent is missing.
Complete(rows) == \A k \in DOMAIN rows : rows[k].parent \in IdsOf(rows) \cup {NoId}

\* What earlier processes leave behind, dying at any line, if no write of theirs failed.
ASSUME EarlierAssumption ==
    \A file \in Earlier :
      /\ file \in FileType /\ file.made
      /\ file.open => file.lines # <<>>
      /\ Sound(Parsed(file)) /\ IdsOf(Parsed(file)) \subseteq 0..(FirstId - 1)
      /\ Complete(EntriesIn(file))

\* (mutant) the file is left as it was found
RepairedNever(file) == file

\* Loading ends the last line, whatever it holds.
Repaired(file) == [file EXCEPT !.open = FALSE]

-------------------------------------------------------------------------------
(* The tree in memory. *)

LeafOf(es) == IF es = <<>> THEN NoId ELSE Last(es).id

At(es, id) == CHOOSE k \in DOMAIN es : es[k].id = id

\* The entries from a root to the given one; a missing parent makes a root.
BranchTo(es, id) ==
    LET path[k \in DOMAIN es] ==
            IF es[k].parent \in IdsOf(es)
              THEN Append(path[At(es, es[k].parent)], es[k]) ELSE <<es[k]>>
    IN  IF id \in IdsOf(es) THEN path[At(es, id)] ELSE <<>>

\* What the model reads: after a compaction the entry itself, what it kept of the
\* path before it, and what came later.
ContextOf(path) ==
    LET compactions == {k \in DOMAIN path : path[k].kind = "compaction"}
    IN  IF compactions = {} THEN path
        ELSE LET last == CHOOSE k \in compactions : \A l \in compactions : l <= k
                 kept == path[last].ref
             IN  <<path[last]>>
                 \o (IF kept \in {path[k].id : k \in 1..(last - 1)}
                       THEN SubSeq(path, At(path, kept), last - 1) ELSE <<>>)
                 \o SubSeq(path, last + 1, Len(path))

IsLabel(e) == e.kind \in {"label", "unlabel"}
NonLabels(es) == Picked(es, {k \in DOMAIN es : ~IsLabel(es[k])})
HasConversation(es) == \E k \in DOMAIN es : es[k].kind = "talk"

\* The entries whose last label has not been cleared, in the order of the entries.
LabelledIn(es, path) ==
    LET labels(e) == {k \in DOMAIN es : IsLabel(es[k]) /\ es[k].ref = e.id}
        labelled(e) == /\ labels(e) # {}
                       /\ es[CHOOSE k \in labels(e) : \A l \in labels(e) : l <= k].kind = "label"
    IN  Picked(path, {k \in DOMAIN path : labelled(path[k])})

-------------------------------------------------------------------------------
(* Loading a session, by a process that holds none. *)

Init ==
    /\ disk \in {[f \in Files |-> NoFile]}
             \cup {[[f \in Files |-> NoFile] EXCEPT ![g] = file] :
                        g \in Files, file \in Earlier}
    /\ running = FALSE
    /\ memory = NoSession
    /\ io = NoWrite
    /\ acked = UNION {IdsOf(EntriesIn(disk[f])) : f \in Files}
    /\ next = FirstId
    /\ crashes = 0 /\ errors = 0 /\ atRisk = FALSE

Idle == running /\ io = NoWrite

Write(mode, lines, opened) == io' = [mode |-> mode, todo |-> lines, opened |-> opened]

\* A path no file has: names hold the time and a random id.
Unused(f) == ~disk[f].made /\ f # memory.file

\* (mutant) a new session begins at the leaf of the last one
StartNewAtLeaf(f) ==
    memory' = [EmptySession(f) EXCEPT !.leaf = memory.leaf] /\ running' = TRUE

\* newSession
StartNew(f) == memory' = EmptySession(f) /\ running' = TRUE

\* _loadEntries: the last entry becomes the leaf, wherever it was before; a file of
\* an older version is written anew.
Load(f) ==
    LET es == EntriesIn(disk[f])
    IN  /\ Readable(disk[f])
        /\ running' = TRUE
        /\ memory' = [entries |-> es, leaf |-> LeafOf(es), file |-> f, flushed |-> TRUE]
        /\ disk' = [disk EXCEPT ![f] = Repaired(@)]
        /\ IF disk[f].old THEN Write("migrate", <<Header>> \o es, FALSE) ELSE UNCHANGED io
        /\ UNCHANGED <<acked, next, faults>>

\* The worker continues the latest session of the episode, or begins one.  Which
\* of several is the latest depends on the files' times.
ContinueRecent ==
    /\ ~running
    /\ \/ \E f \in Files : Load(f)
       \/ /\ \A f \in Files : ~Readable(disk[f])
          /\ \E f \in Files : Unused(f) /\ StartNew(f)
          /\ UNCHANGED <<disk, io, acked, next, faults>>

\* A path that is given: a missing file becomes one later, an empty one at once;
\* a file that is not a session is refused.
OpenEmpty(f) ==
    /\ ~running
    /\ disk[f].lines = <<>>
    /\ StartNew(f)
    /\ IF disk[f].made THEN Write("adopt", <<Header>>, FALSE) ELSE UNCHANGED io
    /\ UNCHANGED <<disk, acked, next, faults>>

\* forkFrom copies a session into a new file, an older version without migrating it.
ForkFrom(f, g) ==
    LET es == EntriesIn(disk[f])
    IN  /\ ~running
        /\ Readable(disk[f]) /\ f # g /\ ~disk[g].made
        /\ disk' = [disk EXCEPT ![f] = Repaired(@)]
        /\ running' = TRUE
        /\ memory' = EmptySession(g)
        /\ Write("copy", <<Header>> \o es, FALSE)
        /\ UNCHANGED <<acked, next, faults>>

NewSession ==
    /\ Idle
    /\ \E f \in Files : Unused(f) /\ StartNew(f)
    /\ UNCHANGED <<disk, io, acked, next, faults>>

Dispose ==
    /\ Idle
    /\ running' = FALSE
    /\ memory' = NoSession
    /\ UNCHANGED <<disk, io, acked, next, faults>>

-------------------------------------------------------------------------------
(* Appending. *)

\* (mutant) the first write leaves out what was appended before it
PersistLastOnly(es) ==
    IF memory.flushed THEN Write("append", <<Last(es)>>, FALSE)
    ELSE IF HasConversation(es) THEN Write("create", <<Header, Last(es)>>, FALSE)
    ELSE UNCHANGED io

\* _persist: a session that is written gets one more line, one with a conversation
\* is written as a whole, any other waits.
Persist(es) ==
    IF memory.flushed THEN Write("append", <<Last(es)>>, FALSE)
    ELSE IF HasConversation(es) THEN Write("create", <<Header>> \o es, FALSE)
    ELSE UNCHANGED io

\* _appendEntry: memory first, then the file.
AppendEntry(kind, parent, ref) ==
    /\ next <= MaxId
    /\ memory' = [memory EXCEPT !.entries = Append(@, Line(next, parent, kind, ref)),
                                !.leaf = next]
    /\ Persist(memory'.entries)
    /\ next' = next + 1
    /\ UNCHANGED <<disk, running, acked, faults>>

\* Messages, and entries the model does not read: model, thinking level, usage,
\* session name, custom.
AppendPlain(kind) ==
    /\ Idle /\ kind \in Kinds \cap {"talk", "setup"}
    /\ AppendEntry(kind, memory.leaf, NoId)

AppendLabelChange(kind, target) ==
    /\ Idle /\ kind \in Kinds \cap {"label", "unlabel"}
    /\ target \in IdsOf(memory.entries)
    /\ AppendEntry(kind, memory.leaf, target)

\* What is kept begins at an entry of the branch, or nothing is kept.
AppendCompaction(kept) ==
    /\ Idle /\ "compaction" \in Kinds
    /\ kept \in IdsOf(BranchTo(memory.entries, memory.leaf)) \cup {next}
    /\ AppendEntry("compaction", memory.leaf, kept)

\* branch, resetLeaf: the leaf moves, nothing is written.
Branch(id) ==
    /\ Idle
    /\ id \in IdsOf(memory.entries) \cup {NoId}
    /\ memory' = [memory EXCEPT !.leaf = id]
    /\ UNCHANGED <<disk, running, io, acked, next, faults>>

BranchWithSummary(id) ==
    /\ Idle /\ "summary" \in Kinds
    /\ id \in IdsOf(memory.entries) \cup {NoId}
    /\ AppendEntry("summary", id, NoId)

-------------------------------------------------------------------------------
(* createBranchedSession: one branch becomes a session of its own. *)

\* (mutant) the first entry that stays keeps its parent, be it a label
ChainedFromSecond(es) ==
    [k \in DOMAIN es |-> IF k = 1 THEN es[k] ELSE [es[k] EXCEPT !.parent = es[k - 1].id]]

\* The parent of the k-th entry that stays is the one before it.
Chained(es) ==
    [k \in DOMAIN es |-> [es[k] EXCEPT !.parent = IF k = 1 THEN NoId ELSE es[k - 1].id]]

\* (mutant) a kept range that began at a label still does
KeptAtLabel(path, e) == e.ref

\* A kept range that began at a label begins at the entry that follows its labels.
KeptFrom(path, e) ==
    LET from == At(path, e.ref)
        rest == {k \in from..Len(path) : ~IsLabel(path[k])}
    IN  IF e.ref \notin IdsOf(path) \/ rest = {} THEN e.ref
        ELSE path[CHOOSE k \in rest : \A l \in rest : k <= l].id

WithoutLabels(path) ==
    LET kept(e) == IF e.kind = "compaction" THEN [e EXCEPT !.ref = KeptFrom(path, e)] ELSE e
        es == NonLabels(path)
    IN  Chained([k \in DOMAIN es |-> kept(es[k])])

\* The labels that still hold follow as new entries.
Relabelled(es, targets) ==
    Chained(es \o [k \in DOMAIN targets |-> Line(next + k - 1, NoId, "label", targets[k].id)])

BranchedSession(leaf) ==
    LET es == WithoutLabels(BranchTo(memory.entries, leaf))
    IN  Relabelled(es, LabelledIn(memory.entries, es))

CreateBranchedSession(leaf) ==
    /\ Idle
    /\ leaf \in IdsOf(memory.entries)
    /\ LET es == BranchedSession(leaf)
           labels == Cardinality({k \in DOMAIN es : IsLabel(es[k])})
       IN  \E f \in Files :
             /\ Unused(f)
             /\ next + labels <= MaxId + 1
             /\ next' = next + labels
             /\ memory' = [entries |-> es, leaf |-> LeafOf(es), file |-> f,
                           flushed |-> IF HasConversation(es) THEN memory.flushed ELSE FALSE]
             /\ IF HasConversation(es) THEN Write("fork", <<Header>> \o es, FALSE)
                                       ELSE UNCHANGED io
    /\ UNCHANGED <<disk, running, acked, faults>>

-------------------------------------------------------------------------------
(* Writing: the calls of one write, with nothing of the process between them. *)

Opened(file) == IF io.mode = "append" THEN [file EXCEPT !.made = TRUE]
                                      ELSE [NoFile EXCEPT !.made = TRUE]

\* A first write refuses a file that is there, a rewrite empties it.
OpenFile ==
    /\ io # NoWrite /\ ~io.opened
    /\ io.mode \in {"create", "copy"} => ~disk[memory.file].made
    /\ disk' = [disk EXCEPT ![memory.file] = Opened(@)]
    /\ io' = [io EXCEPT !.opened = TRUE]
    /\ UNCHANGED <<running, memory, acked, next, faults>>

\* The last line ends the write; a copied session is then loaded from its file.
WriteLine ==
    /\ io.opened
    /\ disk' = [disk EXCEPT ![memory.file] = Written(@, Head(io.todo))]
    /\ IF Len(io.todo) > 1
       THEN io' = [io EXCEPT !.todo = Tail(@)] /\ UNCHANGED <<memory, acked>>
       ELSE /\ io' = NoWrite
            /\ memory' = IF io.mode = "copy"
                         THEN LET es == EntriesIn(disk'[memory.file])
                              IN  [entries |-> es, leaf |-> LeafOf(es),
                                   file |-> memory.file, flushed |-> TRUE]
                         ELSE [memory EXCEPT !.flushed = TRUE]
            /\ acked' = acked \cup (IF io.mode = "append" THEN {Last(memory.entries).id}
                                                         ELSE IdsOf(memory'.entries))
    /\ UNCHANGED <<running, next, faults>>

\* What a write in progress leaves in the file when it stops here.
Stops ==
    disk' \in IF io.opened
              THEN {[disk EXCEPT ![memory.file] = file] :
                       file \in Interrupted(disk[memory.file], Head(io.todo))}
              ELSE {disk}

\* The call fails: no space, no permission, a file that is there already.  Whoever
\* appends or branches out keeps its session; a session that is being loaded is not
\* there.
WriteFails ==
    /\ io # NoWrite
    /\ IF ~io.opened /\ io.mode \in {"create", "copy"} /\ disk[memory.file].made
       THEN UNCHANGED <<errors, atRisk>>
       ELSE /\ crashes + errors < MaxFaults /\ errors' = errors + 1
            /\ atRisk' = (atRisk \/ io.mode \in {"migrate", "fork"})
    /\ Stops
    /\ io' = NoWrite
    /\ IF io.mode \in {"append", "create", "fork"} THEN UNCHANGED <<running, memory>>
       ELSE running' = FALSE /\ memory' = NoSession
    /\ UNCHANGED <<acked, next, crashes>>

\* The process dies.
Crash ==
    /\ running
    /\ crashes + errors < MaxFaults /\ crashes' = crashes + 1
    /\ atRisk' = (atRisk \/ io.mode = "migrate")
    /\ Stops
    /\ running' = FALSE
    /\ memory' = NoSession
    /\ io' = NoWrite
    /\ UNCHANGED <<acked, next, errors>>

-------------------------------------------------------------------------------
Next ==
    \/ ContinueRecent \/ NewSession \/ Dispose
    \/ \E f \in Files : OpenEmpty(f)
    \/ \E f, g \in Files : ForkFrom(f, g)
    \/ \E kind \in Kinds : AppendPlain(kind)
    \/ \E kind \in Kinds, id \in Ids : AppendLabelChange(kind, id)
    \/ \E id \in Ids : AppendCompaction(id) \/ CreateBranchedSession(id)
    \/ \E id \in Ids \cup {NoId} : Branch(id) \/ BranchWithSummary(id)
    \/ OpenFile \/ WriteLine \/ WriteFails \/ Crash

Spec == Init /\ [][Next]_vars

-------------------------------------------------------------------------------
\* Types; the leaf is an entry of the session, ids are not used twice, and a write
\* is under way exactly as long as lines are left.
TypeOK ==
    /\ \A f \in Files :
         /\ disk[f].lines \in Seq(LineType)
         /\ disk[f].open => disk[f].lines # <<>>
    /\ memory.entries \in Seq(EntryType) /\ memory.file \in Files \cup {NoPath}
    /\ memory.leaf \in IdsOf(memory.entries) \cup {NoId}
    /\ Cardinality(IdsOf(memory.entries)) = Len(memory.entries)
    /\ io.mode \in Modes \cup {"none"} /\ io.todo \in Seq(LineType)
    /\ io.mode = "none" <=> io.todo = <<>>
    /\ acked \subseteq 1..(next - 1) /\ next \in 1..(MaxId + 1)

OnDisk == UNION {IdsOf(EntriesIn(disk[f])) : f \in Files}

\* An entry whose append returned is read again after any restart.  A failed append
\* can cost the entry after it, whose line is then joined to the torn one.  What is
\* at risk besides: a migration empties the file it rewrites, and a session whose
\* branching out failed goes on in a file that may lack its header
\* (session-manager.ts:1124-1189).
LossIsBounded ==
    io.mode = "migrate" \/ atRisk \/ Cardinality(acked \ OnDisk) <= errors

\* Between two writes the file of a written session holds what its memory holds, in
\* the same order, wherever earlier processes died (session-manager.ts:627-673).
FileMirrorsMemory ==
    Idle /\ memory.flushed /\ errors = 0 => EntriesIn(disk[memory.file]) = memory.entries

\* Every walk to the root ends: an entry follows its parent, and no parent is missing
\* unless a write has failed (session-manager.ts:407-415, 1469-1480).
PathsEnd ==
    \A k \in DOMAIN memory.entries :
      LET parent == memory.entries[k].parent
      IN  /\ parent \notin IdsOf(SubSeq(memory.entries, k, Len(memory.entries)))
          /\ parent \in IdsOf(memory.entries) \cup {NoId} \/ errors > 0

\* A branch that becomes a session of its own reads as before, whatever labels were
\* taken out of it and hung on again (session-manager.ts:1627-1745).
ForkKeepsContext ==
    [][\A leaf \in Ids :
         CreateBranchedSession(leaf) =>
           LET before == NonLabels(ContextOf(BranchTo(memory.entries, leaf)))
               after == NonLabels(ContextOf(BranchTo(memory'.entries, memory'.leaf)))
           IN  /\ IdsOf(before) = IdsOf(after) /\ Len(before) = Len(after)
               /\ \A k \in DOMAIN before : before[k].id = after[k].id]_vars
===============================================================================
