---------------------------- MODULE FeedBridge ----------------------------
(***************************************************************************)
(* The Telegram bridge beside the files it reads.  Every profile's process *)
(* appends rows to its own feed; the bridge tails all of them, one cursor  *)
(* per file, saves its cursors and only then sends.  Files are moved by a  *)
(* deploy, rotated away or cut; the bridge dies and is started again; a    *)
(* state file may be left half written; Telegram refuses a message.        *)
(*                                                                         *)
(* A position counts complete lines; a line still being written is         *)
(* `half'.  A row is its number in the order of writing.                   *)
(***************************************************************************)
EXTENDS Integers, FiniteSets, SequencesExt

CONSTANTS
  Feeds,         \* the feeds in the order feedFiles lists them
  Legacy, Moved, \* ROOT/events.jsonl, and where the deploy moves it
  Nothing,       \* no file, no cursor, no (readable) state file
  MaxRows,       \* bound: rows written
  MaxFaults      \* bound: crashes, failed saves and file operations

ASSUME FeedBridgeAssumption ==
  /\ Feeds \in Seq(Range(Feeds))
  /\ {Legacy, Moved} \subseteq Range(Feeds) /\ Legacy # Moved
  /\ MaxRows \in Nat /\ MaxFaults \in Nat

Paths   == Range(Feeds)
Inodes  == 1..(Cardinality(Paths) + MaxFaults)
Cursors == [pos : 0..MaxRows, ino : Inodes]
Files   == [ino : Inodes, rows : Seq(1..MaxRows), half : BOOLEAN, cut : BOOLEAN]
Memory  == [Paths -> Cursors \cup {Nothing}]
States  == [form : {"offset"}, pos : 0..MaxRows] \cup [form : {"cursors"}, cursors : Memory]

ASSUME NothingAssumption == Nothing \notin Cursors /\ Nothing \notin Files /\ Nothing \notin States

VARIABLES
  disk,        \* path -> the file there
  rows,        \* the rows written so far: whether they parse, and the inode of their file
  newest,      \* the last inode given to a file
  saved,       \* the state file
  cursors,     \* path -> cursor, in the bridge's memory
  blank,       \* the paths whose cursor there is undefined
  pc,          \* where the bridge is: "down", saving, or "up" between two saves
  todo, queue, \* the feeds this tick has still to read, the rows it is sending
  sent,        \* history: rows sent whole, in order
  dropped,     \* history: rows dropped on purpose or refused by Telegram
  lost,        \* history: rows cut off by a crash or a failed save
  shadowed,    \* history: rows of a cut file written where its cursor had already been
  torn,        \* history: a state file was left unreadable
  faults

files  == <<disk, rows, newest, shadowed>>
bridge == <<cursors, blank, pc, todo, queue>>
history == <<sent, dropped, lost>>
vars   == <<files, saved, bridge, history, torn, faults>>

Ids     == DOMAIN rows
Present == {p \in Paths : disk[p] # Nothing}
NoFiles == [p \in Paths |-> Nothing]

\* Mutant: the inode is not compared.
ReadFromAnyInode(f, c) == IF c # Nothing /\ Len(f.rows) >= c.pos THEN c.pos ELSE 0

\* readNew: where to read from. Another inode, or a shorter file, is a new one.
\* (A cursor without an inode, which it also takes, is in no state file.)
ReadFrom(f, c) ==
  IF /\ c # Nothing
     /\ c.ino = f.ino
     /\ Len(f.rows) >= c.pos
  THEN c.pos ELSE 0

\* The elements of s that are in S, in the order of s.
Those(s, S) ==
  LET upto[i \in 0..Len(s)] ==
        IF i = 0 THEN << >> ELSE IF s[i] \in S THEN Append(upto[i - 1], s[i]) ELSE upto[i - 1]
  IN upto[Len(s)]

\* feedFiles: the feeds there now, in order.
FeedFiles == Those(Feeds, Present)

\* migrateState: one old offset goes to whichever feed holds that many rows.
MigrateState ==
  IF saved = Nothing THEN NoFiles
  ELSE IF saved.form = "cursors" THEN saved.cursors
  ELSE [p \in Paths |->
          IF /\ p \in {Legacy, Moved} \cap Present
             /\ saved.pos > 0
             /\ Len(disk[p].rows) >= saved.pos
          THEN [pos |-> saved.pos, ino |-> disk[p].ino] ELSE Nothing]

\* Mutant: a feed with no cursor is given one without an inode.
HandOverBlank(c) == [p \in Paths |-> IF p \in Present /\ c[p] = Nothing
                                     THEN [pos |-> 0, ino |-> Nothing] ELSE c[p]]

\* tailAll: a feed with no cursor takes that of a vanished one with its inode.
HandOver(c) ==
  LET gone == {p \in Paths \ Present : c[p] # Nothing}
      heir(p) == {g \in gone : c[g].ino = disk[p].ino}
  IN [p \in Paths |->
        IF p \notin Present THEN Nothing
        ELSE IF c[p] # Nothing \/ heir(p) = {} THEN c[p]
        ELSE c[CHOOSE g \in heir(p) : TRUE]]

(***************************************************************************)
(* The writers and the operator                                            *)
(***************************************************************************)
NewFile == [ino |-> newest + 1, rows |-> << >>, half |-> FALSE, cut |-> FALSE]
FileOf(p) == IF disk[p] = Nothing THEN NewFile ELSE disk[p]

\* The bridge's cursors, in memory and in the state file.
Known == {cursors} \cup IF saved # Nothing /\ saved.form = "cursors" THEN {saved.cursors} ELSE {}

\* The next row of a feed that was cut, or that an old offset may be given to,
\* would be written where a cursor has already been.
BehindCursor(p) ==
  LET next == Len(disk[p].rows) + 1
  IN \/ disk[p].cut /\ \E at \in Known, q \in Paths :
          at[q] # Nothing /\ at[q].ino = disk[p].ino /\ next <= at[q].pos
     \/ saved # Nothing /\ saved.form = "offset" /\ p \in {Legacy, Moved} /\ next <= saved.pos

\* A file the bridge knows at another path than it lies at: tailAll hands its
\* cursor over only if nothing lies at the old path by then. Assumed of the
\* deploy: no old process writes there before the bridge has looked.
HandedOver(p) ==
  disk[p] = Nothing =>
    \A at \in Known, q \in Present : at[p] # Nothing => at[p].ino # disk[q].ino

\* notify: the line may reach the disk in two pieces.
WriteHalf(p) ==
  /\ ~FileOf(p).half /\ HandedOver(p)
  /\ Len(rows) < MaxRows
  /\ newest + 1 \in Inodes
  /\ disk' = [disk EXCEPT ![p] = [FileOf(p) EXCEPT !.half = TRUE]]
  /\ newest' = IF disk[p] = Nothing THEN newest + 1 ELSE newest
  /\ UNCHANGED <<rows, shadowed, saved, bridge, history, torn, faults>>

FinishLine(p) ==
  LET id == Len(rows) + 1 IN
  /\ disk[p] # Nothing /\ disk[p].half
  /\ id <= MaxRows
  /\ \E json \in BOOLEAN : rows' = Append(rows, [json |-> json, ino |-> disk[p].ino])
  /\ disk' = [disk EXCEPT ![p] = [@ EXCEPT !.rows = Append(disk[p].rows, id), !.half = FALSE]]
  /\ shadowed' = IF BehindCursor(p) THEN shadowed \cup {id} ELSE shadowed
  /\ UNCHANGED <<newest, saved, bridge, history, torn, faults>>

Fault == faults < MaxFaults /\ faults' = faults + 1

\* The deploy moves the legacy feed into the profile's directory, where the
\* bridge knows no feed yet (it would take the moved file for a new one).
DeployMoves ==
  /\ Fault
  /\ disk[Legacy] # Nothing /\ disk[Moved] = Nothing
  /\ Moved \notin Range(todo) /\ \A at \in Known : at[Moved] = Nothing
  /\ disk' = [disk EXCEPT ![Legacy] = Nothing, ![Moved] = disk[Legacy]]
  /\ UNCHANGED <<rows, newest, shadowed, saved, bridge, history, torn>>

\* A feed is renamed away or removed; its writer makes a new one.
RotatedAway(p) ==
  /\ Fault
  /\ disk[p] # Nothing
  /\ disk' = [disk EXCEPT ![p] = Nothing]
  /\ UNCHANGED <<rows, newest, shadowed, saved, bridge, history, torn>>

CutShort(p) ==
  /\ Fault
  /\ disk[p] # Nothing /\ disk[p].rows # << >>
  /\ disk' = [disk EXCEPT ![p] = [@ EXCEPT !.rows = << >>, !.half = FALSE, !.cut = TRUE]]
  /\ UNCHANGED <<rows, newest, shadowed, saved, bridge, history, torn>>

(***************************************************************************)
(* The bridge                                                              *)
(***************************************************************************)
Start ==
  /\ pc = "down"
  /\ cursors' = MigrateState /\ blank' = {}
  /\ pc' = "begin" /\ todo' = << >> /\ queue' = << >>
  /\ UNCHANGED <<files, saved, history, torn, faults>>

ToDisk == saved' = [form |-> "cursors", cursors |-> cursors]

\* Mutant: only the first save is written.
SaveAtStartOnly ==
  /\ pc \in {"begin", "save"}
  /\ IF pc = "begin" THEN ToDisk ELSE UNCHANGED saved
  /\ pc' = "up"
  /\ UNCHANGED <<files, cursors, blank, todo, queue, history, torn, faults>>

\* save: the state file is written whole ...
Save ==
  /\ pc \in {"begin", "save"}
  /\ ToDisk
  /\ pc' = "up"
  /\ UNCHANGED <<files, cursors, blank, todo, queue, history, torn, faults>>

\* ... or the write fails (a full disk), and the tick with it: the cursor is
\* already past the rows. The file is as it was, or emptied.
SaveFails ==
  /\ Fault
  /\ pc \in {"begin", "save"}
  /\ \/ UNCHANGED <<saved, torn>>
     \/ saved' = Nothing /\ torn' = TRUE
  /\ lost' = lost \cup Range(queue)
  /\ pc' = IF pc = "begin" THEN "down" ELSE "up"
  /\ cursors' = IF pc = "begin" THEN NoFiles ELSE cursors
  /\ UNCHANGED blank
  /\ queue' = << >> /\ todo' = << >>
  /\ UNCHANGED <<files, sent, dropped>>

\* tailAll looks for a new feed's inode among the vanished ones, and fails on
\* one whose cursor is undefined, before anything is dropped or read. (One that
\* does hold the inode is taken to come first.) The next tick finds the same.
Throws ==
  /\ blank \ Present # {}
  /\ \E p \in Present : HandOver(cursors)[p] = Nothing

\* Mutant: only the feeds that have a cursor are read.
TickKnownOnly ==
  /\ pc = "up" /\ queue = << >> /\ todo = << >> /\ ~Throws
  /\ cursors' = HandOver(cursors)
  /\ blank' = {p \in blank \cap Present : cursors'[p] = Nothing}
  /\ todo' = Those(FeedFiles, {p \in Paths : cursors'[p] # Nothing})
  /\ UNCHANGED <<files, saved, pc, queue, history, torn, faults>>

\* tailAll begins: the feeds of this tick, cursors handed over, the rest dropped.
Tick ==
  /\ pc = "up" /\ queue = << >> /\ todo = << >> /\ ~Throws
  /\ cursors' = HandOver(cursors)
  /\ blank' = {p \in blank \cap Present : cursors'[p] = Nothing}
  /\ todo' = FeedFiles
  /\ UNCHANGED <<files, saved, pc, queue, history, torn, faults>>

\* readNew of the next feed: its complete new lines, and the cursor past them.
Read ==
  /\ pc = "up" /\ queue = << >> /\ todo # << >>
  /\ LET p == Head(todo)
         f == disk[p]
         from == ReadFrom(f, cursors[p])
         lines == SubSeq(f.rows, from + 1, Len(f.rows))
     IN IF f = Nothing                              \* it vanished since the tick began
        THEN /\ queue' = << >> /\ UNCHANGED <<cursors, dropped>>
             /\ blank' = IF cursors[p] = Nothing THEN blank \cup {p} ELSE blank
        ELSE /\ queue' = Those(lines, {id \in Ids : rows[id].json})
             /\ dropped' = dropped \cup {id \in Range(lines) : ~rows[id].json}
             /\ cursors' = [cursors EXCEPT ![p] = [pos |-> Len(f.rows), ino |-> f.ino]]
             /\ blank' = blank \ {p}
  /\ todo' = Tail(todo) /\ pc' = "save"
  /\ UNCHANGED <<files, saved, sent, lost, torn, faults>>

NextRow == pc = "up" /\ queue # << >> /\ queue' = Tail(queue)

SendRow ==
  /\ NextRow /\ sent' = Append(sent, Head(queue))
  /\ UNCHANGED <<files, saved, cursors, blank, pc, todo, dropped, lost, torn, faults>>

\* A row render cannot word, a part Telegram refuses, a lost connection: said
\* on stderr, and the next row is tried.
SendFails ==
  /\ NextRow /\ dropped' = dropped \cup {Head(queue)}
  /\ UNCHANGED <<files, saved, cursors, blank, pc, todo, sent, lost, torn, faults>>

\* The process dies; in the middle of a save it leaves the file cut.
Crash ==
  /\ Fault
  /\ pc # "down"
  /\ \/ UNCHANGED <<saved, torn>>
     \/ pc \in {"begin", "save"} /\ saved' = Nothing /\ torn' = TRUE
  /\ lost' = lost \cup Range(queue)
  /\ pc' = "down" /\ cursors' = NoFiles /\ blank' = {}
  /\ todo' = << >> /\ queue' = << >>
  /\ UNCHANGED <<files, sent, dropped>>

Work == Start \/ Save \/ Tick \/ Read \/ SendRow \/ SendFails

Next ==
  \/ \E p \in Paths : WriteHalf(p) \/ FinishLine(p) \/ RotatedAway(p) \/ CutShort(p)
  \/ DeployMoves
  \/ Work \/ SaveFails \/ Crash

\* The bridge starts with no state, or beside a legacy feed whose first rows
\* an older bridge sent and whose state file is that one offset.
FirstRows(n) == [i \in 1..n |-> i]
Init ==
  /\ \E n, done \in 0..2 :
       /\ done <= n /\ n <= MaxRows
       /\ rows = [i \in 1..n |-> [json |-> TRUE, ino |-> 1]]
       /\ newest = IF n = 0 THEN 0 ELSE 1
       /\ disk = IF n = 0 THEN NoFiles
                 ELSE [NoFiles EXCEPT ![Legacy] = [ino |-> 1, rows |-> FirstRows(n), half |-> FALSE, cut |-> FALSE]]
       /\ sent = FirstRows(done)
       /\ saved = IF done = 0 THEN Nothing ELSE [form |-> "offset", pos |-> done]
  /\ cursors = NoFiles /\ blank = {} /\ pc = "down" /\ todo = << >> /\ queue = << >>
  /\ dropped = {} /\ lost = {} /\ shadowed = {} /\ torn = FALSE /\ faults = 0

Spec == Init /\ [][Next]_vars

\* systemd starts the bridge again (Restart=on-failure), its loop never stops,
\* and a message to Telegram is answered or fails. Nothing is asked of the
\* writers or the operator.
FairSpec == Spec /\ WF_vars(Work)

(***************************************************************************)
(* Properties                                                              *)
(***************************************************************************)
TypeOK ==
  /\ disk \in [Paths -> Files \cup {Nothing}]
  /\ \A p \in Present : Range(disk[p].rows) \subseteq Ids
  /\ rows \in Seq([json : BOOLEAN, ino : Inodes]) /\ Len(rows) <= MaxRows
  /\ newest \in 0..Cardinality(Inodes)
  /\ saved \in States \cup {Nothing} /\ cursors \in Memory /\ blank \subseteq Paths
  /\ pc \in {"down", "begin", "save", "up"}
  /\ todo \in Seq(Paths) /\ queue \in Seq(Ids)
  /\ sent \in Seq(Ids)
  /\ dropped \subseteq Ids /\ lost \subseteq Ids /\ shadowed \subseteq Ids
  /\ torn \in BOOLEAN /\ faults \in 0..MaxFaults

\* "Nothing is sent twice": through crashes, failed saves, a moved feed and
\* the change of the state file's form, the rows of one file go out once and
\* in the order written, as long as no state file was left unreadable.
SentOnceInOrder ==
  ~torn => \A i, j \in DOMAIN sent :
             i < j /\ rows[sent[i]].ino = rows[sent[j]].ino => sent[i] < sent[j]

\* "Nothing is skipped": a row behind the cursor of its file was sent, is
\* about to be, was dropped with a word on stderr, or was cut off by a crash
\* or a failed save. Only a row written behind the cursor is passed over.
Done == Range(sent) \cup dropped \cup lost
NothingSkipped ==
  pc # "down" =>
    \A p \in Present :
      LET c == cursors[p] IN
      c # Nothing /\ c.ino = disk[p].ino =>
        \A i \in 1..Len(disk[p].rows) :
          i <= c.pos => disk[p].rows[i] \in Done \cup shadowed \cup Range(queue)

\* A complete row is at last sent, dropped or lost, whatever the other feeds
\* hold and however often the bridge dies, unless its file is taken away first
\* or the tick throws on an undefined cursor.
OnDisk(id) == \E p \in Present : id \in Range(disk[p].rows)
Delivered ==
  \A id \in 1..MaxRows :
    id \in Ids ~> id \in Done \cup shadowed \/ ~OnDisk(id) \/ Throws
=============================================================================
