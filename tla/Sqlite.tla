------------------------------- MODULE Sqlite -------------------------------
(***************************************************************************)
(* A database of SQLite over port/sqlite_port/sqlite_vfs.c, through        *)
(* transactions, failing calls, crashes and restarts.                      *)
(*                                                                         *)
(* SQLite is outside the port: its pager, with one connection and the      *)
(* rollback journal it deletes to commit, is the client.  It writes the    *)
(* journal's header, the pages as they were, the header again with their   *)
(* number, the pages as they shall be, and deletes the journal.  A journal *)
(* it finds at the start of a transaction is played back.                  *)
(*                                                                         *)
(* A file is a sequence of what is written at once: pages in a database, a *)
(* header and records in a journal.  As the VFS says of lwext4, a call     *)
(* that has returned has reached the disk, so xSync has nothing to do.     *)
(* Any call may fail, a write after a part of it.  A crash inside a write  *)
(* is a write that fails and a crash after it.                             *)
(***************************************************************************)
EXTENDS Integers

CONSTANTS
  MaxPages,     \* bound: pages of the database
  Val,          \* contents of a page
  Dir,          \* directories the program may be in
  Home,         \* where it starts, and the database and its journal belong
  Relative,     \* whether it names the database from there, or from the root
  UnlinkFails   \* whether unlink() may fail on a file that is there

ASSUME PagesAssumption == MaxPages \in Nat \ {0}
ASSUME DirAssumption == Home \in Dir
ASSUME NameAssumption == Relative \in BOOLEAN
ASSUME FailAssumption == UnlinkFails \in BOOLEAN

VARIABLES
  dbf,        \* the database file
  jr,         \* the journal file of each directory
  cwd,        \* the program's working directory
  pc,         \* what the pager does next
  jdir,       \* the directory of the journal it has open
  want,       \* the database that the transaction is to make
  k,          \* the page, or record, it has come to
  n,          \* the number of records in the journal
  committed   \* what SQLite has told the program the database is

vars == <<dbf, jr, cwd, pc, jdir, want, k, n, committed>>

Page == 1 .. MaxPages
Place == 1 .. MaxPages + 1

\* What a file is made of: a page, a record of a page, a header with a number
\* of records and of pages, and what a failed write leaves
Zero == [kind |-> "zero"]
Torn == [kind |-> "torn"]
PageUnit == [kind : {"page"}, val : Val]
Held == PageUnit \cup {Zero}
Rec(p, u) == [kind |-> "rec", page |-> p, was |-> u]
Hdr(m, z) == [kind |-> "hdr", recs |-> m, pages |-> z]
Unit == Held \cup {Torn} \cup [kind : {"rec"}, page : Page, was : Held \cup {Torn}]
        \cup [kind : {"hdr"}, recs : 0 .. MaxPages, pages : 0 .. MaxPages]

File == [there : BOOLEAN, len : 0 .. MaxPages + 1, at : [Place -> Unit]]
DbFile == [there : BOOLEAN, len : 0 .. MaxPages, at : [Place -> Held \cup {Torn}]]
Blank(there) == [there |-> there, len |-> 0, at |-> [i \in Place |-> Zero]]
Gone == Blank(FALSE)
Empty == Blank(TRUE)

\* Databases a transaction may make
Content == [there : {TRUE}, len : Page, at : [Place -> Held]]
Contents == {f \in Content : \A i \in Place : f.at[i] \in PageUnit <=> i <= f.len}

Same(f, g) == f.len = g.len /\ \A i \in 1 .. f.len : f.at[i] = g.at[i]

PC == {"shut", "open", "idle", "hdr", "rec", "page", "commit",
       "playhdr", "play", "playend"}

Init ==
  /\ dbf = Gone
  /\ jr = [d \in Dir |-> Gone]
  /\ cwd = Home /\ jdir = Home
  /\ pc = "shut"
  /\ want = Empty /\ committed = Empty
  /\ k = 1 /\ n = 0

-----------------------------------------------------------------------------
(* The VFS: for each of its calls, what it may return and leave of a file *)

Put(f, i, u) ==
  [there |-> f.there, len |-> IF i > f.len THEN i ELSE f.len, at |-> [f.at EXCEPT ![i] = u]]

\* ext2Open(): refused when the file is not to be created, or open() fails
OpenFile(f, create) ==
  [ok : {FALSE}, file : {f}]
  \cup [ok : {TRUE}, file : IF f.there THEN {f} ELSE IF create THEN {Empty} ELSE {}]

\* ext2Read(): past the end it is short, and filled with zeros
Read(f, i) ==
  [rc : {"error"}, unit : {Zero}] \cup
  IF i <= f.len THEN [rc : {"ok"}, unit : {f.at[i]}] ELSE [rc : {"short"}, unit : {Zero}]

\* Mutant of Write: a write that stops short passes for one that is done
WriteStopsShort(f, i, u) == [ok : {TRUE}, file : {Put(f, i, u), Put(f, i, Torn)}]

\* ext2Write(): repeated until all is written, or one write() has failed
Write(f, i, u) ==
  [ok : {TRUE}, file : {Put(f, i, u)}] \cup [ok : {FALSE}, file : {f, Put(f, i, Torn)}]

\* the file with z units: ftruncate(), or a page of zeros written at the end
Resized(f, z) ==
  [there |-> f.there, len |-> z,
   at |-> [i \in Place |-> IF i <= z /\ i <= f.len THEN f.at[i] ELSE Zero]]

\* ext2Truncate()
Truncate(f, z) == [ok : {TRUE}, file : {Resized(f, z)}] \cup [ok : {FALSE}, file : {f}]

\* ext2Access()
Access(f) == f.there

\* ext2Delete(), which is always SQLITE_OK
Delete(f) == {Gone} \cup IF UnlinkFails THEN {f} ELSE {}

\* ext2CheckReservedLock()
ReservedLock == FALSE

\* The journal's name is what ext2FullPathname() has made of the database's:
\* the same, so a relative one leads below the directory the program is in by
\* now.
NameDir == IF Relative THEN cwd ELSE Home

-----------------------------------------------------------------------------
(* The pager *)

J == jr[jdir]
Named == jr[NameDir]

\* pages and journal as a step leaves them; the next thing to do
Db(f) == dbf' = f /\ UNCHANGED jr
Journal(f) == jr' = [jr EXCEPT ![jdir] = f] /\ UNCHANGED dbf
Goes(p) == pc' = p /\ UNCHANGED <<cwd, jdir, want, k, n, committed>>
GoesAt(p, i, m) == pc' = p /\ k' = i /\ n' = m /\ UNCHANGED <<cwd, jdir, want, committed>>

\* between transactions nothing is left in the pager's hands
Rests(f) ==
  /\ pc' = "idle" /\ want' = Empty /\ k' = 1 /\ n' = 0 /\ jdir' = Home
  /\ committed' = f
  /\ UNCHANGED cwd

\* sqlite3_open(): the program does it where it starts
Open ==
  /\ pc = "shut" /\ cwd = Home
  /\ \E r \in OpenFile(dbf, TRUE) : r.ok /\ Db(r.file)
  /\ Goes("open")

\* hasHotJournal(): the journal is hot unless its first byte is zero.  A
\* database without pages has nothing to undo.
NoJournal ==
  /\ pc = "open"
  /\ ~ Access(Named) \/ ReservedLock
  /\ UNCHANGED <<dbf, jr>> /\ Rests(committed)

EmptyDatabase ==
  /\ pc = "open" /\ Access(Named) /\ ~ ReservedLock
  /\ dbf.len = 0
  /\ \E f \in Delete(Named) : jr' = [jr EXCEPT ![NameDir] = f]
  /\ UNCHANGED dbf /\ Rests(committed)

ColdJournal ==
  /\ pc = "open" /\ Access(Named) /\ ~ ReservedLock
  /\ dbf.len # 0
  /\ \E r \in Read(Named, 1) : r.rc # "error" /\ r.unit.kind \in {"zero", "torn"}
  /\ UNCHANGED <<dbf, jr>> /\ Rests(committed)

HotJournal ==
  /\ pc = "open" /\ Access(Named) /\ ~ ReservedLock
  /\ dbf.len # 0
  /\ \E r \in OpenFile(Named, FALSE) : r.ok
  /\ \E r \in Read(Named, 1) : r.rc # "error" /\ r.unit.kind # "zero"
  /\ pc' = "playhdr" /\ jdir' = NameDir
  /\ UNCHANGED <<dbf, jr, cwd, want, k, n, committed>>

\* pager_playback(): the size, then the records.  One that fails leaves the
\* journal to the next transaction.
PlayHeader ==
  /\ pc = "playhdr"
  /\ \E r \in Read(J, 1) :
       \/ r.rc = "error" /\ UNCHANGED <<dbf, jr>> /\ Goes("open")
       \/ /\ r.rc # "error" /\ r.unit.kind # "hdr"
          /\ UNCHANGED <<dbf, jr>> /\ Goes("playend")
       \/ /\ r.rc # "error" /\ r.unit.kind = "hdr"
          /\ \E t \in Truncate(dbf, r.unit.pages) :
               /\ Db(t.file)
               /\ IF t.ok THEN GoesAt("play", 1, r.unit.recs) ELSE Goes("open")

PlayRecord ==
  /\ pc = "play" /\ k <= n
  /\ \E r \in Read(J, k + 1) :
       \/ r.rc = "error" /\ UNCHANGED <<dbf, jr>> /\ Goes("open")
       \/ /\ r.rc # "error" /\ r.unit.kind # "rec"
          /\ UNCHANGED <<dbf, jr>> /\ Goes("playend")
       \/ /\ r.rc # "error" /\ r.unit.kind = "rec"
          /\ \E w \in Write(dbf, r.unit.page, r.unit.was) :
               /\ Db(w.file)
               /\ IF w.ok THEN GoesAt("play", k + 1, n) ELSE Goes("open")

PlayDone ==
  /\ pc = "play" /\ k > n
  /\ UNCHANGED <<dbf, jr>> /\ Goes("playend")

PlayEnd ==
  /\ pc = "playend"
  /\ \E f \in Delete(Named) : jr' = [jr EXCEPT ![NameDir] = f]
  /\ UNCHANGED dbf /\ Rests(committed)

\* The first statement that writes opens the journal.
Begin(w) ==
  /\ pc = "idle"
  /\ \E r \in OpenFile(Named, TRUE) : r.ok /\ jr' = [jr EXCEPT ![NameDir] = r.file]
  /\ pc' = "hdr" /\ want' = w /\ k' = 1 /\ n' = 0 /\ jdir' = NameDir
  /\ UNCHANGED <<dbf, cwd, committed>>

WriteHeader ==
  /\ pc = "hdr"
  /\ \E w \in Write(J, 1, Hdr(0, dbf.len)) :
       Journal(w.file) /\ Goes(IF w.ok THEN "rec" ELSE "playhdr")

\* pages that the transaction changes or drops
Changes(p) == p > want.len \/ want.at[p] # dbf.at[p]

SavePage ==
  /\ pc = "rec" /\ k <= dbf.len
  /\ IF Changes(k)
       THEN \E w \in Write(J, n + 2, Rec(k, dbf.at[k])) :
              /\ Journal(w.file)
              /\ IF w.ok THEN GoesAt("rec", k + 1, n + 1) ELSE Goes("playhdr")
       ELSE UNCHANGED <<dbf, jr>> /\ GoesAt("rec", k + 1, n)

WriteCount ==
  /\ pc = "rec" /\ k > dbf.len
  /\ \E w \in Write(J, 1, Hdr(n, dbf.len)) :
       /\ Journal(w.file)
       /\ IF w.ok THEN GoesAt("page", 1, n) ELSE Goes("playhdr")

WritePage ==
  /\ pc = "page" /\ k <= want.len
  /\ IF k > dbf.len \/ want.at[k] # dbf.at[k]
       THEN \E w \in Write(dbf, k, want.at[k]) :
              /\ Db(w.file)
              /\ IF w.ok THEN GoesAt("page", k + 1, n) ELSE Goes("playhdr")
       ELSE UNCHANGED <<dbf, jr>> /\ GoesAt("page", k + 1, n)

Shorten ==
  /\ pc = "page" /\ k > want.len
  /\ IF dbf.len > want.len
       THEN \E t \in Truncate(dbf, want.len) :
              Db(t.file) /\ Goes(IF t.ok THEN "commit" ELSE "playhdr")
       ELSE UNCHANGED <<dbf, jr>> /\ Goes("commit")

Commit ==
  /\ pc = "commit"
  /\ \E f \in Delete(Named) : jr' = [jr EXCEPT ![NameDir] = f]
  /\ UNCHANGED dbf /\ Rests(want)

-----------------------------------------------------------------------------
(* The program, and what befalls it *)

Rollback ==
  /\ pc = "rec"
  /\ UNCHANGED <<dbf, jr>> /\ Goes("playhdr")

\* between its calls of SQLite
Chdir(d) ==
  /\ pc \in {"idle", "rec"} /\ d # cwd
  /\ cwd' = d
  /\ UNCHANGED <<dbf, jr, pc, jdir, want, k, n, committed>>

\* a crash, or an exit without sqlite3_close(), and the next start
Restart ==
  /\ pc # "shut"
  /\ pc' = "shut" /\ cwd' = Home /\ jdir' = Home
  /\ want' = Empty /\ k' = 1 /\ n' = 0
  /\ UNCHANGED <<dbf, jr, committed>>

Next ==
  \/ Open \/ NoJournal \/ EmptyDatabase \/ ColdJournal \/ HotJournal
  \/ PlayHeader \/ PlayRecord \/ PlayDone \/ PlayEnd
  \/ \E w \in Contents : Begin(w)
  \/ WriteHeader \/ SavePage \/ WriteCount \/ WritePage \/ Shorten \/ Commit
  \/ Rollback \/ \E d \in Dir : Chdir(d)
  \/ Restart

Spec == Init /\ [][Next]_vars

-----------------------------------------------------------------------------
(* Properties *)

\* The types of the pager's state and of the files it makes
TypeOK ==
  /\ dbf \in DbFile /\ jr \in [Dir -> File]
  /\ cwd \in Dir /\ jdir \in Dir
  /\ pc \in PC
  /\ want \in Contents \cup {Empty} /\ committed \in Contents \cup {Empty}
  /\ k \in 1 .. MaxPages + 1 /\ n \in 0 .. MaxPages

\* Whenever SQLite is ready to read, the database is what it has told the
\* program: all of each transaction that it has called committed, nothing of
\* any other, however writes and playbacks were cut off in the middle.
Atomic == pc = "idle" => Same(dbf, committed)

\* a journal that would be played back
Hot(f) == f.there /\ f.len > 0 /\ f.at[1].kind = "hdr"

\* While no transaction is open there is no journal that a restart could play
\* back over what has been committed.
NothingToUndo == pc = "idle" => ~ Hot(jr[Home])

=============================================================================
