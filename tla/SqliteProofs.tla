---------------------------- MODULE SqliteProofs ----------------------------
(***************************************************************************)
(* Proofs about Sqlite, for any number of pages and contents, as long as   *)
(* the database's name keeps its meaning (it is absolute, or the program   *)
(* stays in one directory) and unlink() does what it says: what SQLite     *)
(* reads is what has been committed, and nothing can undo it.              *)
(***************************************************************************)
EXTENDS Sqlite, TLAPS

Stays == (Relative => Dir = {Home}) /\ ~ UnlinkFails

-----------------------------------------------------------------------------
(* The inductive invariant *)

\* the i-th record of journal j is of a page as it is in c
Saved(j, i, c) ==
  /\ j.at[i + 1].kind = "rec"
  /\ j.at[i + 1].page \in 1 .. c.len
  /\ j.at[i + 1].was = c.at[j.at[i + 1].page]

Covered(j, m, p) == \E i \in 1 .. m : j.at[i + 1].page = p

Differs(f, c, p) == p > f.len \/ f.at[p] # c.at[p]

\* the first m records of j turn f back into c
Undoes(f, j, m, c) ==
  /\ m \in 0 .. MaxPages /\ m < j.len
  /\ \A i \in 1 .. m : Saved(j, i, c)
  /\ \A p \in 1 .. c.len : Differs(f, c, p) => Covered(j, m, p)

\* On disk is what has been committed, or a journal that leads back to it.
OnDisk(f, j, c) ==
  /\ Hot(j) => Undoes(f, j, j.at[1].recs, c) /\ j.at[1].pages = c.len
  /\ ~ Hot(j) => Same(f, c)
  /\ c.len > 0 => f.len > 0

\* what each point in the pager's work adds to that
Saving(j) ==
  pc = "rec" =>
    /\ Hot(j) /\ j.at[1].recs = 0 /\ n < j.len /\ n < k /\ k <= dbf.len + 1
    /\ Same(dbf, committed)
    /\ \A i \in 1 .. n : Saved(j, i, committed)
    /\ \A p \in 1 .. k - 1 : Changes(p) => Covered(j, n, p)

Writing(j) ==
  pc = "page" =>
    /\ Hot(j) /\ j.at[1].recs = n /\ k <= want.len + 1
    /\ \A p \in 1 .. committed.len : Differs(want, committed, p) => Covered(j, n, p)
    /\ \A p \in 1 .. k - 1 : p <= dbf.len /\ dbf.at[p] = want.at[p]

Playing(j) ==
  pc = "play" =>
    /\ Hot(j) /\ j.at[1].recs = n /\ k <= n + 1
    /\ dbf.len = committed.len
    /\ \A i \in 1 .. k - 1 :
         dbf.at[j.at[i + 1].page] = committed.at[j.at[i + 1].page]

Ending(j) ==
  /\ pc = "playend" => Same(dbf, committed)
  /\ pc = "commit" => Same(dbf, want)
  /\ pc \in {"idle", "hdr"} => ~ Hot(j)
  /\ pc \in {"hdr", "rec", "page", "commit", "playhdr", "play"} => j.there
  /\ pc \in {"hdr", "rec", "page", "commit"} => want \in Contents
  /\ pc = "hdr" => k = 1 /\ n = 0

\* The database is there from the first start on, and its journal beside it.
Present == (~ dbf.there => dbf = Gone /\ pc = "shut") /\ jdir = Home

IInv ==
  /\ TypeOK /\ Present
  /\ OnDisk(dbf, jr[Home], committed)
  /\ Saving(jr[Home]) /\ Writing(jr[Home]) /\ Playing(jr[Home]) /\ Ending(jr[Home])

-----------------------------------------------------------------------------
(* What the calls of the VFS leave *)

LEMMA PutFile ==
  ASSUME NEW f \in File, NEW i \in Place, NEW u \in Unit
  PROVE  /\ Put(f, i, u) \in File
         /\ Put(f, i, u).there = f.there
         /\ Put(f, i, u).len = IF i > f.len THEN i ELSE f.len
         /\ \A m \in Place : Put(f, i, u).at[m] = IF m = i THEN u ELSE f.at[m]
<1> DEFINE g == Put(f, i, u)
<1>1. f.there \in BOOLEAN /\ f.len \in 0 .. MaxPages + 1 /\ f.at \in [Place -> Unit]
  BY DEF File
<1>2. g = [there |-> f.there, len |-> IF i > f.len THEN i ELSE f.len,
           at |-> [f.at EXCEPT ![i] = u]]
  BY DEF Put
<1>3. i \in 0 .. MaxPages + 1
  BY PagesAssumption DEF Place
<1>4. [f.at EXCEPT ![i] = u] \in [Place -> Unit]
  BY <1>1
<1> HIDE DEF g
<1>5. g \in File
  BY <1>1, <1>2, <1>3, <1>4 DEF File
<1> QED BY <1>1, <1>2, <1>5 DEF g

LEMMA PutDb ==
  ASSUME NEW f \in DbFile, NEW i \in Page, NEW u \in Held \cup {Torn}
  PROVE  /\ Put(f, i, u) \in DbFile
         /\ Put(f, i, u).there = f.there
         /\ Put(f, i, u).len = IF i > f.len THEN i ELSE f.len
         /\ \A m \in Place : Put(f, i, u).at[m] = IF m = i THEN u ELSE f.at[m]
<1> DEFINE g == Put(f, i, u)
<1>1. /\ f.there \in BOOLEAN /\ f.len \in 0 .. MaxPages
      /\ f.at \in [Place -> Held \cup {Torn}]
  BY DEF DbFile
<1>2. g = [there |-> f.there, len |-> IF i > f.len THEN i ELSE f.len,
           at |-> [f.at EXCEPT ![i] = u]]
  BY DEF Put
<1>3. i \in 0 .. MaxPages /\ i \in Place
  BY PagesAssumption DEF Place, Page
<1>4. [f.at EXCEPT ![i] = u] \in [Place -> Held \cup {Torn}]
  BY <1>1
<1> HIDE DEF g
<1>5. g \in DbFile
  BY <1>1, <1>2, <1>3, <1>4 DEF DbFile
<1> QED BY <1>1, <1>2, <1>3, <1>5 DEF g

LEMMA ResizedDb ==
  ASSUME NEW f \in DbFile, NEW z \in 0 .. MaxPages
  PROVE  /\ Resized(f, z) \in DbFile
         /\ Resized(f, z).there = f.there
         /\ Resized(f, z).len = z
         /\ \A m \in Place : m <= z /\ m <= f.len => Resized(f, z).at[m] = f.at[m]
<1> DEFINE h == [i \in Place |-> IF i <= z /\ i <= f.len THEN f.at[i] ELSE Zero]
<1>1. /\ f.there \in BOOLEAN /\ f.len \in 0 .. MaxPages
      /\ f.at \in [Place -> Held \cup {Torn}]
  BY DEF DbFile
<1>2. Resized(f, z) = [there |-> f.there, len |-> z, at |-> h]
  BY DEF Resized
<1>3. h \in [Place -> Held \cup {Torn}]
  BY <1>1 DEF Held
<1>4. Resized(f, z) \in DbFile
  <2> HIDE DEF h
  <2> QED BY <1>1, <1>2, <1>3 DEF DbFile
<1> QED BY <1>1, <1>2, <1>4

LEMMA Units ==
  /\ Zero.kind = "zero" /\ Torn.kind = "torn"
  /\ Zero \in Unit /\ Torn \in Unit /\ Held \subseteq Unit
  /\ \A p \in Page, u \in Held \cup {Torn} :
       /\ Rec(p, u) \in Unit
       /\ Rec(p, u).kind = "rec" /\ Rec(p, u).page = p /\ Rec(p, u).was = u
  /\ \A m, z \in 0 .. MaxPages :
       /\ Hdr(m, z) \in Unit
       /\ Hdr(m, z).kind = "hdr" /\ Hdr(m, z).recs = m /\ Hdr(m, z).pages = z
BY DEF Zero, Torn, Held, Unit, Rec, Hdr

LEMMA EmptyFiles ==
  /\ Gone \in File /\ Gone \in DbFile /\ Empty \in File /\ Empty \in DbFile
  /\ ~ Gone.there /\ Empty.there /\ Gone.len = 0 /\ Empty.len = 0 /\ Gone.at = Empty.at
<1>1. Gone.there = FALSE /\ Gone.len = 0 /\ Gone.at = [i \in Place |-> Zero]
  BY DEF Gone, Blank
<1>2. Empty = [there |-> TRUE, len |-> 0, at |-> [i \in Place |-> Zero]]
  BY DEF Empty, Blank
<1>3. [i \in Place |-> Zero] \in [Place -> Unit] /\ [i \in Place |-> Zero] \in [Place -> Held \cup {Torn}]
  BY Units DEF Held
<1>4. 0 \in 0 .. MaxPages /\ 0 \in 0 .. MaxPages + 1
  BY PagesAssumption
<1>5. Gone \in File /\ Gone \in DbFile
  BY <1>3, <1>4 DEF Gone, Blank, File, DbFile
<1>6. Empty \in File /\ Empty \in DbFile
  BY <1>2, <1>3, <1>4 DEF File, DbFile
<1> QED BY <1>1, <1>2, <1>5, <1>6

LEMMA ContentFacts ==
  ASSUME NEW c \in Contents
  PROVE  /\ c.len \in Page /\ c.at \in [Place -> Held]
         /\ \A p \in Place : c.at[p] \in Held
BY DEF Contents, Content

-----------------------------------------------------------------------------
(* What a journal still undoes *)

LEMMA WrittenUndone ==
  ASSUME NEW f \in DbFile, NEW j, NEW m, NEW c, Undoes(f, j, m, c),
         NEW p \in Page, NEW u \in Held \cup {Torn},
         c.len \in 0 .. MaxPages,
         p \in 1 .. c.len => Covered(j, m, p) \/ u = c.at[p]
  PROVE  Undoes(Put(f, p, u), j, m, c)
<1> DEFINE g == Put(f, p, u)
<1>1. /\ g.len = IF p > f.len THEN p ELSE f.len
      /\ \A i \in Place : g.at[i] = IF i = p THEN u ELSE f.at[i]
  BY PutDb
<1>2. f.len \in 0 .. MaxPages
  BY DEF DbFile
<1>3. ASSUME NEW q \in 1 .. c.len, Differs(g, c, q)
      PROVE  Covered(j, m, q)
  <2>1. q \in Place
    BY PagesAssumption DEF Place
  <2>2. CASE q = p
    BY <1>1, <1>2, <1>3, <2>1, <2>2, PagesAssumption DEF Differs, Page
  <2>3. CASE q # p
    <3>1. Differs(f, c, q)
      BY <1>1, <1>2, <1>3, <2>1, <2>3, PagesAssumption DEF Differs, Page
    <3> QED BY <3>1 DEF Undoes
  <2> QED BY <2>2, <2>3
<1> HIDE DEF g
<1>4. Undoes(g, j, m, c)
  BY <1>3 DEF Undoes
<1> QED BY <1>4 DEF g

LEMMA ResizedUndone ==
  ASSUME NEW f \in DbFile, NEW j, NEW m, NEW c, Undoes(f, j, m, c),
         NEW z \in 0 .. MaxPages,
         c.len \in 0 .. MaxPages,
         \A p \in 1 .. c.len : p > z => Covered(j, m, p)
  PROVE  Undoes(Resized(f, z), j, m, c)
<1> DEFINE g == Resized(f, z)
<1>1. /\ g.len = z
      /\ \A i \in Place : i <= z /\ i <= f.len => g.at[i] = f.at[i]
  BY ResizedDb
<1>2. f.len \in 0 .. MaxPages
  BY DEF DbFile
<1>3. ASSUME NEW q \in 1 .. c.len, Differs(g, c, q)
      PROVE  Covered(j, m, q)
  <2>1. q \in Place
    BY PagesAssumption DEF Place
  <2>2. CASE q > z
    BY <2>2
  <2>3. CASE q <= z
    <3>1. Differs(f, c, q)
      BY <1>1, <1>2, <1>3, <2>1, <2>3, PagesAssumption DEF Differs
    <3> QED BY <3>1 DEF Undoes
  <2> QED BY <2>2, <2>3, PagesAssumption
<1> HIDE DEF g
<1>4. Undoes(g, j, m, c)
  BY <1>3 DEF Undoes
<1> QED BY <1>4 DEF g

\* what is written at place q of the journal leaves the records before it
LEMMA JournalKept ==
  ASSUME NEW j \in File, NEW q \in Place, NEW u \in Unit, NEW c,
         NEW m \in 0 .. MaxPages, m < j.len, q \notin 2 .. m + 1
  PROVE  /\ m < Put(j, q, u).len
         /\ \A i \in 1 .. m : Saved(j, i, c) => Saved(Put(j, q, u), i, c)
         /\ \A p : Covered(j, m, p) => Covered(Put(j, q, u), m, p)
<1> DEFINE g == Put(j, q, u)
<1>1. /\ g.len = IF q > j.len THEN q ELSE j.len
      /\ \A i \in Place : g.at[i] = IF i = q THEN u ELSE j.at[i]
  BY PutFile
<1>2. j.len \in 0 .. MaxPages + 1
  BY DEF File
<1>3. \A i \in 1 .. m : g.at[i + 1] = j.at[i + 1]
  BY <1>1, PagesAssumption DEF Place
<1>4. m < g.len
  BY <1>1, <1>2, PagesAssumption DEF Place
<1> HIDE DEF g
<1>5. \A i \in 1 .. m : Saved(j, i, c) => Saved(g, i, c)
  BY <1>3 DEF Saved
<1>6. \A p : Covered(j, m, p) => Covered(g, m, p)
  BY <1>3 DEF Covered
<1> QED BY <1>4, <1>5, <1>6 DEF g

\* a header is there, or it has been torn
LEMMA HeaderWritten ==
  ASSUME NEW j \in File, NEW u \in Unit
  PROVE  /\ Put(j, 1, u) \in File
         /\ Put(j, 1, u).there = j.there /\ Put(j, 1, u).len > 0
         /\ Put(j, 1, u).at[1] = u
         /\ Hot(Put(j, 1, u)) <=> j.there /\ u.kind = "hdr"
<1>1. 1 \in Place /\ j.len \in 0 .. MaxPages + 1
  BY PagesAssumption DEF Place, File
<1>2. /\ Put(j, 1, u).len = IF 1 > j.len THEN 1 ELSE j.len
      /\ Put(j, 1, u).at[1] = u
  BY <1>1, PutFile
<1> QED BY <1>1, <1>2, PutFile, PagesAssumption DEF Hot

\* a journal with a header and no records undoes what has not been changed
LEMMA NothingChanged ==
  ASSUME NEW f \in DbFile, NEW j, NEW c, Same(f, c), 0 < j.len
  PROVE  Undoes(f, j, 0, c)
BY PagesAssumption DEF Same, Undoes, Differs, DbFile

LEMMA Typed ==
  ASSUME TypeOK
  PROVE  /\ dbf \in DbFile /\ dbf.len \in 0 .. MaxPages
         /\ committed.len \in 0 .. MaxPages
         /\ want \in Contents => want.len \in Page
<1>1. dbf.len \in 0 .. MaxPages
  BY DEF TypeOK, DbFile
<1>2. committed.len \in 0 .. MaxPages
  BY ContentFacts, EmptyFiles, PagesAssumption DEF TypeOK, Page
<1> QED BY <1>1, <1>2, ContentFacts DEF TypeOK

LEMMA AtHome ==
  ASSUME Stays, TypeOK, Present
  PROVE  /\ NameDir = Home /\ jdir = Home
         /\ jr[Home] \in File /\ J = jr[Home] /\ Named = jr[Home]
         /\ \A f \in File, d \in Dir :
              jr' = [jr EXCEPT ![d] = f] => jr' \in [Dir -> File] /\ (d = Home => jr'[Home] = f)
<1>1. NameDir = Home /\ jdir = Home
  BY NameAssumption DEF Stays, TypeOK, Present, NameDir
<1>2. J = jr[Home] /\ Named = jr[Home]
  BY <1>1 DEF J, Named
<1> QED BY <1>1, <1>2, DirAssumption DEF TypeOK

\* the invariant between transactions
LEMMA AtRest ==
  ASSUME Stays, TypeOK, NEW c \in Contents \cup {Empty}, Rests(c),
         dbf' \in DbFile, dbf'.there, jr' \in [Dir -> File],
         ~ Hot(jr'[Home]), Same(dbf', c)
  PROVE  IInv'
<1>1. /\ pc' = "idle" /\ want' = Empty /\ k' = 1 /\ n' = 0 /\ jdir' = Home
      /\ committed' = c /\ cwd' = cwd
  BY DEF Rests
<1>2. TypeOK'
  BY <1>1, DirAssumption, PagesAssumption DEF TypeOK, PC
<1>3. OnDisk(dbf', jr'[Home], committed')
  BY <1>1 DEF OnDisk, Same
<1>4. OnDisk(dbf, jr[Home], committed)'
  BY <1>3 DEF OnDisk, Undoes, Saved, Covered, Differs, Hot, Same
<1>5. (Saving(jr[Home]) /\ Writing(jr[Home]) /\ Playing(jr[Home]))'
  BY <1>1 DEF Saving, Writing, Playing
<1>6. Ending(jr[Home])'
  BY <1>1 DEF Ending, Hot
<1> QED BY <1>1, <1>2, <1>4, <1>5, <1>6 DEF IInv, Present

LEMMA OnDiskNext ==
  ASSUME OnDisk(dbf', jr'[Home], committed')
  PROVE  OnDisk(dbf, jr[Home], committed)'
BY DEF OnDisk, Undoes, Saved, Covered, Differs, Hot, Same

\* the invariant where a step leaves the pager with nothing but what is on disk
LEMMA OnlyDisk ==
  ASSUME TypeOK', OnDisk(dbf', jr'[Home], committed'), ~ dbf'.there => dbf' = Gone /\ pc' = "shut",
         jdir' = Home,
         pc' \in {"shut", "open"} \/ (pc' = "playhdr" /\ jr'[Home].there)
  PROVE  IInv'
<1>1. (Saving(jr[Home]) /\ Writing(jr[Home]) /\ Playing(jr[Home]) /\ Ending(jr[Home]))'
  BY DEF Saving, Writing, Playing, Ending
<1> QED BY <1>1, OnDiskNext DEF IInv, Present

-----------------------------------------------------------------------------
(* Finding a journal, and playing it back *)

LEMMA OpenStep == ASSUME Stays, IInv, Open PROVE IInv'
<1> USE DEF IInv
<1>1. /\ (dbf' = dbf /\ dbf.there) \/ (dbf' = Empty /\ ~ dbf.there)
      /\ pc' = "open" /\ jr' = jr
      /\ UNCHANGED <<cwd, jdir, want, k, n, committed>>
  <2>1. PICK r \in OpenFile(dbf, TRUE) : r.ok /\ Db(r.file)
    BY DEF Open
  <2>2. r.file \in IF dbf.there THEN {dbf} ELSE {Empty}
    BY <2>1 DEF OpenFile
  <2> QED BY <2>1, <2>2 DEF Open, Db, Goes
<1>2. TypeOK'
  BY <1>1, EmptyFiles DEF TypeOK, PC
<1>3. dbf'.there /\ dbf'.len = dbf.len /\ dbf'.at = dbf.at
  BY <1>1, EmptyFiles DEF Present
<1>4. OnDisk(dbf', jr'[Home], committed')
  <2>1. \A p : Differs(dbf', committed, p) <=> Differs(dbf, committed, p)
    BY <1>3 DEF Differs
  <2>2. Same(dbf', committed) <=> Same(dbf, committed)
    BY <1>3 DEF Same
  <2>3. \A m : Undoes(dbf, jr[Home], m, committed) => Undoes(dbf', jr[Home], m, committed)
    BY <2>1 DEF Undoes
  <2> QED BY <1>1, <1>3, <2>2, <2>3 DEF OnDisk
<1> QED BY <1>1, <1>2, <1>3, <1>4, OnlyDisk DEF Present

LEMMA CheckStep ==
  ASSUME Stays, IInv, NoJournal \/ EmptyDatabase \/ ColdJournal
  PROVE  IInv'
<1> USE DEF IInv
<1>1. pc = "open" /\ dbf' = dbf /\ dbf.there /\ Rests(committed)
  BY DEF NoJournal, EmptyDatabase, ColdJournal, Present
<1>2. jr' \in [Dir -> File] /\ ~ Hot(jr'[Home]) /\ Same(dbf, committed)
  <2>1. CASE NoJournal
    BY <2>1, AtHome DEF NoJournal, Access, Hot, OnDisk, ReservedLock, TypeOK
  <2>2. CASE EmptyDatabase
    <3>1. jr' = [jr EXCEPT ![Home] = Gone]
      BY <2>2, AtHome DEF EmptyDatabase, Delete, Stays, NameDir
    <3>2. jr' \in [Dir -> File] /\ jr'[Home] = Gone
      BY <3>1, AtHome, EmptyFiles, DirAssumption
    <3>3. dbf.len = 0 /\ committed.len = 0
      BY <2>2, Typed DEF EmptyDatabase, OnDisk
    <3> QED BY <3>2, <3>3, EmptyFiles DEF Hot, Same
  <2>3. CASE ColdJournal
    <3>1. jr' = jr /\ ~ Hot(jr[Home])
      <4>1. PICK r \in Read(jr[Home], 1) : r.rc # "error" /\ r.unit.kind \in {"zero", "torn"}
        BY <2>3, AtHome DEF ColdJournal
      <4>2. jr[Home].len \in 0 .. MaxPages + 1
        BY AtHome DEF File
      <4> QED BY <2>3, <4>1, <4>2, PagesAssumption DEF ColdJournal, Read, Hot
    <3> QED BY <3>1 DEF OnDisk, TypeOK
  <2> QED BY <2>1, <2>2, <2>3
<1> QED BY <1>1, <1>2, AtRest DEF TypeOK

LEMMA HotStep == ASSUME Stays, IInv, HotJournal PROVE IInv'
<1> USE DEF IInv
<1>1. /\ pc = "open" /\ pc' = "playhdr" /\ jdir' = Home
      /\ UNCHANGED <<dbf, jr, cwd, want, k, n, committed>>
      /\ jr'[Home].there
  BY AtHome DEF HotJournal, NameDir, Access
<1>2. TypeOK'
  BY <1>1, DirAssumption DEF TypeOK, PC
<1>3. OnDisk(dbf', jr'[Home], committed')
  BY <1>1
<1> QED BY <1>1, <1>2, <1>3, OnlyDisk DEF Present

LEMMA PlayHeaderStep == ASSUME Stays, IInv, PlayHeader PROVE IInv'
<1> USE DEF IInv
<1> DEFINE j == jr[Home]
<1>1. pc = "playhdr" /\ j.there /\ jr' = jr /\ dbf.there
  BY DEF PlayHeader, Ending, Db, Present
<1>2. j \in File /\ J = j /\ j.len \in 0 .. MaxPages + 1
  BY AtHome DEF File
<1>3. PICK r \in Read(j, 1) :
        \/ r.rc = "error" /\ UNCHANGED <<dbf, jr>> /\ Goes("open")
        \/ /\ r.rc # "error" /\ r.unit.kind # "hdr"
           /\ UNCHANGED <<dbf, jr>> /\ Goes("playend")
        \/ /\ r.rc # "error" /\ r.unit.kind = "hdr"
           /\ \E t \in Truncate(dbf, r.unit.pages) :
                /\ Db(t.file)
                /\ IF t.ok THEN GoesAt("play", 1, r.unit.recs) ELSE Goes("open")
  BY <1>2 DEF PlayHeader
<1>4. CASE UNCHANGED dbf /\ Goes("open")
  <2>1. TypeOK'
    BY <1>1, <1>4 DEF TypeOK, Goes, PC
  <2> QED BY <1>1, <1>4, <2>1, OnlyDisk DEF Goes, Present
<1>5. CASE r.rc # "error" /\ r.unit.kind # "hdr" /\ UNCHANGED dbf /\ Goes("playend")
  <2>1. TypeOK'
    BY <1>1, <1>5 DEF TypeOK, Goes, PC
  <2>2. ~ Hot(j)
    BY <1>2, <1>5, PagesAssumption DEF Read, Hot
  <2>3. Same(dbf, committed)
    BY <2>2 DEF OnDisk
  <2>4. OnDisk(dbf, jr[Home], committed)'
    BY <1>1, <1>5, OnDiskNext DEF Goes
  <2>5. (Saving(jr[Home]) /\ Writing(jr[Home]) /\ Playing(jr[Home]) /\ Ending(jr[Home]))'
    BY <1>1, <1>5, <2>3 DEF Goes, Saving, Writing, Playing, Ending, Same
  <2> QED BY <1>1, <1>5, <2>1, <2>4, <2>5 DEF Goes, Present
<1>6. CASE /\ r.rc # "error" /\ r.unit.kind = "hdr"
           /\ \E t \in Truncate(dbf, r.unit.pages) :
                t.ok /\ Db(t.file) /\ GoesAt("play", 1, r.unit.recs)
  <2>1. Hot(j) /\ r.unit = j.at[1]
    BY <1>1, <1>2, <1>3, <1>6, Units, PagesAssumption DEF Read, Hot
  <2>2. /\ j.at[1].pages = committed.len /\ committed.len \in 0 .. MaxPages
        /\ Undoes(dbf, j, j.at[1].recs, committed)
    BY <2>1, Typed DEF OnDisk
  <2>3. /\ dbf' = Resized(dbf, committed.len)
        /\ pc' = "play" /\ k' = 1 /\ n' = j.at[1].recs
        /\ UNCHANGED <<cwd, jdir, want, committed>>
    BY <1>6, <2>1, <2>2 DEF Truncate, Db, GoesAt
  <2>4. dbf' \in DbFile /\ dbf'.there /\ dbf'.len = committed.len
    BY <1>1, <2>2, <2>3, Typed, ResizedDb
  <2>5. Undoes(dbf', j, j.at[1].recs, committed)
    BY <2>2, <2>3, Typed, ResizedUndone
  <2>6. TypeOK'
    BY <1>1, <2>2, <2>3, <2>4, PagesAssumption DEF TypeOK, PC, Undoes
  <2>7. OnDisk(dbf', jr'[Home], committed')
    BY <1>1, <2>1, <2>2, <2>3, <2>4, <2>5 DEF OnDisk
  <2>8. (Saving(jr[Home]) /\ Writing(jr[Home]) /\ Ending(jr[Home]))'
    BY <1>1, <2>3 DEF Saving, Writing, Ending
  <2>9. Playing(jr[Home])'
    BY <1>1, <2>1, <2>2, <2>3, <2>4 DEF Playing, Hot, Undoes
  <2> QED BY <2>3, <2>4, <2>6, <2>7, <2>8, <2>9, OnDiskNext DEF Present
<1>7. CASE \E t \in Truncate(dbf, r.unit.pages) : ~ t.ok /\ Db(t.file) /\ Goes("open")
  BY <1>4, <1>7 DEF Truncate, Db
<1> QED BY <1>3, <1>4, <1>5, <1>6, <1>7

LEMMA PlayRecordStep == ASSUME Stays, IInv, PlayRecord PROVE IInv'
<1> USE DEF IInv
<1> DEFINE j == jr[Home]
<1>0. jr' = jr
  BY DEF PlayRecord, Db
<1>1. /\ pc = "play" /\ k <= n /\ jr' = jr /\ dbf.there
      /\ k \in 1 .. MaxPages /\ n \in 0 .. MaxPages
  BY PagesAssumption DEF PlayRecord, Db, TypeOK, Present
<1>2. j \in File /\ J = j /\ j.len \in 0 .. MaxPages + 1
  BY AtHome DEF File
<1>3. /\ Hot(j) /\ j.at[1].recs = n /\ dbf.len = committed.len
      /\ \A i \in 1 .. k - 1 : dbf.at[j.at[i + 1].page] = committed.at[j.at[i + 1].page]
  BY <1>1 DEF Playing
<1>4. Undoes(dbf, j, n, committed) /\ j.at[1].pages = committed.len
  BY <1>3 DEF OnDisk
<1>5. n < j.len /\ \A i \in 1 .. n : Saved(j, i, committed)
  BY <1>4 DEF Undoes
<1> DEFINE p == j.at[k + 1].page
<1>6. j.at[k + 1].kind = "rec" /\ p \in 1 .. committed.len /\ j.at[k + 1].was = committed.at[p]
  BY <1>1, <1>5 DEF Saved
<1>7. p \in Page /\ committed.at[p] \in Held \cup {Torn} /\ committed.len \in 0 .. MaxPages
  BY <1>6, Typed, ContentFacts, EmptyFiles, PagesAssumption DEF TypeOK, Page, Place
<1>8. k + 1 <= j.len
  BY <1>1, <1>2, <1>5, PagesAssumption
<1>9. \/ UNCHANGED dbf /\ Goes("open")
      \/ \E w \in Write(dbf, p, committed.at[p]) :
           /\ Db(w.file)
           /\ IF w.ok THEN GoesAt("play", k + 1, n) ELSE Goes("open")
  BY <1>2, <1>6, <1>8 DEF PlayRecord, Read
<1> HIDE DEF p
<1>10. CASE UNCHANGED dbf /\ Goes("open")
  <2>1. TypeOK'
    BY <1>0, <1>10 DEF TypeOK, Goes, PC
  <2> QED BY <1>1, <1>10, <2>1, OnlyDisk DEF Goes, Present
<1>11. Covered(j, n, p)
  BY <1>1 DEF Covered, p
<1>12. CASE \E w \in Write(dbf, p, committed.at[p]) : ~ w.ok /\ Db(w.file) /\ Goes("open")
  <2>1. CASE dbf' = dbf
    BY <1>10, <1>12, <2>1
  <2>2. CASE dbf' = Put(dbf, p, Torn)
    <3>1. /\ dbf' \in DbFile /\ dbf'.there
          /\ dbf'.len = IF p > dbf.len THEN p ELSE dbf.len
      BY <1>1, <1>7, <2>2, Typed, PutDb
    <3>2. Undoes(dbf', j, n, committed)
      BY <1>4, <1>7, <1>11, <2>2, Typed, WrittenUndone
    <3>3. UNCHANGED committed /\ jr' = jr
      BY <1>1, <1>12 DEF Goes
    <3>6. dbf'.len > 0
      <4>1. p \in Nat /\ p > 0 /\ dbf.len \in Nat
        BY <1>3, <1>7, PagesAssumption DEF Page
      <4> QED BY <3>1, <4>1
    <3>4. OnDisk(dbf', jr'[Home], committed')
      BY <1>3, <1>4, <3>2, <3>3, <3>6 DEF OnDisk
    <3>5. TypeOK'
      BY <1>0, <1>12, <3>1 DEF TypeOK, Goes, PC
    <3> QED BY <1>12, <3>1, <3>4, <3>5, OnlyDisk DEF Goes, Present
  <2> QED BY <1>12, <2>1, <2>2 DEF Write, Db
<1>13. CASE \E w \in Write(dbf, p, committed.at[p]) :
              w.ok /\ Db(w.file) /\ GoesAt("play", k + 1, n)
  <2>1. /\ dbf' = Put(dbf, p, committed.at[p])
        /\ pc' = "play" /\ k' = k + 1 /\ n' = n
        /\ UNCHANGED <<cwd, jdir, want, committed>>
    BY <1>13 DEF Write, Db, GoesAt
  <2>2. /\ dbf' \in DbFile /\ dbf'.there /\ dbf'.len = committed.len
        /\ \A m \in Place : dbf'.at[m] = IF m = p THEN committed.at[p] ELSE dbf.at[m]
    <3>1. /\ dbf' \in DbFile /\ dbf'.there = dbf.there
          /\ dbf'.len = IF p > dbf.len THEN p ELSE dbf.len
          /\ \A m \in Place : dbf'.at[m] = IF m = p THEN committed.at[p] ELSE dbf.at[m]
      BY <1>7, <2>1, Typed, PutDb
    <3>2. p <= committed.len
      BY <1>6, <1>7 DEF p
    <3> QED BY <1>1, <1>3, <1>7, <3>1, <3>2 DEF Page
  <2>3. Undoes(dbf', j, n, committed)
    BY <1>4, <1>7, <2>1, Typed, WrittenUndone
  <2>4. TypeOK'
    BY <1>1, <2>1, <2>2, PagesAssumption DEF TypeOK, PC
  <2>5. OnDisk(dbf', jr'[Home], committed')
    BY <1>1, <1>3, <1>4, <2>1, <2>2, <2>3 DEF OnDisk
  <2>6. (Saving(jr[Home]) /\ Writing(jr[Home]) /\ Ending(jr[Home]))'
    BY <1>1, <2>1 DEF Saving, Writing, Ending
  <2>7. ASSUME NEW i \in 1 .. k
        PROVE  dbf'.at[j.at[i + 1].page] = committed.at[j.at[i + 1].page]
    <3>1. j.at[i + 1].page \in Place
      <4>1. i \in 1 .. n
        BY <1>1
      <4>2. j.at[i + 1].page \in 1 .. committed.len
        BY <1>5, <4>1 DEF Saved
      <4> QED BY <1>7, <4>2, PagesAssumption DEF Place
    <3>2. CASE i = k
      BY <2>2, <3>1, <3>2 DEF p
    <3>3. CASE i # k
      BY <1>1, <1>3, <2>2, <3>1, <3>3
    <3> QED BY <3>2, <3>3
  <2>8. Playing(jr[Home])'
    <3>1. Hot(j)' /\ j'.at[1].recs = n' /\ k' <= n' + 1 /\ dbf'.len = committed'.len
      BY <1>1, <1>3, <2>1, <2>2 DEF Hot
    <3>2. k' - 1 = k
      BY <1>1, <2>1
    <3> QED BY <1>1, <2>1, <2>7, <3>1, <3>2 DEF Playing
  <2> QED BY <2>1, <2>2, <2>4, <2>5, <2>6, <2>8, OnDiskNext DEF Present
<1> QED BY <1>9, <1>10, <1>12, <1>13

LEMMA PlayDoneStep == ASSUME Stays, IInv, PlayDone PROVE IInv'
<1> USE DEF IInv
<1> DEFINE j == jr[Home]
<1>1. /\ pc = "play" /\ k > n /\ pc' = "playend"
      /\ UNCHANGED <<dbf, jr, cwd, jdir, want, k, n, committed>>
  BY DEF PlayDone, Goes
<1>2. /\ Hot(j) /\ j.at[1].recs = n /\ dbf.len = committed.len /\ k = n + 1
      /\ \A i \in 1 .. n : dbf.at[j.at[i + 1].page] = committed.at[j.at[i + 1].page]
  BY <1>1 DEF Playing, TypeOK
<1>3. \A q \in 1 .. committed.len : Differs(dbf, committed, q) => Covered(j, n, q)
  BY <1>2 DEF OnDisk, Undoes
<1>4. Same(dbf, committed)
  BY <1>2, <1>3, Typed DEF Differs, Covered, Same
<1>5. TypeOK'
  BY <1>1 DEF TypeOK, PC
<1>6. OnDisk(dbf, jr[Home], committed)'
  BY <1>1, OnDiskNext
<1>7. (Saving(jr[Home]) /\ Writing(jr[Home]) /\ Playing(jr[Home]) /\ Ending(jr[Home]))'
  BY <1>1, <1>4 DEF Saving, Writing, Playing, Ending, Same
<1> QED BY <1>1, <1>5, <1>6, <1>7 DEF Present

LEMMA JournalDeleted ==
  ASSUME Stays, TypeOK, Present,
         \E f \in Delete(Named) : jr' = [jr EXCEPT ![NameDir] = f]
  PROVE  jr' \in [Dir -> File] /\ ~ Hot(jr'[Home])
<1>1. jr' = [jr EXCEPT ![Home] = Gone]
  BY AtHome DEF Delete, Stays, NameDir
<1>2. jr' \in [Dir -> File] /\ jr'[Home] = Gone
  BY <1>1, AtHome, EmptyFiles, DirAssumption
<1> QED BY <1>2, EmptyFiles DEF Hot

LEMMA PlayEndStep == ASSUME Stays, IInv, PlayEnd PROVE IInv'
<1> USE DEF IInv
<1>1. pc = "playend" /\ dbf' = dbf /\ dbf.there /\ Rests(committed) /\ Same(dbf, committed)
  BY DEF PlayEnd, Ending, Present
<1>2. jr' \in [Dir -> File] /\ ~ Hot(jr'[Home])
  BY JournalDeleted DEF PlayEnd
<1> QED BY <1>1, <1>2, AtRest DEF TypeOK

-----------------------------------------------------------------------------
(* A transaction *)

LEMMA BeginStep == ASSUME Stays, IInv, NEW w \in Contents, Begin(w) PROVE IInv'
<1> USE DEF IInv
<1>1. /\ pc = "idle" /\ dbf.there
      /\ pc' = "hdr" /\ want' = w /\ k' = 1 /\ n' = 0 /\ jdir' = Home
      /\ UNCHANGED <<dbf, cwd, committed>>
  BY AtHome DEF Begin, NameDir, Present
<1>2. ~ Hot(jr[Home]) /\ Same(dbf, committed)
  BY <1>1 DEF Ending, OnDisk
<1>3. PICK r \in OpenFile(jr[Home], TRUE) : r.ok /\ jr' = [jr EXCEPT ![Home] = r.file]
  BY AtHome DEF Begin, NameDir
<1>4. r.file \in IF jr[Home].there THEN {jr[Home]} ELSE {Empty}
  BY <1>3 DEF OpenFile
<1>5. r.file \in File /\ r.file.there /\ ~ Hot(r.file)
  BY <1>2, <1>4, AtHome, EmptyFiles DEF Hot
<1>6. jr' \in [Dir -> File] /\ jr'[Home] = r.file
  BY <1>3, <1>5, AtHome, DirAssumption
<1>7. TypeOK'
  BY <1>1, <1>6, DirAssumption, PagesAssumption DEF TypeOK, PC
<1>8. OnDisk(dbf', jr'[Home], committed')
  BY <1>1, <1>2, <1>5, <1>6 DEF OnDisk
<1>9. (Saving(jr[Home]) /\ Writing(jr[Home]) /\ Playing(jr[Home]) /\ Ending(jr[Home]))'
  BY <1>1, <1>5, <1>6 DEF Saving, Writing, Playing, Ending, Hot
<1> QED BY <1>1, <1>7, <1>8, <1>9, OnDiskNext DEF Present

\* a failed write of the journal while the database is as it was
LEMMA JournalFails ==
  ASSUME Stays, IInv, pc \in {"hdr", "rec"}, Same(dbf, committed), dbf' = dbf, Goes("playhdr"),
         NEW f \in File, jr' = [jr EXCEPT ![jdir] = f], f.there,
         Hot(f) => 0 < f.len /\ f.at[1].recs = 0 /\ f.at[1].pages = committed.len
  PROVE  IInv'
<1> USE DEF IInv
<1>1. jr' \in [Dir -> File] /\ jr'[Home] = f
  BY AtHome, DirAssumption
<1>2. dbf.there
  BY DEF Present
<1>3. TypeOK'
  BY <1>1 DEF TypeOK, Goes, PC
<1>4. Hot(f) => Undoes(dbf, f, 0, committed)
  BY Typed, NothingChanged
<1>5. OnDisk(dbf', jr'[Home], committed')
  BY <1>1, <1>4 DEF OnDisk, Goes
<1> QED BY <1>1, <1>2, <1>3, <1>5, OnlyDisk DEF Goes, Present

LEMMA WriteHeaderStep == ASSUME Stays, IInv, WriteHeader PROVE IInv'
<1> USE DEF IInv
<1> DEFINE j == jr[Home]
           u == Hdr(0, dbf.len)
<1>1. /\ pc = "hdr" /\ dbf.there /\ j \in File /\ j.there /\ ~ Hot(j) /\ Same(dbf, committed)
      /\ want \in Contents /\ J = j
  BY AtHome DEF WriteHeader, Ending, OnDisk, Present
<1>2. PICK w \in Write(j, 1, u) :
        /\ dbf' = dbf /\ jr' = [jr EXCEPT ![jdir] = w.file]
        /\ Goes(IF w.ok THEN "rec" ELSE "playhdr")
  BY <1>1 DEF WriteHeader, Journal
<1>3. u \in Unit /\ u.kind = "hdr" /\ u.recs = 0 /\ u.pages = dbf.len
  BY Units, Typed, PagesAssumption
<1> HIDE DEF u
<1>4. CASE w.ok /\ w.file = Put(j, 1, u)
  <2>1. w.file \in File /\ Hot(w.file) /\ w.file.at[1] = u /\ w.file.there /\ w.file.len > 0
    BY <1>1, <1>3, <1>4, HeaderWritten
  <2>2. jr' \in [Dir -> File] /\ jr'[Home] = w.file
    BY <1>2, <2>1, AtHome, DirAssumption
  <2>3. pc' = "rec" /\ UNCHANGED <<cwd, jdir, want, k, n, committed>>
    BY <1>2, <1>4 DEF Goes
  <2>4. TypeOK'
    BY <1>2, <2>2, <2>3 DEF TypeOK, PC
  <2>5. Undoes(dbf, w.file, 0, committed)
    BY <1>1, <2>1, Typed, NothingChanged
  <2>6. OnDisk(dbf', jr'[Home], committed')
    BY <1>1, <1>2, <1>3, <2>1, <2>2, <2>3, <2>5 DEF OnDisk, Same
  <2>7. k = 1 /\ n = 0
    BY <1>1 DEF Ending
  <2>8. Saving(jr[Home])'
    BY <1>1, <1>2, <1>3, <2>1, <2>2, <2>3, <2>7, Typed DEF Saving, Hot, Same
  <2>9. (Writing(jr[Home]) /\ Playing(jr[Home]) /\ Ending(jr[Home]))'
    BY <1>1, <2>1, <2>2, <2>3 DEF Writing, Playing, Ending
  <2> QED BY <1>1, <1>2, <2>3, <2>4, <2>6, <2>8, <2>9, OnDiskNext DEF Present
<1>5. CASE ~ w.ok /\ w.file = j
  BY <1>1, <1>2, <1>5, JournalFails
<1>6. CASE ~ w.ok /\ w.file = Put(j, 1, Torn)
  <2>1. w.file \in File /\ w.file.there /\ ~ Hot(w.file)
    BY <1>1, <1>6, HeaderWritten, Units
  <2> QED BY <1>1, <1>2, <1>6, <2>1, JournalFails
<1> QED BY <1>2, <1>4, <1>5, <1>6 DEF Write

LEMMA SavePageStep == ASSUME Stays, IInv, SavePage PROVE IInv'
<1> USE DEF IInv
<1> DEFINE j == jr[Home]
           u == Rec(k, dbf.at[k])
<1>1. /\ pc = "rec" /\ k <= dbf.len /\ dbf.there /\ j \in File /\ j.there /\ J = j
      /\ want \in Contents /\ dbf' = dbf /\ Same(dbf, committed)
  BY AtHome DEF SavePage, Saving, Ending, Present, Journal
<1>2. /\ Hot(j) /\ j.at[1].recs = 0 /\ n < j.len /\ n < k
      /\ \A i \in 1 .. n : Saved(j, i, committed)
      /\ \A p \in 1 .. k - 1 : Changes(p) => Covered(j, n, p)
  BY <1>1 DEF Saving
<1>3. j.at[1].pages = committed.len /\ committed.len = dbf.len /\ j.len > 0
  BY <1>1, <1>2 DEF OnDisk, Same, Hot
<1>4. /\ k \in Page /\ k \in 1 .. committed.len /\ n \in 0 .. MaxPages /\ n + 2 \in Place
      /\ n + 1 \in 0 .. MaxPages /\ dbf.len \in 0 .. MaxPages /\ j.len \in 0 .. MaxPages + 1
  BY <1>1, <1>2, <1>3, Typed, PagesAssumption DEF TypeOK, Page, Place, File
<1>5. dbf.at[k] \in Held \cup {Torn} /\ dbf.at[k] = committed.at[k]
  BY <1>1, <1>3, <1>4, Typed, PagesAssumption DEF DbFile, Same, Page, Place
<1>6. u \in Unit /\ u.kind = "rec" /\ u.page = k /\ u.was = committed.at[k]
  BY <1>4, <1>5, Units
<1> HIDE DEF u
<1>7. CASE ~ Changes(k) /\ UNCHANGED <<dbf, jr>> /\ GoesAt("rec", k + 1, n)
  <2>1. pc' = "rec" /\ k' = k + 1 /\ n' = n /\ UNCHANGED <<dbf, jr, cwd, jdir, want, committed>>
    BY <1>7 DEF GoesAt
  <2>2. TypeOK'
    BY <1>4, <2>1, PagesAssumption DEF TypeOK, PC, Page
  <2>3. OnDisk(dbf', jr'[Home], committed')
    BY <2>1
  <2>4. \A p \in 1 .. k : Changes(p) => Covered(j, n, p)
    BY <1>2, <1>4, <1>7
  <2>5. Saving(jr[Home])'
    BY <1>1, <1>2, <1>4, <2>1, <2>4 DEF Saving, Changes, Hot, Same, Page
  <2>6. (Writing(jr[Home]) /\ Playing(jr[Home]) /\ Ending(jr[Home]))'
    BY <1>1, <2>1 DEF Writing, Playing, Ending
  <2> QED BY <1>1, <2>1, <2>2, <2>3, <2>5, <2>6, OnDiskNext DEF Present
<1>8. ASSUME NEW v \in Unit
      PROVE  /\ Put(j, n + 2, v) \in File /\ Hot(Put(j, n + 2, v)) /\ Put(j, n + 2, v).there
             /\ Put(j, n + 2, v).at[1] = j.at[1] /\ Put(j, n + 2, v).len > 0
  <2> DEFINE q == n + 2
             g == Put(j, q, v)
  <2>1. q \in Place /\ 1 \in Place /\ 1 # q /\ q > 0
    BY <1>4, PagesAssumption DEF Place
  <2> HIDE DEF q
  <2>2. /\ g \in File /\ g.there = j.there /\ g.len = IF q > j.len THEN q ELSE j.len
        /\ \A m \in Place : g.at[m] = IF m = q THEN v ELSE j.at[m]
    <3>1. j \in File /\ q \in Place /\ v \in Unit
      BY <1>1, <2>1
    <3> HIDE DEF j
    <3> QED BY <3>1, PutFile
  <2>3. g.at[1] = j.at[1] /\ g.len > 0
    BY <1>3, <1>4, <2>1, <2>2
  <2> HIDE DEF g
  <2>4. Hot(g)
    BY <1>1, <1>2, <2>2, <2>3 DEF Hot
  <2> QED BY <1>1, <2>2, <2>3, <2>4 DEF g, q
<1>9. ASSUME NEW w \in Write(j, n + 2, u), ~ w.ok, dbf' = dbf,
             jr' = [jr EXCEPT ![jdir] = w.file], Goes("playhdr")
      PROVE  IInv'
  <2>1. w.file = j \/ w.file = Put(j, n + 2, Torn)
    BY <1>9 DEF Write
  <2>2. w.file \in File /\ Hot(w.file) /\ w.file.there /\ w.file.at[1] = j.at[1] /\ w.file.len > 0
    BY <1>1, <1>2, <1>3, <1>8, <2>1, Units
  <2> QED BY <1>1, <1>2, <1>3, <1>9, <2>2, JournalFails
<1>10. ASSUME NEW w \in Write(j, n + 2, u), w.ok, dbf' = dbf,
              jr' = [jr EXCEPT ![jdir] = w.file], GoesAt("rec", k + 1, n + 1)
       PROVE  IInv'
  <2> DEFINE g == Put(j, n + 2, u)
  <2>1. w.file = g
    BY <1>10 DEF Write
  <2>2. g \in File /\ Hot(g) /\ g.there /\ g.at[1] = j.at[1] /\ g.len > 0
    BY <1>6, <1>8
  <2>3. jr' \in [Dir -> File] /\ jr'[Home] = g
    BY <1>10, <2>1, <2>2, AtHome, DirAssumption
  <2>4. /\ pc' = "rec" /\ k' = k + 1 /\ n' = n + 1
        /\ UNCHANGED <<dbf, cwd, jdir, want, committed>>
    BY <1>10 DEF GoesAt
  <2>5. TypeOK'
    BY <1>4, <2>3, <2>4, PagesAssumption DEF TypeOK, PC, Page
  <2>6. g.at[n + 2] = u /\ g.len >= n + 2
    BY <1>1, <1>4, <1>6, PutFile
  <2>7. /\ \A i \in 1 .. n : Saved(j, i, committed) => Saved(g, i, committed)
        /\ \A p : Covered(j, n, p) => Covered(g, n, p)
    <3>1. n + 2 \notin 2 .. n + 1
      BY <1>4
    <3> QED BY <1>1, <1>2, <1>4, <1>6, <3>1, JournalKept
  <2>8. Undoes(dbf, g, 0, committed)
    BY <1>1, <2>2, Typed, NothingChanged
  <2>9. OnDisk(dbf', jr'[Home], committed')
    BY <1>1, <1>2, <1>3, <2>2, <2>3, <2>4, <2>8 DEF OnDisk, Same
  <2> HIDE DEF g
  <2>10. (n + 1) + 1 = n + 2
    BY <1>4
  <2>11. Saved(g, n + 1, committed) /\ Covered(g, n + 1, k)
    <3>1. Saved(g, n + 1, committed)
      BY <1>4, <1>6, <2>6, <2>10 DEF Saved
    <3>2. n + 1 \in 1 .. n + 1 /\ g.at[(n + 1) + 1].page = k
      BY <1>4, <1>6, <2>6, <2>10
    <3> QED BY <3>1, <3>2 DEF Covered
  <2>12. \A i \in 1 .. n + 1 : Saved(g, i, committed)
    BY <1>2, <1>4, <2>7, <2>11
  <2>13. \A p : Covered(g, n, p) => Covered(g, n + 1, p)
    BY <1>4 DEF Covered
  <2>14. \A p \in 1 .. k : Changes(p) => Covered(g, n + 1, p)
    BY <1>2, <1>4, <2>7, <2>11, <2>13
  <2>15. Saving(jr[Home])'
    <3>1. n + 1 < g.len /\ n + 1 < k + 1 /\ k + 1 <= dbf.len + 1 /\ (k + 1) - 1 = k
      BY <1>1, <1>2, <1>4, <2>2, <2>6 DEF File, Page
    <3>2. \A i \in 1 .. n + 1 : Saved(jr[Home], i, committed)'
      BY <2>3, <2>4, <2>12 DEF Saved
    <3>3. \A p \in 1 .. k' - 1 : Changes(p)' => Covered(jr[Home], n, p)'
      BY <2>3, <2>4, <2>14, <3>1 DEF Changes, Covered
    <3>4. Hot(jr[Home])' /\ Same(dbf, committed)'
      BY <1>1, <2>2, <2>3, <2>4 DEF Hot, Same
    <3> QED BY <1>2, <2>2, <2>3, <2>4, <3>1, <3>2, <3>3, <3>4 DEF Saving
  <2>16. (Writing(jr[Home]) /\ Playing(jr[Home]) /\ Ending(jr[Home]))'
    BY <1>1, <2>2, <2>3, <2>4 DEF Writing, Playing, Ending
  <2> QED BY <1>1, <2>4, <2>5, <2>9, <2>15, <2>16, OnDiskNext DEF Present
<1>11. CASE Changes(k)
  <2>1. PICK w \in Write(j, n + 2, u) :
          /\ dbf' = dbf /\ jr' = [jr EXCEPT ![jdir] = w.file]
          /\ IF w.ok THEN GoesAt("rec", k + 1, n + 1) ELSE Goes("playhdr")
    BY <1>1, <1>11 DEF SavePage, Journal, u
  <2> QED BY <2>1, <1>9, <1>10
<1> QED BY <1>7, <1>11 DEF SavePage

LEMMA WriteCountStep == ASSUME Stays, IInv, WriteCount PROVE IInv'
<1> USE DEF IInv
<1> DEFINE j == jr[Home]
           u == Hdr(n, dbf.len)
<1>1. /\ pc = "rec" /\ k > dbf.len /\ dbf.there /\ j \in File /\ j.there /\ J = j
      /\ want \in Contents /\ dbf' = dbf /\ Same(dbf, committed)
  BY AtHome DEF WriteCount, Saving, Ending, Present, Journal
<1>2. /\ Hot(j) /\ n < j.len /\ k = dbf.len + 1
      /\ \A i \in 1 .. n : Saved(j, i, committed)
      /\ \A p \in 1 .. dbf.len : Changes(p) => Covered(j, n, p)
  BY <1>1, Typed DEF Saving, TypeOK
<1>3. /\ committed.len = dbf.len /\ n \in 0 .. MaxPages /\ dbf.len \in 0 .. MaxPages
      /\ want.len \in Page
  BY <1>1, Typed DEF Same, TypeOK
<1>4. u \in Unit /\ u.kind = "hdr" /\ u.recs = n /\ u.pages = dbf.len
  BY <1>3, Units
<1> HIDE DEF u
<1>5. PICK w \in Write(j, 1, u) :
        /\ dbf' = dbf /\ jr' = [jr EXCEPT ![jdir] = w.file]
        /\ IF w.ok THEN GoesAt("page", 1, n) ELSE Goes("playhdr")
  BY <1>1 DEF WriteCount, Journal, u
<1>6. CASE ~ w.ok /\ w.file = j
  <2>1. j.at[1].recs = 0 /\ j.at[1].pages = committed.len /\ j.len > 0
    BY <1>1, <1>2 DEF Saving, OnDisk, Hot
  <2> QED BY <1>1, <1>5, <1>6, <2>1, JournalFails
<1>7. CASE ~ w.ok /\ w.file = Put(j, 1, Torn)
  <2>1. w.file \in File /\ w.file.there /\ ~ Hot(w.file)
    BY <1>1, <1>7, HeaderWritten, Units
  <2> QED BY <1>1, <1>5, <1>7, <2>1, JournalFails
<1>8. CASE w.ok /\ w.file = Put(j, 1, u)
  <2> DEFINE g == Put(j, 1, u)
  <2>1. g \in File /\ Hot(g) /\ g.at[1] = u /\ g.there
    BY <1>1, <1>4, HeaderWritten
  <2>2. jr' \in [Dir -> File] /\ jr'[Home] = g
    BY <1>5, <1>8, <2>1, AtHome, DirAssumption
  <2>3. pc' = "page" /\ k' = 1 /\ n' = n /\ UNCHANGED <<dbf, cwd, jdir, want, committed>>
    BY <1>5, <1>8 DEF GoesAt
  <2>4. TypeOK'
    BY <1>3, <2>2, <2>3, PagesAssumption DEF TypeOK, PC
  <2>5. /\ n < g.len
        /\ \A i \in 1 .. n : Saved(j, i, committed) => Saved(g, i, committed)
        /\ \A p : Covered(j, n, p) => Covered(g, n, p)
    <3>1. 1 \in Place /\ 1 \notin 2 .. n + 1
      BY PagesAssumption DEF Place
    <3> QED BY <1>1, <1>2, <1>3, <1>4, <3>1, JournalKept
  <2> HIDE DEF g
  <2>6. Undoes(dbf, g, n, committed)
    <3>1. \A p \in 1 .. committed.len : ~ Differs(dbf, committed, p)
      BY <1>1, <1>3 DEF Same, Differs
    <3> QED BY <1>2, <1>3, <2>5, <3>1 DEF Undoes
  <2>7. OnDisk(dbf', jr'[Home], committed')
    BY <1>1, <1>3, <1>4, <2>1, <2>2, <2>3, <2>6 DEF OnDisk, Same
  <2>8. \A p \in 1 .. committed.len : Differs(want, committed, p) => Covered(g, n, p)
    BY <1>1, <1>2, <1>3, <2>5 DEF Changes, Differs, Same
  <2>9. Writing(jr[Home])'
    <3>1. 1 <= want.len + 1 /\ 1 .. k' - 1 = {}
      BY <1>3, <2>3 DEF Page
    <3>2. \A p \in 1 .. committed.len : Differs(want, committed, p)' => Covered(jr[Home], n, p)'
      BY <2>2, <2>3, <2>8 DEF Differs, Covered
    <3>3. Hot(jr[Home])' /\ jr'[Home].at[1].recs = n
      BY <1>4, <2>1, <2>2 DEF Hot
    <3> QED BY <2>3, <3>1, <3>2, <3>3 DEF Writing
  <2>10. (Saving(jr[Home]) /\ Playing(jr[Home]) /\ Ending(jr[Home]))'
    BY <1>1, <2>1, <2>2, <2>3 DEF Saving, Playing, Ending
  <2> QED BY <1>1, <2>3, <2>4, <2>7, <2>9, <2>10, OnDiskNext DEF Present
<1> QED BY <1>5, <1>6, <1>7, <1>8 DEF Write

\* what holds while the pages are written
LEMMA InPages ==
  ASSUME Stays, IInv, pc = "page"
  PROVE  /\ jr[Home].there /\ Hot(jr[Home]) /\ want \in Contents /\ want.len \in Page
         /\ jr[Home].at[1].recs = n /\ jr[Home].at[1].pages = committed.len
         /\ Undoes(dbf, jr[Home], n, committed)
         /\ committed.len \in 0 .. MaxPages /\ dbf.len \in 0 .. MaxPages
         /\ committed.len > 0 => dbf.len > 0
         /\ k \in 1 .. want.len + 1 /\ n \in 0 .. MaxPages /\ dbf \in DbFile /\ dbf.there
         /\ \A p \in 1 .. committed.len : Differs(want, committed, p) => Covered(jr[Home], n, p)
         /\ \A p \in 1 .. k - 1 : p <= dbf.len /\ dbf.at[p] = want.at[p]
<1> USE DEF IInv
<1>1. Hot(jr[Home]) /\ jr[Home].at[1].recs = n /\ k <= want.len + 1
  BY DEF Writing
<1>2. want \in Contents /\ want.len \in Page
  BY Typed DEF Ending
<1> QED BY <1>1, <1>2, Typed DEF Writing, Ending, OnDisk, Present, TypeOK, Page

\* a database that the journal still undoes, when the write of it has failed
LEMMA PageFails ==
  ASSUME Stays, IInv, pc = "page", jr' = jr, Goes("playhdr"),
         dbf' \in DbFile, dbf'.there, committed.len > 0 => dbf'.len > 0,
         Undoes(dbf', jr[Home], n, committed)
  PROVE  IInv'
<1> USE DEF IInv
<1>1. TypeOK'
  BY DEF TypeOK, Goes, PC
<1>2. OnDisk(dbf', jr'[Home], committed')
  BY InPages DEF OnDisk, Goes
<1> QED BY <1>1, <1>2, InPages, OnlyDisk DEF Goes, Present

\* a page of the transaction's that is still to be written can be undone
LEMMA WantedCovered ==
  ASSUME Stays, IInv, pc = "page", k <= want.len, k \in 1 .. committed.len,
         k > dbf.len \/ want.at[k] # dbf.at[k]
  PROVE  Covered(jr[Home], n, k)
<1>1. CASE Differs(want, committed, k)
  BY <1>1, InPages
<1>2. CASE ~ Differs(want, committed, k)
  BY <1>2, InPages DEF Differs, Undoes
<1> QED BY <1>1, <1>2

LEMMA WritePageStep == ASSUME Stays, IInv, WritePage PROVE IInv'
<1> USE DEF IInv
<1> DEFINE j == jr[Home]
           v == want.at[k]
<1>1. pc = "page" /\ k <= want.len /\ jr' = jr
  BY DEF WritePage, Db
<1>2. /\ k \in Page /\ k \in Place /\ want.len \in Page /\ dbf \in DbFile /\ dbf.there
      /\ dbf.len \in 0 .. MaxPages /\ committed.len \in 0 .. MaxPages /\ n \in 0 .. MaxPages
  BY <1>1, InPages, PagesAssumption DEF Page, Place
<1>3. v \in Held
  BY <1>1, <1>2, InPages, ContentFacts
<1>4. CASE /\ ~ (k > dbf.len \/ want.at[k] # dbf.at[k])
           /\ UNCHANGED <<dbf, jr>> /\ GoesAt("page", k + 1, n)
  <2>1. pc' = "page" /\ k' = k + 1 /\ n' = n /\ UNCHANGED <<dbf, jr, cwd, jdir, want, committed>>
    BY <1>4 DEF GoesAt
  <2>2. TypeOK'
    BY <1>2, <2>1, PagesAssumption DEF TypeOK, PC, Page
  <2>3. \A p \in 1 .. k : p <= dbf.len /\ dbf.at[p] = want.at[p]
    BY <1>1, <1>2, <1>4, InPages DEF Page
  <2>4. Writing(jr[Home])'
    BY <1>1, <1>2, <2>1, <2>3, InPages DEF Writing, Hot, Differs, Covered, Page
  <2>5. (Saving(jr[Home]) /\ Playing(jr[Home]) /\ Ending(jr[Home]))'
    BY <1>1, <2>1 DEF Saving, Playing, Ending
  <2> QED BY <1>2, <2>1, <2>2, <2>4, <2>5, OnDiskNext DEF Present
<1>5. CASE k > dbf.len \/ want.at[k] # dbf.at[k]
  <2>1. PICK w \in Write(dbf, k, v) :
          dbf' = w.file /\ IF w.ok THEN GoesAt("page", k + 1, n) ELSE Goes("playhdr")
    BY <1>1, <1>5 DEF WritePage, Db
  <2> HIDE DEF v
  <2>2. k \in 1 .. committed.len => Covered(j, n, k)
    BY <1>1, <1>5, WantedCovered
  <2>3. ASSUME NEW x \in Held \cup {Torn}
        PROVE  /\ Undoes(Put(dbf, k, x), j, n, committed)
               /\ Put(dbf, k, x) \in DbFile /\ Put(dbf, k, x).there
               /\ Put(dbf, k, x).len > 0
               /\ Put(dbf, k, x).len = IF k > dbf.len THEN k ELSE dbf.len
               /\ \A m \in Place : Put(dbf, k, x).at[m] = IF m = k THEN x ELSE dbf.at[m]
    <3>1. Undoes(Put(dbf, k, x), j, n, committed)
      BY <1>1, <1>2, <2>2, InPages, WrittenUndone
    <3>2. /\ Put(dbf, k, x) \in DbFile /\ Put(dbf, k, x).there = dbf.there
          /\ Put(dbf, k, x).len = IF k > dbf.len THEN k ELSE dbf.len
          /\ \A m \in Place : Put(dbf, k, x).at[m] = IF m = k THEN x ELSE dbf.at[m]
      <4>1. dbf \in DbFile /\ k \in Page /\ x \in Held \cup {Torn}
        BY <1>2
      <4> QED BY <4>1, PutDb
    <3>3. Put(dbf, k, x).len > 0
      BY <1>2, <3>2 DEF Page
    <3> QED BY <1>2, <3>1, <3>2, <3>3
  <2>4. CASE ~ w.ok /\ w.file = dbf
    BY <1>1, <2>1, <2>4, InPages, PageFails
  <2>5. CASE ~ w.ok /\ w.file = Put(dbf, k, Torn)
    BY <1>1, <2>1, <2>3, <2>5, PageFails
  <2>6. CASE w.ok /\ w.file = Put(dbf, k, v)
    <3>1. /\ dbf' = Put(dbf, k, v) /\ pc' = "page" /\ k' = k + 1 /\ n' = n
          /\ UNCHANGED <<jr, cwd, jdir, want, committed>>
      BY <1>1, <2>1, <2>6 DEF GoesAt
    <3>2. /\ Undoes(dbf', j, n, committed) /\ dbf' \in DbFile /\ dbf'.there /\ dbf'.len > 0
          /\ dbf'.len = IF k > dbf.len THEN k ELSE dbf.len
          /\ \A m \in Place : dbf'.at[m] = IF m = k THEN v ELSE dbf.at[m]
      BY <1>3, <2>3, <3>1
    <3>3. TypeOK'
      BY <1>2, <3>1, <3>2, PagesAssumption DEF TypeOK, PC, Page
    <3>4. OnDisk(dbf', jr'[Home], committed')
      BY <1>1, <3>1, <3>2, InPages DEF OnDisk
    <3>5. ASSUME NEW p \in 1 .. k
          PROVE  p <= dbf'.len /\ dbf'.at[p] = want.at[p]
      <4>1. p \in Place
        BY <1>2, PagesAssumption DEF Page, Place
      <4>2. CASE p = k
        BY <1>2, <3>2, <4>1, <4>2 DEF v, Page
      <4>3. CASE p # k
        BY <1>1, <1>2, <3>2, <4>1, <4>3, InPages DEF Page
      <4> QED BY <4>2, <4>3
    <3>6. Writing(jr[Home])'
      <4>1. \A p \in 1 .. k' - 1 : p <= dbf'.len /\ dbf'.at[p] = want'.at[p]
        BY <1>2, <3>1, <3>5 DEF Page
      <4>2. \A p \in 1 .. committed.len : Differs(want, committed, p)' => Covered(jr[Home], n, p)'
        BY <1>1, <3>1, InPages DEF Differs, Covered
      <4>3. Hot(jr[Home])' /\ jr'[Home].at[1].recs = n' /\ k' <= want'.len + 1
        BY <1>1, <1>2, <3>1, InPages DEF Hot, Page
      <4> QED BY <3>1, <4>1, <4>2, <4>3 DEF Writing
    <3>7. (Saving(jr[Home]) /\ Playing(jr[Home]) /\ Ending(jr[Home]))'
      BY <1>1, <3>1 DEF Saving, Playing, Ending
    <3> QED BY <3>1, <3>2, <3>3, <3>4, <3>6, <3>7, OnDiskNext DEF Present
  <2> QED BY <2>1, <2>4, <2>5, <2>6 DEF Write
<1> QED BY <1>4, <1>5 DEF WritePage

LEMMA ShortenStep == ASSUME Stays, IInv, Shorten PROVE IInv'
<1> USE DEF IInv
<1> DEFINE j == jr[Home]
<1>1. pc = "page" /\ k > want.len /\ jr' = jr
  BY DEF Shorten, Db
<1>2. /\ want.len \in Page /\ want.len \in 0 .. MaxPages /\ dbf \in DbFile /\ dbf.there
      /\ dbf.len \in 0 .. MaxPages /\ committed.len \in 0 .. MaxPages /\ k = want.len + 1
  BY <1>1, InPages DEF Page
<1>3. \A p \in 1 .. want.len : p <= dbf.len /\ dbf.at[p] = want.at[p]
  BY <1>1, <1>2, InPages
<1>4. want.len <= dbf.len
  BY <1>2, <1>3 DEF Page
<1>5. ASSUME dbf' \in DbFile, dbf'.there, Same(dbf', want), Undoes(dbf', j, n, committed),
             Goes("commit")
      PROVE  IInv'
  <2>1. pc' = "commit" /\ UNCHANGED <<cwd, jdir, want, k, n, committed>>
    BY <1>5 DEF Goes
  <2>2. TypeOK'
    BY <1>1, <1>5, <2>1 DEF TypeOK, PC
  <2>3. dbf'.len > 0
    BY <1>2, <1>5 DEF Same, Page
  <2>4. OnDisk(dbf', jr'[Home], committed')
    BY <1>1, <1>5, <2>1, <2>3, InPages DEF OnDisk
  <2>5. (Saving(jr[Home]) /\ Writing(jr[Home]) /\ Playing(jr[Home]))'
    BY <2>1 DEF Saving, Writing, Playing
  <2>6. Ending(jr[Home])'
    BY <1>1, <1>5, <2>1, InPages DEF Ending, Same
  <2> QED BY <1>5, <2>1, <2>2, <2>4, <2>5, <2>6, OnDiskNext DEF Present
<1>6. CASE dbf.len > want.len
  <2>1. PICK t \in Truncate(dbf, want.len) :
          dbf' = t.file /\ Goes(IF t.ok THEN "commit" ELSE "playhdr")
    BY <1>1, <1>6 DEF Shorten, Db
  <2>2. CASE ~ t.ok /\ t.file = dbf
    BY <1>1, <1>2, <2>1, <2>2, InPages, PageFails
  <2>3. CASE t.ok /\ t.file = Resized(dbf, want.len)
    <3>1. /\ dbf' \in DbFile /\ dbf'.there /\ dbf'.len = want.len
          /\ \A m \in Place : m <= want.len /\ m <= dbf.len => dbf'.at[m] = dbf.at[m]
      BY <1>2, <2>1, <2>3, ResizedDb
    <3>2. Same(dbf', want)
      BY <1>2, <1>3, <1>4, <3>1, PagesAssumption DEF Same, Page, Place
    <3>3. \A p \in 1 .. committed.len : p > want.len => Covered(j, n, p)
      BY <1>1, InPages DEF Differs
    <3>4. Undoes(dbf', j, n, committed)
      BY <1>1, <1>2, <2>1, <2>3, <3>3, InPages, ResizedUndone
    <3> QED BY <1>5, <2>1, <2>3, <3>1, <3>2, <3>4
  <2> QED BY <2>1, <2>2, <2>3 DEF Truncate
<1>7. CASE ~ (dbf.len > want.len)
  <2>1. Same(dbf, want)
    BY <1>2, <1>3, <1>4, <1>7 DEF Same, Page
  <2> QED BY <1>1, <1>2, <1>5, <1>7, <2>1, InPages DEF Shorten
<1> QED BY <1>6, <1>7

LEMMA CommitStep == ASSUME Stays, IInv, Commit PROVE IInv'
<1> USE DEF IInv
<1>1. pc = "commit" /\ dbf' = dbf /\ dbf.there /\ Rests(want) /\ Same(dbf, want)
      /\ want \in Contents
  BY DEF Commit, Ending, Present
<1>2. jr' \in [Dir -> File] /\ ~ Hot(jr'[Home])
  BY JournalDeleted DEF Commit
<1> QED BY <1>1, <1>2, AtRest DEF TypeOK

LEMMA ProgramStep ==
  ASSUME Stays, IInv, Rollback \/ (\E d \in Dir : Chdir(d)) \/ Restart
  PROVE  IInv'
<1> USE DEF IInv
<1>1. CASE Rollback
  <2>1. /\ pc = "rec" /\ pc' = "playhdr"
        /\ UNCHANGED <<dbf, jr, cwd, jdir, want, k, n, committed>>
    BY <1>1 DEF Rollback, Goes
  <2>2. TypeOK'
    BY <2>1 DEF TypeOK, PC
  <2>3. OnDisk(dbf', jr'[Home], committed') /\ jr'[Home].there
    BY <2>1 DEF Ending
  <2> QED BY <2>1, <2>2, <2>3, OnlyDisk DEF Present
<1>2. CASE \E d \in Dir : Chdir(d)
  <2>1. /\ cwd' \in Dir
        /\ UNCHANGED <<dbf, jr, pc, jdir, want, k, n, committed>>
    BY <1>2 DEF Chdir
  <2>2. TypeOK' /\ Present'
    BY <2>1 DEF TypeOK, Present
  <2>3. OnDisk(dbf', jr'[Home], committed')
    BY <2>1
  <2>4. (Saving(jr[Home]) /\ Writing(jr[Home]) /\ Playing(jr[Home]) /\ Ending(jr[Home]))'
    <3>1. Saving(jr[Home])'
      BY <2>1 DEF Saving, Hot, Same, Saved, Covered, Changes
    <3>2. Writing(jr[Home])'
      BY <2>1 DEF Writing, Hot, Covered, Differs
    <3>3. (Playing(jr[Home]) /\ Ending(jr[Home]))'
      BY <2>1 DEF Playing, Ending, Hot, Same
    <3> QED BY <3>1, <3>2, <3>3
  <2> QED BY <2>2, <2>3, <2>4, OnDiskNext
<1>3. CASE Restart
  <2>1. /\ pc' = "shut" /\ cwd' = Home /\ jdir' = Home /\ want' = Empty /\ k' = 1 /\ n' = 0
        /\ UNCHANGED <<dbf, jr, committed>>
    BY <1>3 DEF Restart
  <2>2. TypeOK'
    BY <2>1, DirAssumption, PagesAssumption DEF TypeOK, PC
  <2>3. OnDisk(dbf', jr'[Home], committed')
    BY <2>1
  <2> QED BY <2>1, <2>2, <2>3, OnlyDisk DEF Present
<1> QED BY <1>1, <1>2, <1>3

LEMMA StutterStep == ASSUME IInv, UNCHANGED vars PROVE IInv'
<1> USE DEF IInv, vars
<1>1. TypeOK' /\ Present'
  BY DEF TypeOK, Present
<1>2. OnDisk(dbf, jr[Home], committed)'
  BY OnDiskNext
<1>3. (Saving(jr[Home]) /\ Writing(jr[Home]) /\ Playing(jr[Home]) /\ Ending(jr[Home]))'
  <2>1. Saving(jr[Home])'
    BY DEF Saving, Hot, Same, Saved, Covered, Changes
  <2>2. Writing(jr[Home])'
    BY DEF Writing, Hot, Covered, Differs
  <2>3. (Playing(jr[Home]) /\ Ending(jr[Home]))'
    BY DEF Playing, Ending, Hot, Same
  <2> QED BY <2>1, <2>2, <2>3
<1> QED BY <1>1, <1>2, <1>3

-----------------------------------------------------------------------------
(* Theorems *)

LEMMA Initially == Init => IInv
<1> SUFFICES ASSUME Init PROVE IInv
  OBVIOUS
<1>1. /\ dbf = Gone /\ jr[Home] = Gone /\ committed = Empty /\ pc = "shut" /\ jdir = Home
  BY DirAssumption DEF Init
<1>2. TypeOK
  BY EmptyFiles, DirAssumption, PagesAssumption DEF Init, TypeOK, PC
<1>3. OnDisk(dbf, jr[Home], committed)
  BY <1>1, EmptyFiles DEF OnDisk, Hot, Same
<1> QED BY <1>1, <1>2, <1>3, EmptyFiles DEF IInv, Present, Saving, Writing, Playing, Ending

LEMMA Kept == ASSUME Stays, IInv, [Next]_vars PROVE IInv'
<1>1. CASE Open \/ NoJournal \/ EmptyDatabase \/ ColdJournal \/ HotJournal
  BY <1>1, OpenStep, CheckStep, HotStep
<1>2. CASE PlayHeader \/ PlayRecord \/ PlayDone \/ PlayEnd
  BY <1>2, PlayHeaderStep, PlayRecordStep, PlayDoneStep, PlayEndStep
<1>3. CASE \E w \in Contents : Begin(w)
  BY <1>3, BeginStep
<1>4. CASE WriteHeader \/ SavePage \/ WriteCount \/ WritePage \/ Shorten \/ Commit
  BY <1>4, WriteHeaderStep, SavePageStep, WriteCountStep, WritePageStep, ShortenStep, CommitStep
<1>5. CASE Rollback \/ (\E d \in Dir : Chdir(d)) \/ Restart
  BY <1>5, ProgramStep
<1>6. CASE UNCHANGED vars
  BY <1>6, StutterStep
<1> QED BY <1>1, <1>2, <1>3, <1>4, <1>5, <1>6 DEF Next

\* Whatever writes, reads and playbacks fail, and whenever the program is cut
\* off, SQLite reads the database as the last committed transaction left it,
\* for any number of pages and contents, if the program does not change its
\* directory and no unlink() fails.
THEOREM CommitsAtomically ==
  ASSUME Stays
  PROVE  Spec => []Atomic
<1>1. IInv => Atomic
  BY DEF IInv, Atomic, Ending, OnDisk
<1>2. IInv /\ [Next]_vars => IInv'
  BY Kept
<1> QED BY Initially, <1>1, <1>2, PTL DEF Spec

\* Under the same conditions no journal is left beside a database at rest that
\* the next start would play back.
THEOREM CommitsForGood ==
  ASSUME Stays
  PROVE  Spec => []NothingToUndo
<1>1. IInv => NothingToUndo
  BY DEF IInv, NothingToUndo, Ending
<1>2. IInv /\ [Next]_vars => IInv'
  BY Kept
<1> QED BY Initially, <1>1, <1>2, PTL DEF Spec

=============================================================================
