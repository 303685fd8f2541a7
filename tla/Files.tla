------------------------------- MODULE Files -------------------------------
(***************************************************************************)
(* The files of port/ext4_shim.c: 32 slots, each an lwext4 file or         *)
(* directory with the text of the path it was opened under, a working      *)
(* directory that is a text too, and a file system underneath.             *)
(*                                                                         *)
(* lwext4 is outside the port.  It keeps an offset and a size in every     *)
(* ext4_file, frees a file with its name whether it is open or not, and    *)
(* removes directories recursively.  It may fail to create, to remove or   *)
(* to move a name, which it then leaves as it was; reading and writing a   *)
(* file's bytes does not fail here.                                        *)
(*                                                                         *)
(* The program is one that leaves alone what it has open: it does not      *)
(* unlink or rename it, or a directory above it, does not change a         *)
(* directory it is in the middle of listing, and has no second descriptor  *)
(* on a file it writes.  It writes each path one way (no "." in it), and   *)
(* moves no directory below itself.  One thread; symbolic links and time   *)
(* stamps are left out.                                                    *)
(***************************************************************************)
EXTENDS Integers, FiniteSets, SequencesExt

CONSTANTS
  MaxOpen,      \* EXT4_SHIM_MAX_OPEN
  Name,         \* names of directory entries
  MaxDepth,     \* bound: levels of the tree below the root
  MaxIno,       \* bound: inodes, the root's included
  MaxSize       \* bound: bytes in a file, and offsets

ASSUME OpenAssumption == MaxOpen \in Nat \ {0}
ASSUME BoundAssumption == MaxDepth \in Nat \ {0} /\ MaxIno \in Nat \ {0} /\ MaxSize \in Nat

VARIABLES
  fs,      \* the file system: what each path leads to, and the inodes
  files,   \* files[]
  cwd,     \* cwd[]
  ret      \* what the last call returned: "ok", "fail", or "underflow"

vars == <<fs, files, cwd, ret>>

Slot == 1 .. MaxOpen
Ino == 1 .. MaxIno
Root == 1
NoIno == 0

\* A path is the sequence of its names; relative ones as well.
Path == BoundedSeq(Name, MaxDepth)
Below == [p \in Path |-> {q \in Path : IsPrefix(p, q)}]
Entries == [p \in Path |-> {q \in Below[p] : Len(q) = Len(p) + 1}]

\* A path argument: any absolute path, or one name below AT_FDCWD or a slot
AtFdcwd == 0
In == [abs : {TRUE}, comps : Path, dirfd : {AtFdcwd}]
      \cup [abs : {FALSE}, comps : {<<n>> : n \in Name}, dirfd : Slot \cup {AtFdcwd}]

\* The modes of fopen(): r, w, a
Modes == {{}, {"wr", "creat", "trunc"}, {"wr", "creat", "append"}}

Unused == [used |-> FALSE, isDir |-> FALSE, wr |-> FALSE, ino |-> NoIno,
           fpos |-> 0, fsize |-> 0, path |-> <<>>,
           next |-> 0,                    \* the iterator: entries it has passed
           given |-> <<>>, lost |-> {}]   \* those delivered; those -EINVAL met

Init ==
  /\ fs = [at |-> [p \in Path |-> IF p = <<>> THEN Root ELSE NoIno],
           isDir |-> [i \in Ino |-> i = Root],
           size |-> [i \in Ino |-> 0]]
  /\ files = [s \in Slot |-> Unused]
  /\ cwd = <<>>
  /\ ret = "ok"

-----------------------------------------------------------------------------
(* lwext4 on a file system f *)

LookDir(f, p) == f.at[p] # NoIno /\ f.isDir[f.at[p]]

\* the inodes at p and below, and those in the directory p
Tree(f, p) == {f.at[q] : q \in Below[p]} \ {NoIno}
Kids(f, p) == {f.at[q] : q \in Entries[p]} \ {NoIno}

FreeInos(f) == Ino \ Tree(f, <<>>)

\* ext4_fremove(), ext4_dir_rm(): the name goes, and all that is below it
Removed(f, p) ==
  [at |-> [q \in Path |-> IF q \in Below[p] THEN NoIno ELSE f.at[q]],
   isDir |-> [i \in Ino |-> f.isDir[i] /\ i \notin Tree(f, p)],
   size |-> [i \in Ino |-> IF i \in Tree(f, p) THEN 0 ELSE f.size[i]]]

CanCreate(f, p) == f.at[p] = NoIno /\ LookDir(f, Front(p))

\* a new inode at p, the lowest free one
Created(f, p, isDir) ==
  LET i == Min(FreeInos(f)) IN [f EXCEPT !.at[p] = i, !.isDir[i] = isDir]

\* ext4_frename() refuses an existing destination.
CanMove(f, op, np) == f.at[op] # NoIno /\ CanCreate(f, np)
Target(op, np, q) == np \o SubSeq(q, Len(op) + 1, Len(q))
Moved(f, op, np) ==
  [f EXCEPT !.at = [q \in Path |->
     IF \E r \in Below[op] : Target(op, np, r) = q
       THEN f.at[Target(np, op, q)]
       ELSE IF q \in Below[op] THEN NoIno ELSE f.at[q]]]

-----------------------------------------------------------------------------
(* Helpers *)

\* ext4_shim_resolve(): the paths it gives for an argument, none being -EBADF
Resolved(in) ==
  IF in.abs THEN {in.comps}
  ELSE IF in.dirfd = AtFdcwd THEN {cwd \o in.comps}
  ELSE IF files[in.dirfd].used /\ files[in.dirfd].isDir
    THEN {files[in.dirfd].path \o in.comps}
    ELSE {}

\* What is open is left alone.
OpenOn(I) == \E s \in Slot : files[s].used /\ files[s].ino \in I
Untouched(p) == ~ OpenOn(Tree(fs, p)) /\ cwd \notin Below[p]
NotListed(p) == \A s \in Slot : files[s].ino = fs.at[p] => files[s].next = 0
MayOpen(i, wr) == \A s \in Slot : files[s].ino = i => ~ wr /\ ~ files[s].wr

Fails == ret' = "fail" /\ UNCHANGED <<fs, files, cwd>>
Does(f) == ret' = "ok" /\ fs' = f /\ UNCHANGED <<files, cwd>>

-----------------------------------------------------------------------------
(* Descriptors *)

FreeSlots == {s \in Slot : ~ files[s].used}

\* Mutant of Opened: the path is kept as the caller wrote it
OpenedAsWritten(in, p) == in.comps

\* the path an open file remembers
Opened(in, p) == p

\* ext4_shim_open() for one of Modes.  A new or truncated file is what
\* ext4_fopen2() makes of it.
OpenDir(in, p, flags, s) ==
  /\ LookDir(fs, p)
  /\ IF "wr" \in flags
       THEN Fails
       ELSE /\ files' = [files EXCEPT ![s] =
                 [Unused EXCEPT !.used = TRUE, !.isDir = TRUE, !.ino = fs.at[p],
                                !.path = Opened(in, p)]]
            /\ ret' = "ok"
            /\ UNCHANGED <<fs, cwd>>

OpenFile(in, p, flags, s) ==
  LET new == fs.at[p] = NoIno
      f == IF new THEN Created(fs, p, FALSE) ELSE fs
      i == f.at[p]
      z == IF "trunc" \in flags THEN 0 ELSE f.size[i] IN
  /\ ~ LookDir(fs, p)
  /\ IF new /\ ~ ("creat" \in flags /\ CanCreate(fs, p))
       THEN Fails
       ELSE /\ IF new
                 THEN FreeInos(fs) # {} /\ NotListed(Front(p))
                 ELSE MayOpen(fs.at[p], "wr" \in flags)
            /\ fs' = [f EXCEPT !.size[i] = z]
            /\ files' = [files EXCEPT ![s] =
                 [Unused EXCEPT !.used = TRUE, !.wr = "wr" \in flags, !.ino = i,
                    !.fsize = z, !.fpos = IF "append" \in flags THEN z ELSE 0,
                    !.path = Opened(in, p)]]
            /\ ret' = "ok"
            /\ UNCHANGED cwd

Open(in, flags) ==
  \/ Resolved(in) = {} /\ Fails
  \/ FreeSlots = {} /\ Fails
  \/ Resolved(in) # {} /\ Fails          \* lwext4's own failure
  \/ \E p \in Resolved(in) \cap Path : FreeSlots # {} /\
       \/ OpenDir(in, p, flags, Min(FreeSlots))
       \/ OpenFile(in, p, flags, Min(FreeSlots))

Close(s) ==
  /\ files[s].used
  /\ files' = [files EXCEPT ![s] = Unused]
  /\ ret' = "ok"
  /\ UNCHANGED <<fs, cwd>>

\* ext4_shim_read()'s own test for the end of the file
ReadAtEnd(s) == files[s].fpos >= files[s].fsize

\* ext4_shim_read() of n bytes.  ext4_fread() works out what is left as
\* fsize - fpos, which is unsigned.
Read(s, n) ==
  /\ files[s].used
  /\ IF files[s].isDir
       THEN ret' = "fail" /\ UNCHANGED files
       ELSE LET left == files[s].fsize - files[s].fpos
                more == IF ReadAtEnd(s) THEN 0 ELSE Min({n, left}) IN
            /\ files' = [files EXCEPT ![s].fpos = @ + more]
            /\ ret' = IF more < 0 THEN "underflow" ELSE "ok"
  /\ UNCHANGED <<fs, cwd>>

\* ext4_shim_write() of n bytes.  lwext4 refuses a file opened to be read.
Write(s, n) ==
  /\ files[s].used
  /\ IF files[s].isDir \/ ~ files[s].wr
       THEN Fails
       ELSE LET end == files[s].fpos + n
                z == Max({end, files[s].fsize}) IN
            /\ end <= MaxSize
            /\ fs' = [fs EXCEPT !.size[files[s].ino] = z]
            /\ files' = [files EXCEPT ![s].fpos = end, ![s].fsize = z]
            /\ ret' = "ok"
            /\ UNCHANGED cwd

\* ext4_ftruncate() may bring the offset back to the end.
Truncate(s, z) ==
  /\ files[s].used
  /\ IF files[s].isDir \/ ~ files[s].wr
       THEN Fails
       ELSE /\ fs' = [fs EXCEPT !.size[files[s].ino] = z]
            /\ \E pos \in {files[s].fpos, Min({z, files[s].fpos})} :
                 files' = [files EXCEPT ![s].fsize = z, ![s].fpos = pos]
            /\ ret' = "ok"
            /\ UNCHANGED cwd

\* ext4_shim_lseek(): past the end it sets the offset itself.  A directory can
\* only be rewound.
LseekDir(s, whence, off) ==
  /\ files[s].used /\ files[s].isDir
  /\ IF off = 0 /\ whence = "SET"
       THEN /\ files' = [files EXCEPT ![s].next = 0, ![s].given = <<>>, ![s].lost = {}]
            /\ ret' = "ok"
            /\ UNCHANGED <<fs, cwd>>
       ELSE Fails

LseekFile(s, whence, off) ==
  LET target == off + CASE whence = "SET" -> 0
                        [] whence = "CUR" -> files[s].fpos
                        [] whence = "END" -> files[s].fsize IN
  /\ files[s].used /\ ~ files[s].isDir
  /\ target <= MaxSize
  /\ IF target < 0
       THEN Fails
       ELSE /\ files' = [files EXCEPT ![s].fpos = target]
            /\ ret' = "ok"
            /\ UNCHANGED <<fs, cwd>>

\* Mutant of PutBack: the entry that did not fit is not put back
PutBackNot(next, n, room) == Min({n, next + room + 1})

\* Where a call that has delivered what it had room for leaves the iterator of
\* a directory of n entries: the one that did not fit is put back.
PutBack(next, n, room) == Min({n, next + room})

\* ext4_shim_getdents() with room for so many entries, in the order of the
\* directory.  A buffer too small for the first is -EINVAL, and that entry is
\* not put back.
Getdents(s, room) ==
  LET n == Cardinality(Kids(fs, files[s].path))
      next == files[s].next
      fits == Min({n - next, room}) IN
  /\ files[s].used
  /\ \/ ~ files[s].isDir /\ Fails
     \/ /\ files[s].isDir /\ room = 0 /\ next < n
        /\ files' = [files EXCEPT ![s].next = next + 1, ![s].lost = @ \cup {next + 1}]
        /\ ret' = "fail"
        /\ UNCHANGED <<fs, cwd>>
     \/ /\ files[s].isDir /\ (room > 0 \/ next = n)
        /\ files' = [files EXCEPT ![s].next = PutBack(next, n, room),
                                 ![s].given = @ \o [i \in 1 .. fits |-> next + i]]
        /\ ret' = "ok"
        /\ UNCHANGED <<fs, cwd>>

-----------------------------------------------------------------------------
(* Names *)

\* a name at p that may go, nobody having it open
MayGo(p) == Untouched(p) /\ NotListed(Front(p))

Unlink(in) ==
  \/ Resolved(in) = {} /\ Fails
  \/ \E p \in Resolved(in) \cap Path :
       IF LookDir(fs, p) \/ fs.at[p] = NoIno
         THEN Fails
         ELSE MayGo(p) /\ (Does(Removed(fs, p)) \/ Fails)

Mkdir(in) ==
  \/ Resolved(in) = {} /\ Fails
  \/ \E p \in Resolved(in) \cap Path :
       IF ~ CanCreate(fs, p)
         THEN Fails
         ELSE /\ FreeInos(fs) # {} /\ NotListed(Front(p))
              /\ Does(Created(fs, p, TRUE)) \/ Fails

\* ext4_shim_dir_is_empty()
IsEmpty(p) == Kids(fs, p) = {}

\* Mutant of RmdirRefuses: a directory with entries goes too
RmdirRefusesNot(p) == ~ LookDir(fs, p)

RmdirRefuses(p) == ~ LookDir(fs, p) \/ ~ IsEmpty(p)

Rmdir(in) ==
  \/ Resolved(in) = {} /\ Fails
  \/ \E p \in Resolved(in) \cap Path :
       IF RmdirRefuses(p)
         THEN Fails
         ELSE MayGo(p) /\ (Does(Removed(fs, p)) \/ Fails)

\* Mutant of Refuses: the target directory need not be empty
RefusesTypesOnly(op, np) ==
  fs.at[np] # NoIno /\ (LookDir(fs, np) # LookDir(fs, op))

\* what rename() does not let replace one another
Refuses(op, np) ==
  \/ LookDir(fs, np) /\ (~ LookDir(fs, op) \/ ~ IsEmpty(np))
  \/ ~ LookDir(fs, np) /\ fs.at[np] # NoIno /\ LookDir(fs, op)

\* the program's side of rename(): what moves is not in use, does not move
\* below itself, and fits the bound
MayMove(op, np) ==
  /\ MayGo(op)
  /\ fs.at[np] # NoIno => MayGo(np)
  /\ NotListed(Front(np))
  /\ np \notin Below[op]
  /\ \A q \in Below[op] : fs.at[q] # NoIno => Target(op, np, q) \in Path

\* ext4_shim_rename(): an existing target is removed, then ext4_frename().
\* Either may fail, the second when the target is gone.
Rename(from, to) ==
  \/ (Resolved(from) = {} \/ Resolved(to) = {}) /\ Fails
  \/ \E op \in Resolved(from) \cap Path, np \in Resolved(to) \cap Path :
       \/ fs.at[op] = NoIno /\ Fails
       \/ fs.at[op] # NoIno /\ op = np /\ Does(fs)
       \/ fs.at[op] # NoIno /\ op # np /\ Refuses(op, np) /\ Fails
       \/ /\ fs.at[op] # NoIno /\ op # np /\ ~ Refuses(op, np)
          /\ MayMove(op, np)
          /\ LET f == IF fs.at[np] = NoIno THEN fs ELSE Removed(fs, np) IN
             \/ Fails
             \/ ret' = "fail" /\ fs' = f /\ UNCHANGED <<files, cwd>>
             \/ CanMove(f, op, np) /\ Does(Moved(f, op, np))

\* ext4_shim_chdir() knows no directory but the current one.
Chdir(in) ==
  \E p \in Resolved([in EXCEPT !.dirfd = AtFdcwd]) \cap Path :
    IF LookDir(fs, p)
      THEN cwd' = p /\ ret' = "ok" /\ UNCHANGED <<fs, files>>
      ELSE Fails

Fchdir(s) ==
  IF files[s].used /\ files[s].isDir
    THEN cwd' = files[s].path /\ ret' = "ok" /\ UNCHANGED <<fs, files>>
    ELSE Fails

-----------------------------------------------------------------------------

Named ==
  \E in \in In :
    \/ \E flags \in Modes : Open(in, flags)
    \/ Unlink(in) \/ Mkdir(in) \/ Rmdir(in) \/ Chdir(in)
    \/ \E to \in {t \in In : t.abs} : Rename(in, to)    \* bound: `to` is absolute

OnDescriptor ==
  \E s \in Slot :
    \/ Close(s) \/ Fchdir(s)
    \/ \E n \in 1 .. MaxSize : Read(s, n) \/ Write(s, n)
    \/ \E room \in 0 .. MaxSize : Getdents(s, room)
    \/ \E z \in 0 .. MaxSize : Truncate(s, z)
    \/ \E whence \in {"SET", "CUR", "END"}, off \in -MaxSize .. MaxSize :
         LseekDir(s, whence, off) \/ LseekFile(s, whence, off)

Next == Named \/ OnDescriptor

Spec == Init /\ [][Next]_vars

-----------------------------------------------------------------------------
(* Properties *)

\* An open file is where the text of its path leads and has the size its
\* descriptor believes, the working directory is there, and no read has
\* reached ext4_fread() with the offset beyond the size, where its subtraction
\* would wrap.  openat(), fchdir(), the time stamps and the test for the end of
\* the file rely on it, however chdir(), openat() and renames have been mixed.
DescriptorsAgree ==
  /\ \A s \in Slot : files[s].used =>
       /\ files[s].path \in Path
       /\ fs.at[files[s].path] = files[s].ino
       /\ fs.isDir[files[s].ino] = files[s].isDir
       /\ ~ files[s].isDir => files[s].fsize = fs.size[files[s].ino]
  /\ LookDir(fs, cwd)
  /\ ret # "underflow"

\* The directory removal below rmdir() and rename() is recursive, but no call
\* loses more than one inode, and none with entries.
OneGoes ==
  fs' # fs =>
    LET gone == Tree(fs, <<>>) \ Tree(fs', <<>>) IN
      /\ Cardinality(gone) <= 1
      /\ \A p \in Path : fs.at[p] \in gone => Kids(fs, p) = {}
NothingElseLost == [][OneGoes]_fs

\* What is left when a rename of op has removed its target np and failed: all
\* but np, which op could have replaced, with nothing below it.
TargetLost(op, np) ==
  /\ fs.at[op] # NoIno /\ fs.at[np] # NoIno /\ op # np
  /\ Kids(fs, np) = {} /\ (LookDir(fs, np) <=> LookDir(fs, op))
  /\ fs'.at = [fs.at EXCEPT ![np] = NoIno]

\* A call that fails leaves the file system as it was, but for a rename() that
\* lwext4 fails after the removal of the target: "a failure between the remove
\* and the link would lose the old target".  Then the target is all that is
\* lost: the file to be moved is under its old name.
FailureKeepsFiles ==
  [][ret' = "fail" => UNCHANGED fs \/ \E op, np \in Path : TargetLost(op, np)]_vars

\* Reading a directory with any buffer sizes gives no entry twice and each in
\* its turn, and passes over none but those that a call failed on with -EINVAL,
\* one for each such call.
ListedOnce ==
  \A s \in Slot : files[s].used /\ files[s].isDir =>
    LET d == files[s]
        listed == {d.given[i] : i \in DOMAIN d.given}
    IN /\ \A i, j \in DOMAIN d.given : i < j => d.given[i] < d.given[j]
       /\ listed \cup d.lost = 1 .. d.next /\ listed \cap d.lost = {}
       /\ d.next <= Cardinality(Kids(fs, d.path))

=============================================================================
