------------------------------ MODULE FileUtil ------------------------------
(***************************************************************************)
(* FileUtil: files, locks, links and directories, over a file system whose *)
(* calls may fail.  Threads make calls; a call of several system calls is  *)
(* several steps, and others come in between.  A thread has at most one    *)
(* file or lock at a time.  Descriptors get the lowest free number.        *)
(***************************************************************************)
EXTENDS Integers, FiniteSets

CONSTANTS FThreads, Paths,
          MaxFd, MaxInode, MaxSize   \* bounds: descriptors, files ever made, bytes

ASSUME FilesAssumption ==
    IsFiniteSet(FThreads) /\ MaxFd \in Nat /\ MaxInode \in Nat

VARIABLES
    dir,       \* path |-> [kind, ino, to]
    size,      \* bytes on disk, of every inode
    inodes,    \* inodes used
    fds,       \* the open descriptors: number |-> inode, 0 when closed
    flocks,    \* inode |-> the descriptor that holds its flock, or 0
    obj,       \* the file or lock each thread has
    doubled    \* history: a FILE was closed twice

fileVars == <<dir, size, inodes, fds, flocks, obj, doubled>>

Absent == [kind |-> "none", ino |-> 0, to |-> "none"]
Nothing == [kind |-> "none", fd |-> 0, path |-> "none", buf |-> 0, written |-> 0, s |-> "kOk"]
FdNos == 1 .. MaxFd

InitFiles ==
    /\ dir = [n \in Paths |-> Absent]
    /\ size = [i \in 1 .. MaxInode |-> 0] /\ inodes = 0
    /\ fds = [d \in FdNos |-> 0] /\ flocks = [i \in 1 .. MaxInode |-> 0]
    /\ obj = [t \in FThreads |-> Nothing] /\ doubled = FALSE

\* The entry a path leads to; a link is followed once.
At(n) == IF dir[n].kind = "link" THEN (IF dir[dir[n].to].kind = "link" THEN Absent ELSE dir[dir[n].to])
         ELSE dir[n]
Free == CHOOSE d \in FdNos : fds[d] = 0 /\ \A e \in 1 .. d - 1 : fds[e] # 0
HasFree == \E d \in FdNos : fds[d] = 0

Make(t, kind, fd, n) ==
    obj' = [obj EXCEPT ![t] = [kind |-> kind, fd |-> fd, path |-> n, buf |-> 0, written |-> 0, s |-> "kOk"]]

\* open or fopen succeeds: of a file that is there, or of a new one.
Open(t, n, kind, create, truncate) ==
    /\ obj[t].kind = "none" /\ HasFree
    /\ \/ /\ At(n).kind = "file"
          /\ fds' = [fds EXCEPT ![Free] = At(n).ino]
          /\ size' = IF truncate THEN [size EXCEPT ![At(n).ino] = 0] ELSE size
          /\ UNCHANGED <<dir, inodes>>
       \/ /\ create /\ At(n).kind = "none" /\ inodes < MaxInode
          /\ LET p == IF dir[n].kind = "link" THEN dir[n].to ELSE n
             IN  /\ dir[p].kind = "none"
                 /\ dir' = [dir EXCEPT ![p] = [kind |-> "file", ino |-> inodes + 1, to |-> "none"]]
          /\ fds' = [fds EXCEPT ![Free] = inodes + 1]
          /\ inodes' = inodes + 1 /\ UNCHANGED size
    /\ Make(t, kind, Free, n)
    /\ UNCHANGED <<flocks, doubled>>

\* close: the descriptor is free, and its flock is gone.
Closed(d) ==
    /\ fds' = [fds EXCEPT ![d] = 0]
    /\ flocks' = [i \in DOMAIN flocks |-> IF flocks[i] = d THEN 0 ELSE flocks[i]]

\* fclose writes what is buffered, or fails to, and closes.
FClose(d, buf, ok) ==
    /\ Closed(d)
    /\ size' = IF ok /\ size[fds[d]] + buf <= MaxSize THEN [size EXCEPT ![fds[d]] = @ + buf] ELSE size

----------------------------------------------------------------------------
NewSequentialFile(t, n) == Open(t, n, "sequential", FALSE, FALSE)
NewRandomAccessFile(t, n) == Open(t, n, "random", FALSE, FALSE)
NewWritableFile(t, n) == Open(t, n, "writable", TRUE, TRUE)

\* NewAppendableFile opens the file, and then asks for its size by its name.
NewAppendableFile(t, n) == Open(t, n, "sizing", TRUE, FALSE)
AppendableSized(t, ok) ==
    /\ obj[t].kind = "sizing"
    /\ IF ok /\ At(obj[t].path).kind # "none"
       THEN Make(t, "writable", obj[t].fd, obj[t].path) /\ UNCHANGED <<fds, flocks, size>>
       ELSE FClose(obj[t].fd, 0, TRUE) /\ obj' = [obj EXCEPT ![t] = Nothing]
    /\ UNCHANGED <<dir, inodes, doubled>>

\* WritableFile::Append: all of n bytes, or the first part of them.
WritableAppend(t, n, part) ==
    /\ obj[t].kind = "writable" /\ part <= n /\ obj[t].written + part <= MaxSize
    /\ obj' = [obj EXCEPT ![t].buf = @ + part, ![t].written = @ + part]
    /\ UNCHANGED <<dir, size, inodes, fds, flocks, doubled>>

\* WritableFile::Flush
Flush(t) ==
    /\ obj[t].kind = "writable" /\ size[fds[obj[t].fd]] + obj[t].buf <= MaxSize
    /\ size' = [size EXCEPT ![fds[obj[t].fd]] = @ + obj[t].buf]
    /\ obj' = [obj EXCEPT ![t].buf = 0]
    /\ UNCHANGED <<dir, inodes, fds, flocks, doubled>>

\* The destructors of the file classes.
DeleteObject(t, ok) ==
    /\ obj[t].kind \in {"sequential", "random", "writable"}
    /\ FClose(obj[t].fd, obj[t].buf, ok)
    /\ obj' = [obj EXCEPT ![t] = Nothing]
    /\ UNCHANGED <<dir, inodes, doubled>>

\* LockFile opens the file, and then asks for its flock without waiting.
LockFile(t, n) == Open(t, n, "locking", TRUE, FALSE)

\* The descriptor stays open when the flock is not granted.
LockOrUnlock_Leak(t, ok) ==
    /\ obj[t].kind = "locking"
    /\ IF ok /\ flocks[fds[obj[t].fd]] = 0
       THEN /\ flocks' = [flocks EXCEPT ![fds[obj[t].fd]] = obj[t].fd]
            /\ Make(t, "lock", obj[t].fd, obj[t].path) /\ UNCHANGED fds
       ELSE UNCHANGED <<fds, flocks>> /\ obj' = [obj EXCEPT ![t] = Nothing]
    /\ UNCHANGED <<dir, size, inodes, doubled>>

LockOrUnlock(t, ok) ==
    /\ obj[t].kind = "locking"
    /\ IF ok /\ flocks[fds[obj[t].fd]] = 0
       THEN /\ flocks' = [flocks EXCEPT ![fds[obj[t].fd]] = obj[t].fd]
            /\ Make(t, "lock", obj[t].fd, obj[t].path) /\ UNCHANGED fds
       ELSE Closed(obj[t].fd) /\ obj' = [obj EXCEPT ![t] = Nothing]
    /\ UNCHANGED <<dir, size, inodes, doubled>>

\* UnlockFile closes the descriptor, whether or not flock(LOCK_UN) failed.
UnlockFile(t) ==
    /\ obj[t].kind = "lock"
    /\ Closed(obj[t].fd) /\ obj' = [obj EXCEPT ![t] = Nothing]
    /\ UNCHANGED <<dir, size, inodes, doubled>>

----------------------------------------------------------------------------
(* WriteStringToFile and ReadFileToString, step by step. *)

WriteStringToFile(t, n) == Open(t, n, "writing", TRUE, TRUE)

\* Append; the file is closed here when it failed, and then deleted, which
\* closes it again; the status is that of Close.
WriteStringAppend(t, part, ok) ==
    /\ obj[t].kind = "writing"
    /\ IF part = 1
       THEN /\ obj' = [obj EXCEPT ![t].kind = "written", ![t].buf = 1]
            /\ UNCHANGED <<size, fds, flocks>>
       ELSE /\ FClose(obj[t].fd, 0, TRUE)
            /\ obj' = [obj EXCEPT ![t].kind = "closed", ![t].s = IF ok THEN "kOk" ELSE "kIOError"]
    /\ UNCHANGED <<dir, inodes, doubled>>

\* delete file, of a file that is open; a failure to write is not seen.
WriteStringDelete(t, ok) ==
    /\ obj[t].kind = "written"
    /\ FClose(obj[t].fd, obj[t].buf, ok)
    /\ obj' = [obj EXCEPT ![t] = Nothing]
    /\ UNCHANGED <<dir, inodes, doubled>>

\* delete file, of one that was closed: its descriptor, by now perhaps another
\* file's, is closed; the path is deleted if Close failed.
WriteStringDeleteClosed(t) ==
    LET n == obj[t].path
    IN  /\ obj[t].kind = "closed"
        /\ doubled' = TRUE
        /\ Closed(obj[t].fd)
        /\ dir' = IF obj[t].s # "kOk" /\ dir[n].kind \in {"file", "link"}
                  THEN [dir EXCEPT ![n] = Absent] ELSE dir
        /\ obj' = [obj EXCEPT ![t] = Nothing]
        /\ UNCHANGED <<size, inodes>>

\* ReadFileToString: the reads change nothing; a failed one ends the loop, and
\* kOk is returned all the same.
ReadFileToString(t, n) == Open(t, n, "reading", FALSE, FALSE)
ReadFileEnds(t) ==
    /\ obj[t].kind = "reading"
    /\ Closed(obj[t].fd) /\ obj' = [obj EXCEPT ![t] = Nothing]
    /\ UNCHANGED <<dir, size, inodes, doubled>>

----------------------------------------------------------------------------
(* Calls on names; one that fails changes nothing. *)

Entry(n, e) == dir' = [dir EXCEPT ![n] = e] /\ UNCHANGED <<size, inodes, fds, flocks, obj, doubled>>

DeleteFile(n) == dir[n].kind \in {"file", "link"} /\ Entry(n, Absent)
CreateDir(n) == dir[n].kind = "none" /\ Entry(n, [Absent EXCEPT !.kind = "dir"])
DeleteDir(n) == dir[n].kind = "dir" /\ Entry(n, Absent)
SymLink(old, new) == dir[new].kind = "none" /\ Entry(new, [kind |-> "link", ino |-> 0, to |-> old])
RenameFile(src, target) ==
    /\ src # target /\ dir[src].kind # "none"
    /\ dir[target].kind = "none" \/ ((dir[src].kind = "dir") <=> (dir[target].kind = "dir"))
    /\ dir' = [dir EXCEPT ![src] = Absent, ![target] = dir[src]]
    /\ UNCHANGED <<size, inodes, fds, flocks, obj, doubled>>

\* What follows the second fclose of a FILE is undefined.
NextFiles ==
    ~doubled /\
    \/ \E t \in FThreads, n \in Paths :
          \/ NewSequentialFile(t, n) \/ NewRandomAccessFile(t, n) \/ NewWritableFile(t, n)
          \/ NewAppendableFile(t, n) \/ LockFile(t, n)
          \/ WriteStringToFile(t, n) \/ ReadFileToString(t, n)
    \/ \E t \in FThreads, ok \in BOOLEAN :
          \/ AppendableSized(t, ok) \/ DeleteObject(t, ok) \/ LockOrUnlock(t, ok)
          \/ WriteStringDelete(t, ok)
    \/ \E t \in FThreads, part \in 0 .. 1 :
          WritableAppend(t, 1, part) \/ \E ok \in BOOLEAN : WriteStringAppend(t, part, ok)
    \/ \E t \in FThreads :
          Flush(t) \/ UnlockFile(t) \/ WriteStringDeleteClosed(t) \/ ReadFileEnds(t)
    \/ \E n \in Paths : DeleteFile(n) \/ CreateDir(n) \/ DeleteDir(n)
    \/ \E n, m \in Paths : RenameFile(n, m) \/ SymLink(n, m)

FilesSpec == InitFiles /\ [][NextFiles]_fileVars

----------------------------------------------------------------------------
(***************************************************************************)
(* On every path through the calls, the failing ones included, and as long *)
(* as no FILE was closed twice: every open descriptor is the one of        *)
(* exactly one file, lock or call under way, and theirs are open; and a    *)
(* file is locked exactly while somebody has its lock, so that LockFile    *)
(* succeeds again once the lock is given back, and one of two who lock the *)
(* same file fails.                                                        *)
(***************************************************************************)
DescriptorsOwned ==
    ~doubled =>
      LET Users(d) == {t \in FThreads : obj[t].kind \notin {"none", "closed"} /\ obj[t].fd = d}
      IN  /\ \A d \in FdNos : Cardinality(Users(d)) = IF fds[d] # 0 THEN 1 ELSE 0
          /\ \A i \in DOMAIN flocks :
                LET holders == {t \in FThreads : obj[t].kind = "lock" /\ fds[obj[t].fd] = i}
                IN  /\ Cardinality(holders) <= 1
                    /\ flocks[i] # 0 <=> holders # {}
                    /\ \A t \in holders : obj[t].fd = flocks[i]
=============================================================================
