---------------------------- MODULE PosixAdapter ----------------------------
(***************************************************************************)
(* The POSIX adapter (src/src/labios/adapter/posix_adapter.cpp) with its   *)
(* table of descriptors (fd_table.cpp), the small-I/O cache, the file      *)
(* metadata in the catalog, and the timer thread that flushes the cache.   *)
(*                                                                         *)
(* The pipeline behind the label manager is taken at its best: a label     *)
(* takes effect when it is published.  A bounded number of labels fails    *)
(* (the data is not stored), is late (stored, but the wait times out) or   *)
(* is refused (publishing throws).  LabelFlow models the pipeline itself.  *)
(*                                                                         *)
(* A call holds FileState::mu from its first to its last step; closing     *)
(* takes no lock, and neither does the timer.  Applications do not close a *)
(* descriptor that another of their threads is using.                      *)
(***************************************************************************)
EXTENDS ContentCache, FiniteSets, Functions

CONSTANTS
    Files,        \* paths
    Fds,          \* descriptor numbers the kernel can hand out
    Threads,      \* threads of the application
    Timer,        \* the flush thread
    Size,         \* bound: bytes of a file
    Extents,      \* <<offset, length>> of the writes made
    ReadExtents,  \* <<offset, length>> of the reads made
    Lengths,      \* lengths files are truncated to
    MaxOpens,     \* bound: FileStates at a time
    MaxWrites,    \* bound: writes
    MaxFaults     \* bound: labels that fail

ASSUME PosixAssumption ==
    /\ NoFile \notin Files
    /\ Timer \notin Threads
    /\ Fds \subseteq Nat /\ IsFiniteSet(Fds)
    /\ Size \in Nat /\ MaxOpens \in Nat /\ MaxWrites \in Nat /\ MaxFaults \in Nat
    /\ LabelMinSize \in Nat \ {0}
    /\ Extents \cup ReadExtents \subseteq (0 .. Size) \X (1 .. Size)
    /\ \A x \in Extents \cup ReadExtents : x[1] + x[2] <= Size
    /\ Lengths \subseteq 0 .. Size

Bytes == 0 .. Size - 1
Actors == Threads \cup {Timer}

VARIABLES
    (* FdTable and the kernel *)
    table,     \* table_: number of the FileState behind a descriptor, or 0
    states,    \* the FileStates, Free if there is none under a number
    kernel,    \* descriptor numbers in use in the kernel
    (* ContentManager, CatalogManager, the stored bytes *)
    caches,    \* caches_
    meta,      \* labios:filemeta:<path>
    store,     \* what a READ label would find
    (* calls in progress *)
    call,
    (* bounds *)
    writes, faults,
    (* history *)
    latest,    \* the last write of every byte that the application issued
    owed,      \* <<file, byte>> whose latest write no label has stored yet
    torn,      \* files that a fault or a reused descriptor may have damaged
    loose,     \* files whose size was set by hand, or tracked by two at once
    reply      \* of the read that just returned: its data and the latest

fdVars == <<table, states, kernel>>
dataVars == <<caches, meta, store, owed>>
posixVars == <<fdVars, dataVars, call, writes, faults, latest, torn, loose, reply>>

Free == [file |-> NoFile, sync |-> FALSE, offset |-> 0, refs |-> 0]

NoPut == [off |-> 0, len |-> 0, id |-> 0]

(* A thread outside the adapter.  step: where a call is; todo: the regions *)
(* it has taken from the cache and not yet published; cur: the size that   *)
(* track_write read; put: the bytes being written or read; move: whether   *)
(* the file position follows; next: what happens after a close, and dup2's *)
(* oldfd.                                                                  *)
IdleCall == [op |-> "idle", step |-> "publish", fd |-> 0, fs |-> 0,
             todo |-> <<>>, cur |-> 0, put |-> NoPut, move |-> FALSE,
             next |-> "return", oldfd |-> 0]

NoReply == [data |-> <<>>, want |-> <<>>]

PosixInit ==
    /\ table = [fd \in Fds |-> 0]
    /\ states = [s \in 1 .. MaxOpens |-> Free]
    /\ kernel = {}
    /\ caches = [fd \in Fds |-> Absent]
    /\ meta = [f \in Files |-> [exists |-> FALSE, size |-> 0]]
    /\ store = [f \in Files |-> [b \in Bytes |-> 0]]
    /\ call = [a \in Actors |-> IdleCall]
    /\ writes = 0
    /\ faults = 0
    /\ latest = [f \in Files |-> [b \in Bytes |-> 0]]
    /\ owed = {}
    /\ torn = {}
    /\ loose = {}
    /\ reply = NoReply

-----------------------------------------------------------------------------
(* Which calls can start *)

Locked(s) == \E t \in Threads : call[t].op \in {"write", "read", "fsync"}
                                /\ call[t].fs = s

Exiting == \E t \in Threads : call[t].op = "exit"

Starts(t) == call[t].op = "idle" /\ ~Exiting

(* get(fd) finds a FileState whose lock is free. *)
Enters(t, fd) == Starts(t) /\ table[fd] # 0 /\ ~Locked(table[fd])

FileOf(fd) == states[table[fd]].file

CallOf(op, fd, regions) ==
    [IdleCall EXCEPT !.op = op, !.fd = fd, !.fs = table[fd], !.todo = regions]

(* A call that took nothing from the cache returns at once. *)
Begun(c) == IF c.todo = <<>> THEN IdleCall ELSE c

(* FdTable::allocate and duplicate get the lowest free number. *)
NewFd == Min(Fds \ kernel)

NewState == Min({s \in DOMAIN states : states[s] = Free})

(* A number is handed out again while the cache of its former user is      *)
(* still there, under another path, or is yet to be evicted by a close.    *)
Reuses(fd, file) ==
    \/ caches[fd].filepath \notin {NoFile, file}
    \/ \E t \in Threads : call[t].op = "close" /\ call[t].fd = fd
    \/ table[fd] # 0

-----------------------------------------------------------------------------
(* open: FdTable::allocate, then CatalogManager::track_open *)

track_open(m, creat, trunc) ==
    [exists |-> m.exists \/ creat \/ trunc, size |-> IF trunc THEN 0 ELSE m.size]

Open(t, file, creat, trunc, sync) ==
    /\ Starts(t)
    /\ Fds \ kernel # {}
    /\ \E s \in DOMAIN states : states[s] = Free
    /\ states' = [states EXCEPT ![NewState] =
                    [file |-> file, sync |-> sync, offset |-> 0, refs |-> 1]]
    /\ table' = [table EXCEPT ![NewFd] = NewState]
    /\ kernel' = kernel \cup {NewFd}
    /\ meta' = [meta EXCEPT ![file] = track_open(@, creat, trunc)]
    /\ torn' = IF Reuses(NewFd, file) THEN torn \cup {file, caches[NewFd].filepath}
                                      ELSE torn
    /\ loose' = IF trunc THEN loose \cup {file} ELSE loose
    /\ UNCHANGED <<caches, store, owed, call, writes, faults, latest>>

-----------------------------------------------------------------------------
(* write and pwrite: do_write *)

Overlay(f, put) ==
    [b \in Bytes |-> IF b \in Extent(put.off, put.len) THEN put.id ELSE f[b]]

(* The position follows a write or read that moves it. *)
Moved(c) ==
    IF c.move
    THEN [states EXCEPT ![c.fs].offset = c.put.off + c.put.len]
    ELSE states

DoWrite(t, fd, off, len, move) ==
    LET file == FileOf(fd)
        put == [off |-> off, len |-> len, id |-> writes + 1]
        small == len < LabelMinSize
        w == cache_write(caches[fd], file, off, len, writes + 1)
        direct == <<[file |-> file, off |-> off, len |-> len, id |-> writes + 1]>>
        c == [CallOf("write", fd, IF small THEN w.flushed ELSE direct)
                EXCEPT !.put = put, !.move = move]
    IN  /\ Enters(t, fd)
        /\ writes < MaxWrites
        /\ writes' = writes + 1
        /\ caches' = IF small THEN [caches EXCEPT ![fd] = w.cache] ELSE caches
        /\ call' = [call EXCEPT ![t] = Begun(c)]
        /\ states' = IF c.todo = <<>> THEN Moved(c) ELSE states
        /\ latest' = [latest EXCEPT ![file] = Overlay(@, put)]
        /\ owed' = owed \cup ({file} \X Extent(off, len))
        /\ UNCHANGED <<table, kernel, meta, store, faults, torn, loose>>

Pwrite(t, fd) == \E x \in Extents : DoWrite(t, fd, x[1], x[2], FALSE)

Write(t, fd) ==
    /\ table[fd] # 0
    /\ LET off == states[table[fd]].offset
       IN  \E len \in {x[2] : x \in {y \in Extents : y[1] = off}} :
             DoWrite(t, fd, off, len, TRUE)

(* All regions are published: the write is acknowledged. *)
WriteReturn(t) ==
    LET c == call[t] IN
    /\ c.op = "write" /\ c.step = "publish" /\ c.todo = <<>>
    /\ states' = Moved(c)
    /\ call' = [call EXCEPT ![t] = IdleCall]
    /\ UNCHANGED <<table, kernel, dataVars, writes, faults, latest, torn, loose>>

-----------------------------------------------------------------------------
(* read and pread: do_read *)

Answer(file, data) ==
    [data |-> data, want |-> [b \in DOMAIN data |-> latest[file][b]]]

DoRead(t, fd, off, len, move) ==
    LET r == cache_read(caches[fd], off, len)
        c == [CallOf("read", fd, FlushRegions(caches[fd]))
                EXCEPT !.put = [off |-> off, len |-> len, id |-> 0], !.move = move]
    IN  /\ Enters(t, fd)
        /\ IF r.hit
           THEN /\ reply' = Answer(FileOf(fd), r.data)
                /\ states' = Moved(c)
                /\ UNCHANGED <<caches, call>>
           ELSE /\ caches' = [caches EXCEPT ![fd] = flush_locked(@)]
                /\ call' = [call EXCEPT ![t] = c]
                /\ reply' = NoReply
                /\ UNCHANGED states
        /\ UNCHANGED <<table, kernel, meta, store, owed,
                       writes, faults, latest, torn, loose>>

Pread(t, fd) == \E x \in ReadExtents : DoRead(t, fd, x[1], x[2], FALSE)

Read(t, fd) ==
    /\ table[fd] # 0
    /\ LET off == states[table[fd]].offset
       IN  \E len \in {x[2] : x \in {y \in ReadExtents : y[1] = off}} :
             DoRead(t, fd, off, len, TRUE)

(* The staged writes are out: publish_read and wait_read. *)
ReadLabel(t) ==
    LET c == call[t]
        file == states[c.fs].file
    IN  /\ c.op = "read" /\ c.step = "publish" /\ c.todo = <<>>
        /\ reply' = Answer(file, [b \in Extent(c.put.off, c.put.len) |->
                                    store[file][b]])
        /\ states' = Moved(c)
        /\ call' = [call EXCEPT ![t] = IdleCall]
        /\ UNCHANGED <<table, kernel, dataVars, writes, faults, latest, torn, loose>>

-----------------------------------------------------------------------------
(* fsync, close, dup and dup2 *)

(* ContentManager::flush(fd): the regions move into the caller's hands. *)
Fsync(t, fd) ==
    /\ Enters(t, fd)
    /\ caches' = [caches EXCEPT ![fd] = flush_locked(@)]
    /\ call' = [call EXCEPT ![t] =
                  Begun(CallOf("fsync", fd, FlushRegions(caches[fd])))]
    /\ UNCHANGED <<fdVars, meta, store, owed, writes, faults, latest, torn, loose>>

(* FdTable::release takes the descriptor out of the table, closes it in    *)
(* the kernel and drops a reference; only the last one goes on to flush.   *)
Close(t, fd, next, oldfd) ==
    LET s == table[fd]
        last == states[s].refs = 1
        c == [IdleCall EXCEPT
                !.op = "close", !.fd = fd, !.step = IF last THEN "flush" ELSE "closed",
                !.next = next, !.oldfd = oldfd]
    IN  /\ Starts(t)
        /\ s # 0
        /\ \A u \in Threads : call[u].op # "idle" => call[u].fd # fd
        /\ table' = [table EXCEPT ![fd] = 0]
        /\ kernel' = kernel \ {fd}
        /\ states' = [states EXCEPT ![s] = IF last THEN Free
                                           ELSE [states[s] EXCEPT !.refs = @ - 1]]
        /\ call' = [call EXCEPT ![t] = IF last \/ next # "return" THEN c ELSE IdleCall]
        /\ UNCHANGED <<dataVars, writes, faults, latest, torn, loose>>

CloseFlush(t) ==
    LET c == call[t] IN
    /\ c.op = "close" /\ c.step = "flush"
    /\ call' = [call EXCEPT ![t].step = "publish",
                            ![t].todo = FlushRegions(caches[c.fd])]
    /\ caches' = [caches EXCEPT ![c.fd] = flush_locked(@)]
    /\ UNCHANGED <<fdVars, meta, store, owed,
                   writes, faults, latest, torn, loose>>

(* evict, whether flush_and_publish returned or threw. *)
CloseEvict(t) ==
    LET c == call[t] IN
    /\ c.op = "close" /\ c.step = "publish" /\ c.todo = <<>>
    /\ caches' = [caches EXCEPT ![c.fd] = Absent]
    /\ call' = [call EXCEPT ![t] = IF c.next = "return" THEN IdleCall
                                   ELSE [c EXCEPT !.step = "closed"]]
    /\ UNCHANGED <<fdVars, meta, store, owed,
                   writes, faults, latest, torn, loose>>

(* fclose: real_fclose closes the descriptor number a second time, whoever *)
(* owns it by now.                                                         *)
Fclose(t) ==
    LET c == call[t] IN
    /\ c.op = "close" /\ c.step = "closed" /\ c.next = "fclose"
    /\ kernel' = kernel \ {c.fd}
    /\ torn' = IF table[c.fd] # 0 THEN torn \cup {FileOf(c.fd)} ELSE torn
    /\ call' = [call EXCEPT ![t] = IdleCall]
    /\ UNCHANGED <<table, states, dataVars, writes, faults, latest, loose>>

(* Seeded fault: the FileState does not count its new descriptor. *)
DuplicateUncounted(t, oldfd) ==
    /\ IF table[oldfd] = 0 \/ Fds \ kernel = {}
       THEN UNCHANGED <<fdVars, torn>>
       ELSE /\ table' = [table EXCEPT ![NewFd] = table[oldfd]]
            /\ kernel' = kernel \cup {NewFd}
            /\ UNCHANGED states
            /\ torn' = IF Reuses(NewFd, FileOf(oldfd))
                       THEN torn \cup {FileOf(oldfd), caches[NewFd].filepath}
                       ELSE torn
    /\ call' = [call EXCEPT ![t] = IdleCall]
    /\ UNCHANGED <<dataVars, writes, faults, latest, loose>>

(* FdTable::duplicate: another number for the same FileState, if the old   *)
(* number is still in the table and the kernel has one left.               *)
Duplicate(t, oldfd) ==
    /\ IF table[oldfd] = 0 \/ Fds \ kernel = {}
       THEN UNCHANGED <<fdVars, torn>>
       ELSE /\ table' = [table EXCEPT ![NewFd] = table[oldfd]]
            /\ kernel' = kernel \cup {NewFd}
            /\ states' = [states EXCEPT ![table[oldfd]].refs = @ + 1]
            /\ torn' = IF Reuses(NewFd, FileOf(oldfd))
                       THEN torn \cup {FileOf(oldfd), caches[NewFd].filepath}
                       ELSE torn
    /\ call' = [call EXCEPT ![t] = IdleCall]
    /\ UNCHANGED <<dataVars, writes, faults, latest, loose>>

Dup(t, fd) ==
    /\ Starts(t) /\ table[fd] # 0 /\ Duplicate(t, fd)

(* dup2 closes the number it is to replace, even if it is the old one, and *)
(* then duplicates to whatever number is free.                             *)
Dup2(t, oldfd, newfd) ==
    /\ table[oldfd] # 0
    /\ table[newfd] # 0
    /\ Close(t, newfd, "dup2", oldfd)

Dup2Duplicate(t) ==
    /\ call[t].op = "close" /\ call[t].step = "closed" /\ call[t].next = "dup2"
    /\ Duplicate(t, call[t].oldfd)

-----------------------------------------------------------------------------
(* Publishing regions: flush_and_publish, the loop of do_write, the        *)
(* timer's callback and the flush at exit *)

Outcomes == {"ok", "failed", "late", "refused"}

(* Whether the caller waits for the label: do_write only in sync mode. *)
Waits(c) == c.op = "write" => states[c.fs].sync

(* The first region is done; the timer and fsync do nothing after the last.*)
Advance(c) ==
    IF Len(c.todo) = 1 /\ c.op \in {"timer", "fsync"}
    THEN IdleCall
    ELSE [c EXCEPT !.step = "publish", !.cur = 0, !.todo = Tail(@)]

(* An exception costs the timer's callback one region.  It ends a write,   *)
(* read or fsync with EIO, and the loops of close and exit, which swallow  *)
(* it: what was still to be published is gone with the local variables.    *)
Abandon(c) ==
    CASE c.op = "timer" -> Advance(c)
      [] c.op \in {"write", "read", "fsync"} -> IdleCall
      [] c.op \in {"close", "exit"} -> [c EXCEPT !.todo = <<>>]

Publish(a) ==
    LET c == call[a]
        r == Head(c.todo)
    IN  /\ c.step = "publish" /\ c.todo # <<>>
        /\ \E o \in Outcomes :
             /\ o # "ok" => faults < MaxFaults
             /\ faults' = IF o = "ok" THEN faults ELSE faults + 1
             /\ IF o \in {"ok", "late"}
                THEN /\ store' = [store EXCEPT ![r.file] = Overlay(@, r)]
                     /\ owed' = {p \in owed : ~ /\ p[1] = r.file
                                                 /\ p[2] \in Extent(r.off, r.len)
                                                 /\ latest[p[1]][p[2]] = r.id}
                ELSE UNCHANGED <<store, owed>>
             /\ LET throws == o = "refused" \/ (o # "ok" /\ Waits(c))
                IN  call' = [call EXCEPT ![a] =
                               IF throws THEN Abandon(c)
                                         ELSE [c EXCEPT !.step = "track"]]
             /\ torn' = IF o = "ok" THEN torn
                        ELSE torn \cup {x.file : x \in Range(c.todo)}
        /\ UNCHANGED <<fdVars, caches, meta, writes, latest, loose>>

(* Someone has read the size and not yet written it. *)
Tracking(file) ==
    \E a \in Actors : call[a].step = "resize" /\ Head(call[a].todo).file = file

(* CatalogManager::track_write: the size is read in one command ... *)
TrackRead(a) ==
    LET c == call[a]
        file == Head(c.todo).file
    IN  /\ c.step = "track"
        /\ meta' = [meta EXCEPT ![file].exists = TRUE]
        /\ call' = [call EXCEPT ![a].step = "resize",
                                ![a].cur = meta[file].size]
        /\ loose' = IF Tracking(file) THEN loose \cup {file} ELSE loose
        /\ UNCHANGED <<fdVars, caches, store, owed,
                       writes, faults, latest, torn>>

(* Seeded fault: the size becomes the end of the last region tracked. *)
TrackResizeAlways(a) ==
    LET c == call[a]
        r == Head(c.todo)
    IN  /\ c.step = "resize"
        /\ meta' = [meta EXCEPT ![r.file].size = r.off + r.len]
        /\ call' = [call EXCEPT ![a] = Advance(c)]
        /\ UNCHANGED <<fdVars, caches, store, owed,
                       writes, faults, latest, torn, loose>>

(* ... and written in another. *)
TrackResize(a) ==
    LET c == call[a]
        r == Head(c.todo)
    IN  /\ c.step = "resize"
        /\ meta' = IF r.off + r.len > c.cur
                   THEN [meta EXCEPT ![r.file].size = r.off + r.len]
                   ELSE meta
        /\ call' = [call EXCEPT ![a] = Advance(c)]
        /\ UNCHANGED <<fdVars, caches, store, owed,
                       writes, faults, latest, torn, loose>>

-----------------------------------------------------------------------------
(* The flush timer *)

(* The order of the hash map is left open by the code; this is one. *)
FdOrder == Ascending(Fds)

(* flush_all: every cache with bytes in it, one after the other. *)
AllRegions ==
    FlattenSeq([i \in 1 .. Cardinality(Fds) |->
                  FlushRegions(caches[FdOrder[i]])])

Buffered == \E fd \in Fds : caches[fd].total_bytes > 0

TakeAll(a, op) ==
    /\ caches' = [fd \in Fds |-> IF caches[fd].total_bytes > 0
                                 THEN flush_locked(caches[fd]) ELSE caches[fd]]
    /\ call' = [call EXCEPT ![a] = [IdleCall EXCEPT !.op = op, !.todo = AllRegions]]
    /\ UNCHANGED <<fdVars, meta, store, owed, writes, faults, latest, torn, loose>>

(* Seeded fault: the timer leaves caches with a single byte for later. *)
TimerFlushLarge ==
    /\ call[Timer].op = "idle"
    /\ \E fd \in Fds : caches[fd].total_bytes > 1
    /\ TakeAll(Timer, "timer")

TimerFlush ==
    /\ call[Timer].op = "idle"
    /\ Buffered
    /\ TakeAll(Timer, "timer")

-----------------------------------------------------------------------------
(* Calls that touch nothing but the position or the metadata *)

(* What SEEK_END, stat and access see of a file; rename copies it. *)
get_file_info(file) ==
    [exists |-> meta[file].exists, size |-> meta[file].size]

(* stat, fstat, lstat and access: ENOENT, or the size. *)
populate_stat(file) ==
    IF get_file_info(file).exists THEN get_file_info(file).size ELSE -1

(* lseek to the start (SEEK_SET) or the end (SEEK_END) of the file. *)
Lseek(t, fd) ==
    /\ Enters(t, fd)
    /\ \E pos \in {0, get_file_info(FileOf(fd)).size} :
         states' = [states EXCEPT ![table[fd]].offset = pos]
    /\ UNCHANGED <<table, kernel, dataVars, call, writes, faults, latest, torn, loose>>

SetMeta(t, files, m) ==
    /\ Starts(t)
    /\ meta' = m
    /\ loose' = loose \cup files
    /\ UNCHANGED <<fdVars, caches, store, owed, call,
                   writes, faults, latest, torn>>

track_truncate(file, len) == [meta EXCEPT ![file] = [exists |-> TRUE, size |-> len]]
track_unlink(m, file) == [m EXCEPT ![file] = [exists |-> FALSE, size |-> 0]]

Ftruncate(t, fd, len) == table[fd] # 0 /\ SetMeta(t, {FileOf(fd)}, track_truncate(FileOf(fd), len))
Unlink(t, file) == SetMeta(t, {file}, track_unlink(meta, file))

(* rename tracks a write of the old size at the new path and unlinks the   *)
(* old one; a larger file already there keeps its size.                    *)
Rename(t, old, new) ==
    LET s == get_file_info(old).size
    IN  /\ get_file_info(old).exists
        /\ SetMeta(t, {old, new}, track_unlink(
             [meta EXCEPT ![new] = [exists |-> TRUE,
                                    size |-> IF s > @.size THEN s ELSE @.size]], old))

-----------------------------------------------------------------------------
(* The answer of a read is gone with the next step of anyone. *)
Silent(A) == A /\ reply' = NoReply

Internal(t) ==
    \/ ReadLabel(t)
    \/ Silent(\/ WriteReturn(t) \/ CloseFlush(t) \/ CloseEvict(t) \/ Fclose(t) \/ Dup2Duplicate(t)
              \/ Publish(t) \/ TrackRead(t) \/ TrackResize(t))

TimerStep ==
    Silent(\/ TimerFlush
           \/ Publish(Timer) \/ TrackRead(Timer) \/ TrackResize(Timer))

-----------------------------------------------------------------------------
Regions == [file : Files, off : Bytes, len : 1 .. Size, id : 1 .. MaxWrites]

(* The type of every variable, and the counter of a cache, which is the    *)
(* sum of what it holds: total_bytes is unsigned and decides when to flush.*)
PosixTypeOK ==
    /\ table \in [Fds -> 0 .. MaxOpens]
    /\ kernel \subseteq Fds
    /\ states \in [1 .. MaxOpens -> [file : Files \cup {NoFile}, sync : BOOLEAN,
                                     offset : 0 .. Size, refs : Nat]]
    /\ meta \in [Files -> [exists : BOOLEAN, size : 0 .. Size]]
    /\ store \in [Files -> [Bytes -> 0 .. MaxWrites]]
    /\ latest \in [Files -> [Bytes -> 0 .. MaxWrites]]
    /\ \A a \in Actors : Range(call[a].todo) \subseteq Regions
    /\ torn \subseteq Files \cup {NoFile}
    /\ writes \in 0 .. MaxWrites /\ faults \in 0 .. MaxFaults

(* The cache stays below the threshold and its byte counter is exact, for  *)
(* every descriptor: cache_write subtracts what it replaces, and flushes   *)
(* at label_min_size.                                                      *)
CacheBounded ==
    \A fd \in Fds :
      LET c == caches[fd] IN
      /\ c.total_bytes < LabelMinSize
      /\ c.total_bytes = MapThenSumSet(LAMBDA o : c.regions[o].len, DOMAIN c.regions)

(* The size in the catalog is the end of the stored data, once nobody is   *)
(* between storing a region and tracking it: stat and SEEK_END see what    *)
(* was written.  It can fail after a failed label, and after two threads   *)
(* tracked the file at once, because track_write reads and then writes.    *)
SizeTracksStore ==
    \A file \in Files \ (torn \cup loose) :
      LET busy == \E a \in Actors : /\ call[a].step \in {"track", "resize"}
                                    /\ Head(call[a].todo).file = file
          ends == {b + 1 : b \in {x \in Bytes : store[file][x] # 0}}
      IN  ~busy => populate_stat(file) \in IF ends = {} THEN {-1, 0} ELSE {Max(ends)}

Holds(r, file, b) ==
    r.file = file /\ b \in Extent(r.off, r.len) /\ r.id = latest[file][b]

(* The latest bytes of every file are stored, cached, or in the hands of a *)
(* thread that will publish them, unless a label failed or a descriptor    *)
(* number was reused: write, the timer, fsync, close and exit hand regions *)
(* over and drop none.                                                     *)
NothingVanishes ==
    \A p \in owed : p[1] \notin torn =>
      \/ \E fd \in Fds : \E r \in Range(FlushRegions(caches[fd])) : Holds(r, p[1], p[2])
      \/ \E a \in Actors : \E r \in Range(call[a].todo) : Holds(r, p[1], p[2])

(* Again and again everything written is stored: small writes do not stay  *)
(* in the cache, even if the application makes no further call.            *)
EventuallyStored == []<>(\A p \in owed : p[1] \in torn)

(* "Preserve read-after-write consistency: if the requested range is not   *)
(* fully available from the small-I/O cache, flush staged writes first so  *)
(* the READ labels observe the latest data" (posix_adapter.cpp:119): a     *)
(* read returns, for every byte, the last write issued before it.          *)
ReadsLatest == reply.data = reply.want
=============================================================================
