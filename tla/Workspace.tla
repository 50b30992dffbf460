------------------------------ MODULE Workspace ------------------------------
(***************************************************************************)
(* One key of a named workspace (src/src/labios/workspace.cpp) that        *)
(* several processes share through Redis.  Every process has its own       *)
(* Workspace object, hence its own lock and its own access list; the       *)
(* threads of a process share them.  Each Redis command is one step, so    *)
(* the operations of two processes interleave command by command, while    *)
(* mu_ orders those of one process.                                        *)
(*                                                                         *)
(* A value is the number of the put that wrote it; 0 stands for a missing  *)
(* Redis key.  list only reads, and is left out.                           *)
(***************************************************************************)
EXTENDS Integers, FiniteSets, Functions

CONSTANTS
    Processes,
    Threads,
    ProcessOf,   \* [Threads -> Processes]
    Apps,        \* application ids
    AppsOf,      \* [Threads -> SUBSET Apps]: whom a thread calls in for
    Owner,       \* owner_app_id_
    MaxPuts,     \* bound: puts
    MaxPartial,  \* bound: operations that a failed command stops half way
    Ttl          \* ttl_seconds_ > 0

ASSUME WorkspaceAssumption ==
    /\ ProcessOf \in [Threads -> Processes]
    /\ AppsOf \in [Threads -> SUBSET Apps]
    /\ Owner \in Apps
    /\ MaxPuts \in Nat /\ MaxPartial \in Nat
    /\ Ttl \in BOOLEAN

Values == 1 .. MaxPuts

VARIABLES
    (* Redis *)
    data,        \* labios:ws:<name>:<key>
    copies,      \* labios:ws:<name>:<key>:v<n>
    version,     \* field version of the metadata, 0 if there is none
    size,        \* field size: the put whose length it is
    indexed,     \* the key is in the index
    (* Workspace objects: the access list, {} if the process has none *)
    acl,
    destroyed,   \* destroyed_
    (* threads *)
    op,
    puts,
    (* history *)
    finished,    \* <<version, value>> of the puts that returned
    mixed,       \* two processes changed the key at the same time
    crossed,     \* and one of them was deleting it
    partial      \* operations that stopped half way

redisVars == <<data, copies, version, size, indexed>>
objectVars == <<acl, destroyed>>
historyVars == <<finished, mixed, crossed, partial>>
wsvars == <<redisVars, objectVars, op, puts, historyVars>>

(* A thread's operation: where it is, for which application, the version   *)
(* it works with, the value of a put, whether another process deleted the  *)
(* key under a get, and the Redis keys that destroy found.                 *)
Idle == [at |-> "idle", app |-> Owner, v |-> 0, value |-> 0, raced |-> FALSE,
         scan |-> {}]

Init ==
    /\ data = 0
    /\ copies = [n \in Values |-> 0]
    /\ version = 0
    /\ size = 0
    /\ indexed = FALSE
    /\ acl = [p \in Processes |-> {}]
    /\ destroyed = [p \in Processes |-> FALSE]
    /\ op = [t \in Threads |-> Idle]
    /\ puts = 0
    /\ finished = {}
    /\ mixed = FALSE
    /\ crossed = FALSE
    /\ partial = 0

-----------------------------------------------------------------------------
Readers == {"getExists", "getFetch"}

Inside(t) == op[t].at # "idle"
Changing(t) == Inside(t) /\ op[t].at \notin Readers

(* mu_ of the process, exclusive or shared. *)
Exclusive(p) == \A u \in Threads : ProcessOf[u] = p => ~Inside(u)
Shared(p) == \A u \in Threads : ProcessOf[u] = p => ~Changing(u)

check_access(t, app) == app \in acl[ProcessOf[t]]

(* Threads of other processes that are changing the key. *)
Others(t) == {u \in Threads : ProcessOf[u] # ProcessOf[t] /\ Changing(u)}

Deleters == {"delRead", "delData", "delCopies", "delMeta", "delIndex",
             "destroyScan", "destroyDelete"}

(* Commands that leave the key half changed when they fail. *)
Halfway == {"putData", "putCopy", "putMeta", "putIndex",
            "delData", "delCopies", "delMeta", "delIndex", "destroyDelete"}

(* t starts to change the key. *)
NoteOverlap(t, deletes) ==
    /\ mixed' = (mixed \/ Others(t) # {})
    /\ crossed' = (\/ crossed
                   \/ deletes /\ Others(t) # {}
                   \/ \E u \in Others(t) : op[u].at \in Deleters)

Begin(t, at, app) ==
    /\ op[t] = Idle
    /\ op' = [op EXCEPT ![t] = [Idle EXCEPT !.at = at, !.app = app]]

Goto(t, from, to) ==
    /\ op[t].at = from
    /\ op' = [op EXCEPT ![t].at = to]

Return(t, from) ==
    /\ op[t].at = from
    /\ op' = [op EXCEPT ![t] = Idle]

-----------------------------------------------------------------------------
(* put *)

Put(t, app) ==
    /\ Exclusive(ProcessOf[t])
    /\ check_access(t, app)
    /\ puts < MaxPuts
    /\ puts' = puts + 1
    /\ op[t] = Idle
    /\ op' = [op EXCEPT ![t] = [Idle EXCEPT !.at = "putVersion", !.app = app,
                                            !.value = puts + 1]]
    /\ NoteOverlap(t, FALSE)
    /\ UNCHANGED <<redisVars, objectVars, finished, partial>>

(* Seeded fault: the version is read here and written with the metadata. *)
PutVersionByRead(t) ==
    /\ op[t].at = "putVersion"
    /\ version' = IF version = 0 THEN 1 ELSE version
    /\ op' = [op EXCEPT ![t].at = "putData", ![t].v = version']
    /\ UNCHANGED <<data, copies, size, indexed, objectVars, puts,
                   historyVars>>

(* hincrby *)
PutVersion(t) ==
    /\ op[t].at = "putVersion"
    /\ version' = version + 1
    /\ op' = [op EXCEPT ![t].at = "putData", ![t].v = version + 1]
    /\ UNCHANGED <<data, copies, size, indexed, objectVars, puts,
                   historyVars>>

PutData(t) ==
    /\ Goto(t, "putData", "putCopy")
    /\ data' = op[t].value
    /\ UNCHANGED <<copies, version, size, indexed, objectVars, puts,
                   historyVars>>

PutCopy(t) ==
    /\ Goto(t, "putCopy", "putMeta")
    /\ copies' = [copies EXCEPT ![op[t].v] = op[t].value]
    /\ UNCHANGED <<data, version, size, indexed, objectVars, puts,
                   historyVars>>

(* size and updated_us; the time to live is set with them. *)
PutMeta(t) ==
    /\ Goto(t, "putMeta", "putIndex")
    /\ size' = op[t].value
    /\ UNCHANGED <<data, copies, version, indexed, objectVars, puts,
                   historyVars>>

PutReturn(t) ==
    /\ Return(t, "putIndex")
    /\ indexed' = TRUE
    /\ finished' = finished \cup {<<op[t].v, op[t].value>>}
    /\ UNCHANGED <<data, copies, version, size, objectVars, puts,
                   mixed, crossed, partial>>

-----------------------------------------------------------------------------
(* get *)

(* Seeded fault: get takes no lock. *)
GetUnlocked(t, app) ==
    /\ check_access(t, app)
    /\ Begin(t, "getExists", app)
    /\ UNCHANGED <<redisVars, objectVars, puts, historyVars>>

Get(t, app) ==
    /\ Shared(ProcessOf[t])
    /\ check_access(t, app)
    /\ Begin(t, "getExists", app)
    /\ UNCHANGED <<redisVars, objectVars, puts, historyVars>>

(* nullopt, or on to the value. *)
GetExists(t) ==
    /\ IF data = 0 THEN Return(t, "getExists")
                   ELSE Goto(t, "getExists", "getFetch")
    /\ UNCHANGED <<redisVars, objectVars, puts, historyVars>>

(* get_binary gives an empty vector when the key is gone by now. *)
GetFetch(t) ==
    /\ Return(t, "getFetch")
    /\ UNCHANGED <<redisVars, objectVars, puts, historyVars>>

-----------------------------------------------------------------------------
(* del *)

Del(t, app) ==
    /\ Exclusive(ProcessOf[t])
    /\ check_access(t, app)
    /\ Begin(t, "delRead", app)
    /\ NoteOverlap(t, TRUE)
    /\ UNCHANGED <<redisVars, objectVars, puts, finished, partial>>

(* Without a version there is nothing to delete. *)
DelRead(t) ==
    /\ op[t].at = "delRead"
    /\ op' = [op EXCEPT ![t] = IF version = 0 THEN Idle
                               ELSE [@ EXCEPT !.at = "delData", !.v = version]]
    /\ finished' = IF version = 0 THEN finished ELSE {}
    /\ UNCHANGED <<redisVars, objectVars, puts, mixed, crossed, partial>>

(* Readers of other processes that have seen the key will not find it. *)
Raced(t) ==
    [u \in Threads |-> [op[u] EXCEPT !.raced = @ \/ (/\ ProcessOf[u] # ProcessOf[t]
                                                     /\ op[u].at = "getFetch")]]

DelData(t) ==
    /\ op[t].at = "delData"
    /\ op' = [Raced(t) EXCEPT ![t].at = "delCopies"]
    /\ data' = 0
    /\ UNCHANGED <<copies, version, size, indexed, objectVars, puts,
                   historyVars>>

(* Seeded fault: the loop over the versions ends one too early. *)
DelCopiesButLast(t) ==
    /\ Goto(t, "delCopies", "delMeta")
    /\ copies' = [n \in Values |-> IF n < op[t].v THEN 0 ELSE copies[n]]
    /\ UNCHANGED <<data, version, size, indexed, objectVars, puts,
                   historyVars>>

DelCopies(t) ==
    /\ Goto(t, "delCopies", "delMeta")
    /\ copies' = [n \in Values |-> IF n <= op[t].v THEN 0 ELSE copies[n]]
    /\ UNCHANGED <<data, version, size, indexed, objectVars, puts,
                   historyVars>>

DelMeta(t) ==
    /\ Goto(t, "delMeta", "delIndex")
    /\ version' = 0 /\ size' = 0
    /\ UNCHANGED <<data, copies, indexed, objectVars, puts, historyVars>>

DelReturn(t) ==
    /\ Return(t, "delIndex")
    /\ indexed' = FALSE
    /\ UNCHANGED <<data, copies, version, size, objectVars, puts,
                   historyVars>>

-----------------------------------------------------------------------------
(* destroy: scan_keys, then a del for each key found.  No other operation  *)
(* looks at destroyed_.                                                    *)

DATA == 0
META == -1
INDEX == -2

Present ==
    {n \in Values : copies[n] # 0}
      \cup {x \in {DATA, META, INDEX} :
              \/ x = DATA /\ data # 0
              \/ x = META /\ (version # 0 \/ size # 0)
              \/ x = INDEX /\ indexed}

Destroy(t) ==
    /\ acl[ProcessOf[t]] # {}
    /\ Exclusive(ProcessOf[t])
    /\ ~destroyed[ProcessOf[t]]
    /\ Begin(t, "destroyScan", Owner)
    /\ NoteOverlap(t, TRUE)
    /\ UNCHANGED <<redisVars, objectVars, puts, finished, partial>>

DestroyScan(t) ==
    /\ op[t].at = "destroyScan"
    /\ op' = [op EXCEPT ![t].at = "destroyDelete", ![t].scan = Present]
    /\ finished' = {}
    /\ UNCHANGED <<redisVars, objectVars, puts, mixed, crossed, partial>>

DestroyDelete(t) ==
    LET found == op[t].scan
    IN  /\ op[t].at = "destroyDelete"
        /\ data' = IF DATA \in found THEN 0 ELSE data
        /\ copies' = [n \in Values |-> IF n \in found THEN 0 ELSE copies[n]]
        /\ version' = IF META \in found THEN 0 ELSE version
        /\ size' = IF META \in found THEN 0 ELSE size
        /\ indexed' = (indexed /\ INDEX \notin found)
        /\ destroyed' = [destroyed EXCEPT ![ProcessOf[t]] = TRUE]
        /\ op' = [Raced(t) EXCEPT ![t] = Idle]
        /\ UNCHANGED <<acl, puts, historyVars>>

-----------------------------------------------------------------------------
(* The access list and the registry.  A registry hands out plain pointers: *)
(* that nobody is inside a workspace when it is removed is up to the       *)
(* callers.                                                                *)

SetAcl(p, apps) ==
    /\ acl' = [acl EXCEPT ![p] = apps]
    /\ UNCHANGED <<redisVars, destroyed, op, puts, historyVars>>

Grant(p, app) == acl[p] # {} /\ Exclusive(p) /\ SetAcl(p, acl[p] \cup {app})

(* Seeded fault: the list is changed without the lock. *)
RevokeUnlocked(p, app) == app # Owner /\ SetAcl(p, acl[p] \ {app})

Revoke(p, app) == app # Owner /\ Exclusive(p) /\ SetAcl(p, acl[p] \ {app})

Create(p) ==
    /\ acl[p] = {}
    /\ SetAcl(p, {Owner})

Remove(p) ==
    /\ acl[p] # {} /\ Exclusive(p)
    /\ acl' = [acl EXCEPT ![p] = {}]
    /\ destroyed' = [destroyed EXCEPT ![p] = FALSE]
    /\ UNCHANGED <<redisVars, op, puts, historyVars>>

-----------------------------------------------------------------------------
(* Redis *)

(* A command throws: the operation ends where it is. *)
Error(t) ==
    /\ Inside(t)
    /\ IF op[t].at \in Halfway THEN /\ partial < MaxPartial
                                   /\ partial' = partial + 1
                              ELSE UNCHANGED partial
    /\ op' = [op EXCEPT ![t] = Idle]
    /\ UNCHANGED <<redisVars, objectVars, puts, finished, mixed, crossed>>

(* The time to live of the last put is over, and with it those before; the *)
(* index has none.                                                         *)
Expire ==
    /\ Ttl
    /\ \A t \in Threads : ~Changing(t)
    /\ version # 0
    /\ data' = 0 /\ version' = 0 /\ size' = 0
    /\ copies' = [n \in Values |-> 0]
    /\ finished' = {}
    /\ op' = [t \in Threads |-> [op[t] EXCEPT !.raced = @ \/ op[t].at = "getFetch"]]
    /\ UNCHANGED <<indexed, objectVars, puts, mixed, crossed, partial>>

-----------------------------------------------------------------------------
Next ==
    \/ Expire
    \/ \E p \in Processes :
         Create(p) \/ Remove(p) \/ \E app \in Apps : Grant(p, app) \/ Revoke(p, app)
    \/ \E t \in Threads :
         \/ \E app \in AppsOf[t] : Put(t, app) \/ Get(t, app) \/ Del(t, app)
         \/ PutVersion(t) \/ PutData(t) \/ PutCopy(t) \/ PutMeta(t) \/ PutReturn(t)
         \/ GetExists(t) \/ GetFetch(t)
         \/ DelRead(t) \/ DelData(t) \/ DelCopies(t) \/ DelMeta(t) \/ DelReturn(t)
         \/ Destroy(t) \/ DestroyScan(t) \/ DestroyDelete(t)
         \/ Error(t)

Spec == Init /\ [][Next]_wsvars

-----------------------------------------------------------------------------
(* The type of every variable; a put works with a version of its own, from *)
(* 1 on.                                                                   *)
WorkspaceTypeOK ==
    /\ data \in 0 .. MaxPuts /\ size \in 0 .. MaxPuts
    /\ version \in 0 .. MaxPuts
    /\ copies \in [Values -> 0 .. MaxPuts]
    /\ acl \in [Processes -> SUBSET Apps]
    /\ \A t \in Threads : op[t].at \in {"putData", "putCopy", "putMeta", "putIndex"} =>
         op[t].v \in Values /\ op[t].value \in Values

(* What put returned as a version can be read back as that version, for    *)
(* all processes at once and whatever later puts do or fail to do: hincrby *)
(* gives every put a number of its own.  Only a deletion that another      *)
(* process runs into may break it.                                         *)
VersionsKept ==
    ~crossed => \A f \in finished : copies[f[1]] = f[2]

(* When nobody is changing the key, its current value is the newest        *)
(* version and it is listed, or nothing of it is left: unless an operation *)
(* stopped half way or two processes overlapped, as version and value are  *)
(* set by different commands.                                              *)
KeyConsistent ==
    (~mixed /\ partial = 0 /\ \A t \in Threads : ~Changing(t)) =>
      IF version = 0
      THEN data = 0 /\ \A n \in Values : copies[n] = 0
      ELSE data # 0 /\ data = copies[version] /\ size = data /\ indexed

(* A get that has seen the key still finds its value, so that an empty     *)
(* answer is an empty value: only another process can delete in between.   *)
NoEmptyGet ==
    \A t \in Threads : op[t].at = "getFetch" /\ ~op[t].raced => data # 0

(* Nobody is inside a workspace on behalf of an application that has been  *)
(* revoked: once revoke_access returns, its operations are over.           *)
AccessHeld ==
    \A t \in Threads : Inside(t) => op[t].app \in acl[ProcessOf[t]]
=============================================================================
