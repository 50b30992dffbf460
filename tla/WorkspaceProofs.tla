--------------------------- MODULE WorkspaceProofs ---------------------------
(***************************************************************************)
(* Proofs about Workspace, for any number of processes, threads, versions  *)
(* and failing commands.                                                   *)
(***************************************************************************)
EXTENDS Workspace, FiniteSetTheorems, TLAPS

-----------------------------------------------------------------------------
(* The inductive invariant *)

PutSteps == {"putData", "putCopy", "putMeta", "putIndex"}

Phases == {"idle", "putVersion"} \cup PutSteps \cup Readers \cup Deleters

Operations == [at : Phases, app : Apps, v : 0 .. MaxPuts, value : 0 .. MaxPuts,
               raced : BOOLEAN, scan : SUBSET Int]

(* Threads that are about to draw a version. *)
Drawing == {t \in Threads : op[t].at = "putVersion"}

Types ==
    /\ data \in 0 .. MaxPuts /\ size \in 0 .. MaxPuts
    /\ version \in 0 .. MaxPuts
    /\ copies \in [Values -> 0 .. MaxPuts]
    /\ indexed \in BOOLEAN
    /\ acl \in [Processes -> SUBSET Apps]
    /\ op \in [Threads -> Operations]
    /\ puts \in 0 .. MaxPuts
    /\ finished \subseteq Values \X Values
    /\ mixed \in BOOLEAN /\ crossed \in BOOLEAN
    /\ partial \in Nat

(* Every version belongs to a put: the version never outgrows the puts.    *)
Numbered ==
    /\ IsFiniteSet(Drawing)
    /\ version + Cardinality(Drawing) <= puts
    /\ \A t \in Threads :
         /\ op[t].at = "putVersion" => op[t].value \in Values
         /\ op[t].at \in PutSteps => op[t].v \in Values /\ op[t].value \in Values

(* mu_: a thread that changes the key is alone in its process, and acts    *)
(* for an application on the list, which always names the owner.           *)
Locks ==
    /\ \A t, u \in Threads :
         ProcessOf[t] = ProcessOf[u] /\ Changing(t) /\ Inside(u) => t = u
    /\ \A p \in Processes : acl[p] # {} => Owner \in acl[p]
    /\ AccessHeld

(* What the history variables remember: two changers at a time are mixed,  *)
(* and crossed if one of them deletes.                                     *)
Overlaps ==
    /\ ~mixed => \A t, u \in Threads : Changing(t) /\ Changing(u) => t = u
    /\ ~crossed => \A t, u \in Threads :
                     op[t].at \in Deleters /\ Changing(u) => t = u

(* A put keeps the version it drew to itself until it returns, and         *)
(* deleting forgets what had returned.                                     *)
Versions ==
    ~crossed =>
      /\ \A f \in finished : f[1] <= version /\ copies[f[1]] = f[2]
      /\ \A t \in Threads :
           /\ op[t].at \in PutSteps =>
                op[t].v <= version /\ \A f \in finished : f[1] # op[t].v
           /\ op[t].at \in {"putMeta", "putIndex"} => copies[op[t].v] = op[t].value
           /\ op[t].at \in Deleters \ {"delRead", "destroyScan"} => finished = {}
      /\ \A t, u \in Threads :
           op[t].at \in PutSteps /\ op[u].at \in PutSteps /\ op[t].v = op[u].v => t = u

(* The key between two operations ... *)
Settled ==
    IF version = 0
    THEN data = 0 /\ \A n \in Values : copies[n] = 0
    ELSE data # 0 /\ data = copies[version] /\ size = data /\ indexed

(* ... and where a single operation has got to. *)
Progress(t) ==
    LET o == op[t] IN
    /\ o.at \in {"putVersion", "delRead", "delData", "destroyScan", "destroyDelete"} =>
         Settled
    /\ o.at \in PutSteps => o.v = version
    /\ o.at \in PutSteps \ {"putData"} => data = o.value
    /\ o.at \in {"putMeta", "putIndex"} => copies[o.v] = o.value
    /\ o.at = "putIndex" => size = o.value
    /\ o.at \in {"delData", "delCopies"} => o.v = version
    /\ o.at \in {"delCopies", "delMeta", "delIndex"} => data = 0
    /\ o.at \in {"delMeta", "delIndex"} => \A n \in Values : copies[n] = 0
    /\ o.at = "delIndex" => version = 0
    /\ o.at = "destroyDelete" => o.scan = Present

Key ==
    ~mixed /\ partial = 0 =>
      /\ \A n \in Values : n > version => copies[n] = 0
      /\ (\A t \in Threads : ~Changing(t)) => Settled
      /\ \A t \in Threads : Progress(t)

WsInv == Types /\ Numbered /\ Locks /\ Overlaps /\ Versions /\ Key /\ NoEmptyGet
-----------------------------------------------------------------------------
(* What the steps of a thread do to the operations *)

(* An operation another thread leaves alone, except that it may note a     *)
(* deletion under a get.                                                   *)
Keeps(u) ==
    /\ op'[u].at = op[u].at
    /\ op'[u].app = op[u].app
    /\ op'[u].v = op[u].v
    /\ op'[u].value = op[u].value
    /\ op'[u].scan = op[u].scan
    /\ op[u].raced => op'[u].raced

OthersKeep(t) == op' \in [Threads -> Operations] /\ \A u \in Threads \ {t} : Keeps(u)

Goes(t, from, to) ==
    /\ OthersKeep(t)
    /\ op[t].at = from
    /\ op'[t].at = to
    /\ op'[t].app = op[t].app
    /\ op'[t].v = op[t].v
    /\ op'[t].value = op[t].value

Ends(t, from) ==
    /\ OthersKeep(t)
    /\ op[t].at = from
    /\ op'[t].at = "idle"

Begins(t, to, app) ==
    /\ OthersKeep(t)
    /\ op[t].at = "idle"
    /\ op'[t].at = to
    /\ op'[t].app = app

\* A changed phase is again an operation, and its other fields stay.
LEMMA NewPhase ==
    ASSUME NEW o \in Operations, NEW a \in Phases
    PROVE  /\ [o EXCEPT !.at = a] \in Operations
           /\ [o EXCEPT !.at = a].at = a
           /\ [o EXCEPT !.at = a].app = o.app
           /\ [o EXCEPT !.at = a].v = o.v
           /\ [o EXCEPT !.at = a].value = o.value
           /\ [o EXCEPT !.at = a].raced = o.raced
           /\ [o EXCEPT !.at = a].scan = o.scan
BY DEF Operations

\* So is one with another version, another scan or a noted race.
LEMMA NewVersion ==
    ASSUME NEW o \in Operations, NEW n \in 0 .. MaxPuts
    PROVE  /\ [o EXCEPT !.v = n] \in Operations
           /\ [o EXCEPT !.v = n].v = n
           /\ [o EXCEPT !.v = n].at = o.at
           /\ [o EXCEPT !.v = n].app = o.app
           /\ [o EXCEPT !.v = n].value = o.value
BY DEF Operations

LEMMA NewScan ==
    ASSUME NEW o \in Operations, NEW s \in SUBSET Int
    PROVE  /\ [o EXCEPT !.scan = s] \in Operations
           /\ [o EXCEPT !.scan = s].scan = s
           /\ [o EXCEPT !.scan = s].at = o.at
           /\ [o EXCEPT !.scan = s].app = o.app
BY DEF Operations

LEMMA NewRaced ==
    ASSUME NEW o \in Operations, NEW r \in BOOLEAN
    PROVE  /\ [o EXCEPT !.raced = r] \in Operations
           /\ [o EXCEPT !.raced = r].raced = r
           /\ [o EXCEPT !.raced = r].at = o.at
           /\ [o EXCEPT !.raced = r].app = o.app
           /\ [o EXCEPT !.raced = r].v = o.v
           /\ [o EXCEPT !.raced = r].value = o.value
           /\ [o EXCEPT !.raced = r].scan = o.scan
BY DEF Operations

\* The idle operation.
LEMMA IdleIsOperation ==
    Idle \in Operations /\ Idle.at = "idle" /\ Idle.raced = FALSE
BY WorkspaceAssumption DEF Idle, Operations, Phases

\* Goto changes one phase.
LEMMA GotoGoes ==
    ASSUME op \in [Threads -> Operations], NEW t \in Threads, NEW from,
           NEW to \in Phases, Goto(t, from, to)
    PROVE  Goes(t, from, to)
<1>1. op' = [op EXCEPT ![t] = [op[t] EXCEPT !.at = to]] /\ op[t].at = from
    BY DEF Goto
<1>2. [op[t] EXCEPT !.at = to] \in Operations
    BY NewPhase
<1>3. op' \in [Threads -> Operations]
    BY <1>1, <1>2
<1>4. op'[t] = [op[t] EXCEPT !.at = to] /\ \A u \in Threads \ {t} : op'[u] = op[u]
    BY <1>1
<1> QED BY <1>1, <1>3, <1>4, NewPhase DEF Goes, OthersKeep, Keeps

\* Return ends the operation.
LEMMA ReturnEnds ==
    ASSUME op \in [Threads -> Operations], NEW t \in Threads, NEW from, Return(t, from)
    PROVE  Ends(t, from)
<1>1. op' = [op EXCEPT ![t] = Idle] /\ op[t].at = from
    BY DEF Return
<1> HIDE DEF Idle
<1>2. op' \in [Threads -> Operations]
    BY <1>1, IdleIsOperation
<1>3. op'[t] = Idle /\ \A u \in Threads \ {t} : op'[u] = op[u]
    BY <1>1
<1> QED BY <1>1, <1>2, <1>3, IdleIsOperation DEF Ends, OthersKeep, Keeps

\* An error ends it too.
LEMMA ErrorEnds ==
    ASSUME op \in [Threads -> Operations], NEW t \in Threads, Error(t)
    PROVE  Ends(t, op[t].at)
<1>1. Return(t, op[t].at)
    BY DEF Error, Return
<1> QED BY <1>1, ReturnEnds

\* Begin starts one for an application; put gives it a value as well.
LEMMA BeginBegins ==
    ASSUME op \in [Threads -> Operations], NEW t \in Threads,
           NEW to \in Phases, NEW app \in Apps, NEW n \in 0 .. MaxPuts, op[t] = Idle,
           \/ op' = [op EXCEPT ![t] = [Idle EXCEPT !.at = to, !.app = app]]
           \/ op' = [op EXCEPT ![t] = [Idle EXCEPT !.at = to, !.app = app, !.value = n]]
    PROVE  Begins(t, to, app)
<1> DEFINE a == [Idle EXCEPT !.at = to, !.app = app]
           b == [Idle EXCEPT !.at = to, !.app = app, !.value = n]
<1>1. a \in Operations /\ a.at = to /\ a.app = app
    BY IdleIsOperation DEF Operations
<1>2. b \in Operations /\ b.at = to /\ b.app = app
    BY IdleIsOperation DEF Operations
<1> HIDE DEF a, b
<1>3. op' = [op EXCEPT ![t] = a] \/ op' = [op EXCEPT ![t] = b]
    BY DEF a, b
<1>4. op' \in [Threads -> Operations]
    BY <1>1, <1>2, <1>3
<1>5. (op'[t] = a \/ op'[t] = b) /\ \A u \in Threads \ {t} : op'[u] = op[u]
    BY <1>3
<1> QED BY <1>1, <1>2, <1>4, <1>5, IdleIsOperation DEF Begins, OthersKeep, Keeps

\* A put begins with a value of its own.
LEMMA PutBegins ==
    ASSUME Types, NEW t \in Threads, NEW app \in Apps, Put(t, app)
    PROVE  Begins(t, "putVersion", app) /\ op'[t].value = puts + 1 /\ puts + 1 \in Values
<1>1. puts + 1 \in Values /\ puts + 1 \in 0 .. MaxPuts
    BY WorkspaceAssumption DEF Put, Types, Values
<1>2. /\ op[t] = Idle
      /\ op' = [op EXCEPT ![t] = [Idle EXCEPT !.at = "putVersion", !.app = app,
                                              !.value = puts + 1]]
    BY DEF Put
<1>3. op \in [Threads -> Operations] /\ "putVersion" \in Phases
    BY DEF Types, Phases
<1>4. Begins(t, "putVersion", app)
    BY <1>1, <1>2, <1>3, BeginBegins
<1>5. op'[t] = [Idle EXCEPT !.at = "putVersion", !.app = app, !.value = puts + 1]
    BY <1>2, <1>3
<1>6. op'[t].value = puts + 1
    BY <1>5, IdleIsOperation DEF Idle
<1> QED BY <1>1, <1>4, <1>6

\* Drawing a version.
LEMMA PutVersionGoes ==
    ASSUME Types, NEW t \in Threads, PutVersion(t), version + 1 \in 0 .. MaxPuts
    PROVE  /\ OthersKeep(t)
           /\ op[t].at = "putVersion" /\ op'[t].at = "putData"
           /\ op'[t].app = op[t].app
           /\ op'[t].v = version + 1
           /\ op'[t].value = op[t].value
<1> DEFINE o == [op[t] EXCEPT !.at = "putData"]
           q == [o EXCEPT !.v = version + 1]
<1>1. op \in [Threads -> Operations] /\ "putData" \in Phases
    BY DEF Types, Phases, PutSteps
<1>2. o \in Operations /\ o.at = "putData" /\ o.app = op[t].app /\ o.value = op[t].value
    BY <1>1, NewPhase
<1>3. op[t].at = "putVersion" /\ op' = [op EXCEPT ![t] = q]
    BY DEF PutVersion
<1> HIDE DEF o
<1>4. /\ q \in Operations /\ q.at = "putData" /\ q.app = op[t].app
      /\ q.value = op[t].value /\ q.v = version + 1
    BY <1>2, NewVersion
<1> HIDE DEF q
<1>5. op' \in [Threads -> Operations] /\ op'[t] = q
    BY <1>1, <1>3, <1>4
<1>6. \A u \in Threads \ {t} : op'[u] = op[u]
    BY <1>1, <1>3
<1> QED BY <1>3, <1>4, <1>5, <1>6 DEF OthersKeep, Keeps

\* Reading the version of what is to be deleted.
LEMMA DelReadGoes ==
    ASSUME Types, NEW t \in Threads, DelRead(t)
    PROVE  IF version = 0
           THEN Ends(t, "delRead")
           ELSE /\ OthersKeep(t)
                /\ op[t].at = "delRead" /\ op'[t].at = "delData"
                /\ op'[t].app = op[t].app
                /\ op'[t].v = version
<1> DEFINE o == [op[t] EXCEPT !.at = "delData"]
           q == [o EXCEPT !.v = version]
<1>1. op \in [Threads -> Operations] /\ "delData" \in Phases
    BY DEF Types, Phases, Deleters
<1>2. CASE version = 0
    <2>1. Return(t, "delRead")
        BY <1>2 DEF DelRead, Return
    <2> QED BY <1>1, <1>2, <2>1, ReturnEnds
<1>3. CASE version # 0
    <2>1. o \in Operations /\ o.at = "delData" /\ o.app = op[t].app
        BY <1>1, NewPhase
    <2>2. op[t].at = "delRead" /\ op' = [op EXCEPT ![t] = q]
        BY <1>3 DEF DelRead
    <2>3. version \in 0 .. MaxPuts
        BY DEF Types
    <2> HIDE DEF o
    <2>4. q \in Operations /\ q.at = "delData" /\ q.app = op[t].app /\ q.v = version
        BY <2>1, <2>3, NewVersion
    <2> HIDE DEF q
    <2>5. op' \in [Threads -> Operations] /\ op'[t] = q
        BY <1>1, <2>2, <2>4
    <2>6. \A u \in Threads \ {t} : op'[u] = op[u]
        BY <1>1, <2>2
    <2> QED BY <1>3, <2>2, <2>4, <2>5, <2>6 DEF OthersKeep, Keeps
<1> QED BY <1>2, <1>3

\* Listing the keys of the workspace.
LEMMA DestroyScanGoes ==
    ASSUME Types, NEW t \in Threads, DestroyScan(t)
    PROVE  /\ OthersKeep(t)
           /\ op[t].at = "destroyScan" /\ op'[t].at = "destroyDelete"
           /\ op'[t].app = op[t].app
           /\ op'[t].scan = Present
<1> DEFINE o == [op[t] EXCEPT !.at = "destroyDelete"]
           q == [o EXCEPT !.scan = Present]
<1>1. op \in [Threads -> Operations] /\ "destroyDelete" \in Phases
    BY DEF Types, Phases, Deleters
<1>2. o \in Operations /\ o.at = "destroyDelete" /\ o.app = op[t].app
    BY <1>1, NewPhase
<1>3. op[t].at = "destroyScan" /\ op' = [op EXCEPT ![t] = q]
    BY DEF DestroyScan
<1>4. Present \in SUBSET Int
    BY WorkspaceAssumption DEF Present, DATA, META, INDEX, Values
<1> HIDE DEF o
<1>5. q \in Operations /\ q.at = "destroyDelete" /\ q.app = op[t].app /\ q.scan = Present
    BY <1>2, <1>4, NewScan
<1> HIDE DEF q
<1>6. op' \in [Threads -> Operations] /\ op'[t] = q
    BY <1>1, <1>3, <1>5
<1>7. \A u \in Threads \ {t} : op'[u] = op[u]
    BY <1>1, <1>3
<1> QED BY <1>3, <1>5, <1>6, <1>7 DEF OthersKeep, Keeps

\* Deleting the value is noted under the gets of other processes.
LEMMA RacedKeeps ==
    ASSUME Types, NEW t \in Threads
    PROVE  /\ Raced(t) \in [Threads -> Operations]
           /\ \A u \in Threads :
                /\ Raced(t)[u].at = op[u].at
                /\ Raced(t)[u].app = op[u].app
                /\ Raced(t)[u].v = op[u].v
                /\ Raced(t)[u].value = op[u].value
                /\ Raced(t)[u].scan = op[u].scan
                /\ op[u].raced => Raced(t)[u].raced
                /\ ProcessOf[u] # ProcessOf[t] /\ op[u].at = "getFetch" => Raced(t)[u].raced
<1> DEFINE flag(u) == op[u].raced \/ (/\ ProcessOf[u] # ProcessOf[t]
                                      /\ op[u].at = "getFetch")
<1>1. op \in [Threads -> Operations]
    BY DEF Types
<1>2. \A u \in Threads : flag(u) \in BOOLEAN
    BY <1>1 DEF Operations
<1>3. Raced(t) = [u \in Threads |-> [op[u] EXCEPT !.raced = flag(u)]]
    BY Zenon DEF Raced
<1>4. \A u \in Threads :
         /\ op[u].raced => flag(u)
         /\ ProcessOf[u] # ProcessOf[t] /\ op[u].at = "getFetch" => flag(u)
    OBVIOUS
<1> HIDE DEF flag
<1>5. ASSUME NEW u \in Threads
      PROVE  /\ [op[u] EXCEPT !.raced = flag(u)] \in Operations
             /\ [op[u] EXCEPT !.raced = flag(u)].at = op[u].at
             /\ [op[u] EXCEPT !.raced = flag(u)].app = op[u].app
             /\ [op[u] EXCEPT !.raced = flag(u)].v = op[u].v
             /\ [op[u] EXCEPT !.raced = flag(u)].value = op[u].value
             /\ [op[u] EXCEPT !.raced = flag(u)].scan = op[u].scan
             /\ [op[u] EXCEPT !.raced = flag(u)].raced = flag(u)
    <2>1. op[u] \in Operations /\ flag(u) \in BOOLEAN
        BY <1>1, <1>2
    <2> QED BY <2>1, NewRaced
<1> QED BY <1>3, <1>4, <1>5

RaceNoted(t) ==
    \A u \in Threads : ProcessOf[u] # ProcessOf[t] /\ op[u].at = "getFetch" => op'[u].raced

\* del takes the value away.
LEMMA DelDataGoes ==
    ASSUME Types, NEW t \in Threads, DelData(t)
    PROVE  Goes(t, "delData", "delCopies") /\ RaceNoted(t)
<1> DEFINE r == Raced(t)
           o == [r[t] EXCEPT !.at = "delCopies"]
<1>1. /\ r \in [Threads -> Operations]
      /\ \A u \in Threads :
           /\ r[u].at = op[u].at
           /\ r[u].app = op[u].app
           /\ r[u].v = op[u].v
           /\ r[u].value = op[u].value
           /\ r[u].scan = op[u].scan
           /\ op[u].raced => r[u].raced
           /\ ProcessOf[u] # ProcessOf[t] /\ op[u].at = "getFetch" => r[u].raced
    BY RacedKeeps
<1>2. op[t].at = "delData" /\ op' = [r EXCEPT ![t] = o]
    BY DEF DelData
<1> HIDE DEF r
<1>3. "delCopies" \in Phases
    BY DEF Phases, Deleters
<1>4. o \in Operations /\ o.at = "delCopies" /\ o.app = r[t].app /\ o.v = r[t].v
        /\ o.value = r[t].value
    BY <1>1, <1>3, NewPhase
<1> HIDE DEF o
<1>5. op' \in [Threads -> Operations] /\ op'[t] = o
    BY <1>1, <1>2, <1>4
<1>6. \A u \in Threads \ {t} : op'[u] = r[u]
    BY <1>1, <1>2
<1>7. OthersKeep(t)
    BY <1>1, <1>5, <1>6 DEF OthersKeep, Keeps
<1> QED BY <1>1, <1>2, <1>4, <1>5, <1>6, <1>7 DEF Goes, RaceNoted

\* So does destroy.
LEMMA DestroyDeleteEnds ==
    ASSUME Types, NEW t \in Threads, DestroyDelete(t)
    PROVE  Ends(t, "destroyDelete") /\ RaceNoted(t)
<1> DEFINE r == Raced(t)
<1>1. /\ r \in [Threads -> Operations]
      /\ \A u \in Threads :
           /\ r[u].at = op[u].at
           /\ r[u].app = op[u].app
           /\ r[u].v = op[u].v
           /\ r[u].value = op[u].value
           /\ r[u].scan = op[u].scan
           /\ op[u].raced => r[u].raced
           /\ ProcessOf[u] # ProcessOf[t] /\ op[u].at = "getFetch" => r[u].raced
    BY RacedKeeps
<1>2. op[t].at = "destroyDelete" /\ op' = [r EXCEPT ![t] = Idle]
    BY DEF DestroyDelete
<1> HIDE DEF r
<1>3. op' \in [Threads -> Operations] /\ op'[t] = Idle
    BY <1>1, <1>2, IdleIsOperation
<1>4. \A u \in Threads \ {t} : op'[u] = r[u]
    BY <1>1, <1>2
<1>5. OthersKeep(t)
    BY <1>1, <1>3, <1>4 DEF OthersKeep, Keeps
<1> QED BY <1>1, <1>2, <1>3, <1>4, <1>5, IdleIsOperation DEF Ends, RaceNoted

\* And so does the end of the time to live, under every get.
LEMMA ExpireKeeps ==
    ASSUME Types, Expire
    PROVE  /\ op' \in [Threads -> Operations]
           /\ \A u \in Threads : Keeps(u)
           /\ \A u \in Threads : op[u].at = "getFetch" => op'[u].raced
<1> DEFINE flag(u) == op[u].raced \/ op[u].at = "getFetch"
<1>1. op \in [Threads -> Operations]
    BY DEF Types
<1>2. \A u \in Threads : flag(u) \in BOOLEAN
    BY <1>1 DEF Operations
<1>3. op' = [u \in Threads |-> [op[u] EXCEPT !.raced = flag(u)]]
    BY Zenon DEF Expire
<1>4. \A u \in Threads : (op[u].raced => flag(u)) /\ (op[u].at = "getFetch" => flag(u))
    OBVIOUS
<1> HIDE DEF flag
<1>5. ASSUME NEW u \in Threads
      PROVE  /\ [op[u] EXCEPT !.raced = flag(u)] \in Operations
             /\ [op[u] EXCEPT !.raced = flag(u)].at = op[u].at
             /\ [op[u] EXCEPT !.raced = flag(u)].app = op[u].app
             /\ [op[u] EXCEPT !.raced = flag(u)].v = op[u].v
             /\ [op[u] EXCEPT !.raced = flag(u)].value = op[u].value
             /\ [op[u] EXCEPT !.raced = flag(u)].scan = op[u].scan
             /\ [op[u] EXCEPT !.raced = flag(u)].raced = flag(u)
    <2>1. op[u] \in Operations /\ flag(u) \in BOOLEAN
        BY <1>1, <1>2
    <2> QED BY <2>1, NewRaced
<1> QED BY <1>3, <1>4, <1>5 DEF Keeps

\* The steps that only move a thread on, or end its operation.
LEMMA PutGoes ==
    ASSUME Types, NEW t \in Threads
    PROVE  /\ PutData(t) => Goes(t, "putData", "putCopy")
           /\ PutCopy(t) => Goes(t, "putCopy", "putMeta")
           /\ PutMeta(t) => Goes(t, "putMeta", "putIndex")
BY GotoGoes DEF PutData, PutCopy, PutMeta, Types, Phases, PutSteps

LEMMA DelGoes ==
    ASSUME Types, NEW t \in Threads
    PROVE  /\ DelCopies(t) => Goes(t, "delCopies", "delMeta")
           /\ DelMeta(t) => Goes(t, "delMeta", "delIndex")
BY GotoGoes DEF DelCopies, DelMeta, Types, Phases, Deleters

LEMMA ReturnsEnd ==
    ASSUME Types, NEW t \in Threads
    PROVE  /\ PutReturn(t) => Ends(t, "putIndex")
           /\ GetFetch(t) => Ends(t, "getFetch")
           /\ DelReturn(t) => Ends(t, "delIndex")
BY ReturnEnds DEF PutReturn, GetFetch, DelReturn, Types

LEMMA GetExistsGoes ==
    ASSUME Types, NEW t \in Threads, GetExists(t)
    PROVE  IF data = 0 THEN Ends(t, "getExists") ELSE Goes(t, "getExists", "getFetch")
<1>1. op \in [Threads -> Operations] /\ "getFetch" \in Phases
    BY DEF Types, Phases, Readers
<1>2. IF data = 0 THEN Return(t, "getExists") ELSE Goto(t, "getExists", "getFetch")
    BY DEF GetExists
<1> QED BY <1>1, <1>2, ReturnEnds, GotoGoes

\* The steps that begin an operation on behalf of an application.
LEMMA GetBegins ==
    ASSUME Types, NEW t \in Threads, NEW app \in Apps, Get(t, app)
    PROVE  Begins(t, "getExists", app)
<1>1. op \in [Threads -> Operations] /\ "getExists" \in Phases /\ 0 \in 0 .. MaxPuts
    BY WorkspaceAssumption DEF Types, Phases, Readers
<1>2. op[t] = Idle /\ op' = [op EXCEPT ![t] = [Idle EXCEPT !.at = "getExists", !.app = app]]
    BY DEF Get, Begin
<1> QED BY <1>1, <1>2, BeginBegins

LEMMA DelBegins ==
    ASSUME Types, NEW t \in Threads, NEW app \in Apps, Del(t, app)
    PROVE  Begins(t, "delRead", app)
<1>1. op \in [Threads -> Operations] /\ "delRead" \in Phases /\ 0 \in 0 .. MaxPuts
    BY WorkspaceAssumption DEF Types, Phases, Deleters
<1>2. op[t] = Idle /\ op' = [op EXCEPT ![t] = [Idle EXCEPT !.at = "delRead", !.app = app]]
    BY DEF Del, Begin
<1> QED BY <1>1, <1>2, BeginBegins

LEMMA DestroyBegins ==
    ASSUME Types, NEW t \in Threads, Destroy(t)
    PROVE  Begins(t, "destroyScan", Owner)
<1>1. /\ op \in [Threads -> Operations] /\ "destroyScan" \in Phases
      /\ 0 \in 0 .. MaxPuts /\ Owner \in Apps
    BY WorkspaceAssumption DEF Types, Phases, Deleters
<1>2. /\ op[t] = Idle
      /\ op' = [op EXCEPT ![t] = [Idle EXCEPT !.at = "destroyScan", !.app = Owner]]
    BY DEF Destroy, Begin
<1> QED BY <1>1, <1>2, BeginBegins

-----------------------------------------------------------------------------
(* Types *)

\* Initially nobody works on the key and there is none.
LEMMA InitInv == Init => WsInv
<1> SUFFICES ASSUME Init PROVE WsInv
    OBVIOUS
<1> USE WorkspaceAssumption
<1>1. op \in [Threads -> Operations] /\ \A t \in Threads : op[t].at = "idle"
    BY IdleIsOperation DEF Init
<1>2. Types
    <2>1. data \in 0 .. MaxPuts /\ size \in 0 .. MaxPuts /\ version \in 0 .. MaxPuts
        BY DEF Init
    <2>2. copies \in [Values -> 0 .. MaxPuts]
        BY DEF Init
    <2>3. acl \in [Processes -> SUBSET Apps] /\ puts \in 0 .. MaxPuts /\ partial \in Nat
        BY DEF Init
    <2>4. indexed \in BOOLEAN /\ mixed \in BOOLEAN /\ crossed \in BOOLEAN /\ finished = {}
        BY DEF Init
    <2> QED BY <1>1, <2>1, <2>2, <2>3, <2>4 DEF Types
<1>3. Numbered
    <2>1. Drawing = {}
        BY <1>1 DEF Drawing
    <2>2. version = 0 /\ puts = 0
        BY DEF Init
    <2> QED BY <1>1, <2>1, <2>2, FS_EmptySet DEF Numbered, PutSteps
<1>4. Locks /\ Overlaps
    <2>1. \A t \in Threads : ~Inside(t) /\ op[t].at \notin Deleters
        BY <1>1 DEF Inside, Deleters
    <2>2. \A p \in Processes : acl[p] = {}
        BY DEF Init
    <2> QED BY <2>1, <2>2 DEF Locks, Overlaps, AccessHeld, Changing
<1>5. Versions
    <2>1. finished = {}
        BY DEF Init
    <2> QED BY <1>1, <2>1 DEF Versions, PutSteps, Deleters
<1>6. Key
    <2>1. Settled /\ \A n \in Values : copies[n] = 0
        BY DEF Init, Settled
    <2>2. \A t \in Threads : Progress(t)
        BY <1>1 DEF Progress, PutSteps
    <2> QED BY <2>1, <2>2 DEF Key
<1>7. NoEmptyGet
    BY <1>1 DEF NoEmptyGet
<1> QED BY <1>2, <1>3, <1>4, <1>5, <1>6, <1>7 DEF WsInv

\* While somebody is drawing a version there is still one to draw.
LEMMA VersionFits ==
    ASSUME Types, Numbered, NEW t \in Threads, op[t].at = "putVersion"
    PROVE  version + 1 \in Values
<1>1. t \in Drawing
    BY DEF Drawing
<1>2. Cardinality(Drawing) \in Nat /\ Cardinality(Drawing) # 0
    BY <1>1, FS_CardinalityType, FS_EmptySet DEF Numbered
<1> QED BY <1>2, WorkspaceAssumption DEF Numbered, Types, Values

\* Every operation keeps the types.
LEMMA StepTypes == WsInv /\ [Next]_wsvars => Types'
<1> SUFFICES ASSUME Types, Numbered, [Next]_wsvars PROVE Types'
    BY DEF WsInv
<1> USE WorkspaceAssumption DEF Values
<1>1. CASE Expire
    <2>1. op' \in [Threads -> Operations]
        BY <1>1, ExpireKeeps
    <2> QED BY <1>1, <2>1 DEF Expire, Types, objectVars
<1>2. ASSUME NEW p \in Processes, Create(p) \/ Remove(p) PROVE Types'
    <2>0. \E apps \in SUBSET Apps : acl' = [acl EXCEPT ![p] = apps]
        BY <1>2 DEF Create, Remove, SetAcl
    <2>1. acl' \in [Processes -> SUBSET Apps]
        BY <2>0 DEF Types
    <2>2. UNCHANGED <<redisVars, op, puts, historyVars>>
        BY <1>2 DEF Create, Remove, SetAcl
    <2> QED BY <2>1, <2>2 DEF Types, redisVars, historyVars
<1>3. ASSUME NEW p \in Processes, NEW app \in Apps, Grant(p, app) \/ Revoke(p, app)
      PROVE  Types'
    <2>1. acl[p] \cup {app} \in SUBSET Apps /\ acl[p] \ {app} \in SUBSET Apps
        BY DEF Types
    <2>2. acl' \in [Processes -> SUBSET Apps]
        BY <1>3, <2>1 DEF Grant, Revoke, SetAcl, Types
    <2> QED BY <1>3, <2>2 DEF Grant, Revoke, SetAcl, Types, redisVars, historyVars
<1>4. ASSUME NEW t \in Threads, NEW app \in Apps, Put(t, app) PROVE Types'
    <2>0. puts' = puts + 1
        BY <1>4 DEF Put
    <2>1. op' \in [Threads -> Operations] /\ puts' \in 0 .. MaxPuts
        BY <1>4, <2>0, PutBegins DEF Begins, OthersKeep
    <2>2. mixed' \in BOOLEAN /\ crossed' \in BOOLEAN
        BY <1>4 DEF Put, NoteOverlap
    <2> QED BY <1>4, <2>1, <2>2 DEF Put, Types, redisVars, objectVars
<1>5. ASSUME NEW t \in Threads, NEW app \in Apps, Get(t, app) PROVE Types'
    <2>1. op' \in [Threads -> Operations]
        BY <1>5, GetBegins DEF Begins, OthersKeep
    <2> QED BY <1>5, <2>1 DEF Get, Types, redisVars, objectVars, historyVars
<1>6. ASSUME NEW t \in Threads, NEW app \in Apps, Del(t, app) PROVE Types'
    <2>1. op' \in [Threads -> Operations]
        BY <1>6, DelBegins DEF Begins, OthersKeep
    <2>2. mixed' \in BOOLEAN /\ crossed' \in BOOLEAN
        BY <1>6 DEF Del, NoteOverlap
    <2> QED BY <1>6, <2>1, <2>2 DEF Del, Types, redisVars, objectVars
<1>7. ASSUME NEW t \in Threads, PutVersion(t) PROVE Types'
    <2>1. version + 1 \in 0 .. MaxPuts
        BY <1>7, VersionFits DEF PutVersion
    <2>2. op' \in [Threads -> Operations]
        BY <1>7, <2>1, PutVersionGoes DEF OthersKeep
    <2> QED BY <1>7, <2>1, <2>2 DEF PutVersion, Types, objectVars, historyVars
<1>8. ASSUME NEW t \in Threads, PutData(t) PROVE Types'
    <2>1. Goes(t, "putData", "putCopy")
        BY <1>8, PutGoes
    <2>2. op[t].value \in Values
        BY <2>1 DEF Goes, Numbered, PutSteps
    <2> QED BY <1>8, <2>1, <2>2 DEF PutData, Goes, OthersKeep, Types, objectVars, historyVars
<1>9. ASSUME NEW t \in Threads, PutCopy(t) PROVE Types'
    <2>1. Goes(t, "putCopy", "putMeta")
        BY <1>9, PutGoes
    <2>2. op[t].value \in Values
        BY <2>1 DEF Goes, Numbered, PutSteps
    <2>3. copies' \in [Values -> 0 .. MaxPuts]
        <3>1. copies \in [Values -> 0 .. MaxPuts]
            BY DEF Types
        <3>2. copies' = [copies EXCEPT ![op[t].v] = op[t].value]
            BY <1>9 DEF PutCopy
        <3> DEFINE v == op[t].v
                   n == op[t].value
        <3>3. n \in 0 .. MaxPuts
            BY <2>2
        <3> HIDE DEF v, n
        <3>4. copies' = [copies EXCEPT ![v] = n]
            BY <3>2 DEF v, n
        <3> QED BY <3>1, <3>3, <3>4
    <2>4. UNCHANGED <<data, version, size, indexed, objectVars, puts, historyVars>>
        BY <1>9 DEF PutCopy
    <2> QED BY <2>1, <2>3, <2>4 DEF Goes, OthersKeep, Types, objectVars, historyVars
<1>10. ASSUME NEW t \in Threads, PutMeta(t) PROVE Types'
    <2>1. Goes(t, "putMeta", "putIndex")
        BY <1>10, PutGoes
    <2>2. op[t].value \in Values
        BY <2>1 DEF Goes, Numbered, PutSteps
    <2> QED BY <1>10, <2>1, <2>2 DEF PutMeta, Goes, OthersKeep, Types, objectVars, historyVars
<1>11. ASSUME NEW t \in Threads, PutReturn(t) PROVE Types'
    <2>1. Ends(t, "putIndex")
        BY <1>11, ReturnsEnd
    <2>2. op[t].v \in Values /\ op[t].value \in Values
        BY <2>1 DEF Ends, Numbered, PutSteps
    <2> QED BY <1>11, <2>1, <2>2 DEF PutReturn, Ends, OthersKeep, Types, objectVars
<1>12. ASSUME NEW t \in Threads, GetExists(t) \/ GetFetch(t) PROVE Types'
    <2>1. op' \in [Threads -> Operations]
        BY <1>12, ReturnsEnd, GetExistsGoes DEF Ends, Goes, OthersKeep
    <2> QED BY <1>12, <2>1 DEF GetExists, GetFetch, Types, redisVars, objectVars, historyVars
<1>13. ASSUME NEW t \in Threads, DelRead(t) PROVE Types'
    <2>1. op' \in [Threads -> Operations]
        BY <1>13, DelReadGoes DEF Ends, OthersKeep
    <2> QED BY <1>13, <2>1 DEF DelRead, Types, redisVars, objectVars
<1>14. ASSUME NEW t \in Threads, DelData(t) PROVE Types'
    <2>1. op' \in [Threads -> Operations]
        BY <1>14, DelDataGoes DEF Goes, OthersKeep
    <2> QED BY <1>14, <2>1 DEF DelData, Types, objectVars, historyVars
<1>15. ASSUME NEW t \in Threads, DelCopies(t) PROVE Types'
    <2>1. op' \in [Threads -> Operations]
        BY <1>15, DelGoes DEF Goes, OthersKeep
    <2> QED BY <1>15, <2>1 DEF DelCopies, Types, objectVars, historyVars
<1>16. ASSUME NEW t \in Threads, DelMeta(t) PROVE Types'
    <2>1. op' \in [Threads -> Operations]
        BY <1>16, DelGoes DEF Goes, OthersKeep
    <2> QED BY <1>16, <2>1 DEF DelMeta, Types, objectVars, historyVars
<1>17. ASSUME NEW t \in Threads, DelReturn(t) PROVE Types'
    <2>1. op' \in [Threads -> Operations]
        BY <1>17, ReturnsEnd DEF Ends, OthersKeep
    <2> QED BY <1>17, <2>1 DEF DelReturn, Types, objectVars, historyVars
<1>18. ASSUME NEW t \in Threads, Destroy(t) PROVE Types'
    <2>1. op' \in [Threads -> Operations]
        BY <1>18, DestroyBegins DEF Begins, OthersKeep
    <2>2. mixed' \in BOOLEAN /\ crossed' \in BOOLEAN
        BY <1>18 DEF Destroy, NoteOverlap
    <2> QED BY <1>18, <2>1, <2>2 DEF Destroy, Types, redisVars, objectVars
<1>19. ASSUME NEW t \in Threads, DestroyScan(t) PROVE Types'
    <2>1. op' \in [Threads -> Operations]
        BY <1>19, DestroyScanGoes DEF OthersKeep
    <2> QED BY <1>19, <2>1 DEF DestroyScan, Types, redisVars, objectVars
<1>20. ASSUME NEW t \in Threads, DestroyDelete(t) PROVE Types'
    <2>1. op' \in [Threads -> Operations]
        BY <1>20, DestroyDeleteEnds DEF Ends, OthersKeep
    <2> QED BY <1>20, <2>1 DEF DestroyDelete, Types, historyVars
<1>21. ASSUME NEW t \in Threads, Error(t) PROVE Types'
    <2>1. op' \in [Threads -> Operations]
        BY <1>21, ErrorEnds DEF Ends, OthersKeep, Types
    <2>2. partial' \in Nat
        BY <1>21 DEF Error, Types
    <2> QED BY <1>21, <2>1, <2>2 DEF Error, Types, redisVars, objectVars
<1>22. CASE UNCHANGED wsvars
    BY <1>22 DEF wsvars, redisVars, objectVars, historyVars, Types
<1>23. \A t \in Threads : AppsOf[t] \subseteq Apps
    OBVIOUS
<1> QED BY <1>1, <1>2, <1>3, <1>4, <1>5, <1>6, <1>7, <1>8, <1>9, <1>10, <1>11, <1>12,
           <1>13, <1>14, <1>15, <1>16, <1>17, <1>18, <1>19, <1>20, <1>21, <1>22, <1>23
        DEF Next

-----------------------------------------------------------------------------
(* Numbers *)

\* A thread that neither begins nor finishes drawing leaves Drawing alone.
LEMMA DrawingKept ==
    ASSUME NEW t \in Threads, OthersKeep(t),
           op[t].at # "putVersion", op'[t].at # "putVersion"
    PROVE  Drawing' = Drawing
BY DEF Drawing, OthersKeep, Keeps

\* Every put has a version of its own to draw.
LEMMA StepNumbered == WsInv /\ [Next]_wsvars => Numbered'
<1> SUFFICES ASSUME Types, Numbered, [Next]_wsvars PROVE Numbered'
    BY DEF WsInv
<1> DEFINE Valued(t) == /\ op[t].at = "putVersion" => op[t].value \in Values
                        /\ op[t].at \in PutSteps => op[t].v \in Values /\ op[t].value \in Values
<1>0. /\ IsFiniteSet(Drawing) /\ Cardinality(Drawing) \in Nat
      /\ version + Cardinality(Drawing) <= puts
      /\ \A t \in Threads : Valued(t)
    BY FS_CardinalityType DEF Numbered
<1>t. version \in Nat /\ puts \in Nat
    BY WorkspaceAssumption DEF Types
\* the steps between: nobody draws, the version does not grow
<1>1. ASSUME NEW t \in Threads, OthersKeep(t),
             op[t].at # "putVersion", op'[t].at # "putVersion",
             op'[t].at \in PutSteps => /\ op[t].at \in PutSteps
                                       /\ op'[t].v = op[t].v /\ op'[t].value = op[t].value,
             version' \in {0, version}, puts' = puts
      PROVE  Numbered'
    <2>1. Drawing' = Drawing
        BY <1>1, DrawingKept
    <2>2. \A u \in Threads : Valued(u)'
        BY <1>0, <1>1 DEF OthersKeep, Keeps
    <2>3. version' + Cardinality(Drawing)' <= puts'
        BY <1>0, <1>t, <1>1, <2>1
    <2> QED BY <1>0, <2>1, <2>2, <2>3 DEF Numbered
\* nobody's operation moves
<1>2. ASSUME \A u \in Threads : Keeps(u), version' \in {0, version}, puts' = puts
      PROVE  Numbered'
    <2>1. Drawing' = Drawing
        BY <1>2 DEF Drawing, Keeps
    <2>2. \A u \in Threads : Valued(u)'
        BY <1>0, <1>2 DEF Keeps
    <2>3. version' + Cardinality(Drawing)' <= puts'
        BY <1>0, <1>t, <1>2, <2>1
    <2> QED BY <1>0, <2>1, <2>2, <2>3 DEF Numbered
<1>3. CASE Expire
    BY <1>2, <1>3, ExpireKeeps DEF Expire
<1>4. ASSUME NEW p \in Processes, \/ Create(p) \/ Remove(p)
                                  \/ \E app \in Apps : Grant(p, app) \/ Revoke(p, app)
      PROVE  Numbered'
    <2>1. UNCHANGED <<version, op, puts>>
        BY <1>4 DEF Create, Remove, Grant, Revoke, SetAcl, redisVars
    <2> QED BY <1>2, <2>1 DEF Keeps
<1>5. ASSUME NEW t \in Threads, NEW app \in Apps, Put(t, app) PROVE Numbered'
    <2>1. Begins(t, "putVersion", app) /\ op'[t].value \in Values
        BY <1>5, PutBegins
    <2>2. version' = version /\ puts' = puts + 1
        BY <1>5 DEF Put, redisVars
    <2>3. Drawing' = Drawing \cup {t} /\ t \notin Drawing
        BY <2>1 DEF Begins, OthersKeep, Keeps, Drawing
    <2>4. /\ IsFiniteSet(Drawing \cup {t})
          /\ Cardinality(Drawing \cup {t}) = Cardinality(Drawing) + 1
        BY <1>0, <2>3, FS_AddElement
    <2>5. \A u \in Threads : Valued(u)'
        BY <1>0, <2>1 DEF Begins, OthersKeep, Keeps, PutSteps
    <2>6. version' + Cardinality(Drawing)' <= puts'
        BY <1>0, <1>t, <2>2, <2>3, <2>4
    <2> QED BY <2>3, <2>4, <2>5, <2>6 DEF Numbered
<1>6. ASSUME NEW t \in Threads, op[t].at = "putVersion", op'[t].at # "putVersion",
             OthersKeep(t),
             version' \in {version, version + 1}, puts' = puts, Valued(t)'
      PROVE  Numbered'
    <2>1. Drawing' = Drawing \ {t} /\ t \in Drawing
        BY <1>6 DEF OthersKeep, Keeps, Drawing
    <2>2. /\ IsFiniteSet(Drawing \ {t})
          /\ Cardinality(Drawing \ {t}) = Cardinality(Drawing) - 1
        BY <1>0, <2>1, FS_RemoveElement
    <2>3. \A u \in Threads : Valued(u)'
        BY <1>0, <1>6 DEF OthersKeep, Keeps
    <2>4. version' + Cardinality(Drawing)' <= puts'
        BY <1>0, <1>t, <1>6, <2>1, <2>2
    <2> QED BY <2>1, <2>2, <2>3, <2>4 DEF Numbered
<1>7. ASSUME NEW t \in Threads, PutVersion(t) PROVE Numbered'
    <2>1. version + 1 \in Values /\ version + 1 \in 0 .. MaxPuts
        BY <1>7, VersionFits, WorkspaceAssumption DEF PutVersion, Values
    <2>2. /\ OthersKeep(t) /\ op[t].at = "putVersion" /\ op'[t].at = "putData"
          /\ op'[t].v = version + 1 /\ op'[t].value = op[t].value
        BY <1>7, <2>1, PutVersionGoes
    <2>3. Valued(t)'
        BY <1>0, <2>1, <2>2
    <2>4. version' = version + 1 /\ puts' = puts
        BY <1>7 DEF PutVersion
    <2> QED BY <1>6, <2>2, <2>3, <2>4
<1>8. ASSUME NEW t \in Threads, Error(t) PROVE Numbered'
    <2>1. Ends(t, op[t].at)
        BY <1>8, ErrorEnds DEF Types
    <2>2. version' = version /\ puts' = puts
        BY <1>8 DEF Error, redisVars
    <2>3. Valued(t)'
        BY <2>1 DEF Ends, PutSteps
    <2> QED BY <1>1, <1>6, <2>1, <2>2, <2>3 DEF Ends, PutSteps
<1>9. ASSUME NEW t \in Threads,
             PutData(t) \/ PutCopy(t) \/ PutMeta(t) \/ DelCopies(t) \/ DelMeta(t) \/ DelData(t)
      PROVE  Numbered'
    <2>1. \E from \in Phases \ {"putVersion"}, to \in Phases \ {"putVersion"} :
             /\ Goes(t, from, to)
             /\ to \in PutSteps => from \in PutSteps
        BY <1>9, PutGoes, DelGoes, DelDataGoes DEF Phases, PutSteps, Deleters
    <2>2. version' \in {0, version} /\ puts' = puts
        BY <1>9 DEF PutData, PutCopy, PutMeta, DelCopies, DelMeta, DelData
    <2> QED BY <1>1, <2>1, <2>2 DEF Goes
<1>10. ASSUME NEW t \in Threads,
              PutReturn(t) \/ GetFetch(t) \/ DelReturn(t) \/ DestroyDelete(t)
       PROVE  Numbered'
    <2>1. \E from \in Phases \ {"putVersion"} : Ends(t, from)
        BY <1>10, ReturnsEnd, DestroyDeleteEnds DEF Phases, PutSteps, Deleters, Readers
    <2>2. version' \in {0, version} /\ puts' = puts
        BY <1>10 DEF PutReturn, GetFetch, DelReturn, DestroyDelete, redisVars
    <2> QED BY <1>1, <2>1, <2>2 DEF Ends, PutSteps
<1>11. ASSUME NEW t \in Threads, NEW app \in Apps, Get(t, app) \/ Del(t, app) \/ Destroy(t)
       PROVE  Numbered'
    <2>1. /\ OthersKeep(t) /\ op[t].at = "idle"
          /\ op'[t].at \in {"getExists", "delRead", "destroyScan"}
        BY <1>11, GetBegins, DelBegins, DestroyBegins DEF Begins
    <2>2. version' = version /\ puts' = puts
        BY <1>11 DEF Get, Del, Destroy, redisVars
    <2> QED BY <1>1, <2>1, <2>2 DEF PutSteps
<1>12. ASSUME NEW t \in Threads, GetExists(t) \/ DelRead(t) \/ DestroyScan(t)
       PROVE  Numbered'
    <2>1. /\ OthersKeep(t)
          /\ op[t].at \in {"getExists", "delRead", "destroyScan"}
          /\ op'[t].at \in {"idle", "getFetch", "delData", "destroyDelete"}
        BY <1>12, GetExistsGoes, DelReadGoes, DestroyScanGoes DEF Goes, Ends
    <2>2. version' = version /\ puts' = puts
        BY <1>12 DEF GetExists, DelRead, DestroyScan, redisVars
    <2> QED BY <1>1, <2>1, <2>2 DEF PutSteps
<1>13. CASE UNCHANGED wsvars
    <2>1. UNCHANGED <<version, op, puts>>
        BY <1>13 DEF wsvars, redisVars
    <2> QED BY <1>2, <2>1 DEF Keeps
<1>14. \A t \in Threads : AppsOf[t] \subseteq Apps
    BY WorkspaceAssumption
<1>15. Apps # {}
    BY WorkspaceAssumption
<1> QED BY <1>3, <1>4, <1>5, <1>7, <1>8, <1>9, <1>10, <1>11, <1>12, <1>13, <1>14, <1>15
        DEF Next

-----------------------------------------------------------------------------
(* Locks and access *)

(* A thread goes on with its operation or ends it. *)
Continues(t) ==
    /\ OthersKeep(t)
    /\ \/ op'[t].at = "idle"
       \/ /\ Inside(t)
          /\ op'[t].app = op[t].app
          /\ op'[t].at \notin Readers => op[t].at \notin Readers
          /\ op'[t].at \in Deleters => op[t].at \in Deleters

ThreadSteps(t) ==
    \/ PutVersion(t) \/ PutData(t) \/ PutCopy(t) \/ PutMeta(t) \/ PutReturn(t)
    \/ GetExists(t) \/ GetFetch(t)
    \/ DelRead(t) \/ DelData(t) \/ DelCopies(t) \/ DelMeta(t) \/ DelReturn(t)
    \/ DestroyScan(t) \/ DestroyDelete(t)
    \/ Error(t)

\* Every step inside an operation goes on with it, and touches neither the
\* access lists nor what is remembered of overlaps.
LEMMA StepContinues ==
    ASSUME Types, Numbered, NEW t \in Threads, ThreadSteps(t)
    PROVE  Continues(t) /\ UNCHANGED <<acl, mixed, crossed>>
<1>1. ASSUME NEW from, NEW to, Goes(t, from, to), from # "idle",
             to \notin Readers => from \notin Readers,
             to \in Deleters => from \in Deleters
      PROVE  Continues(t)
    BY <1>1 DEF Goes, Continues, Inside
<1>2. ASSUME NEW from, Ends(t, from) PROVE Continues(t)
    BY <1>2 DEF Ends, Continues
<1>3. CASE PutVersion(t)
    <2>1. version + 1 \in 0 .. MaxPuts
        BY <1>3, VersionFits, WorkspaceAssumption DEF PutVersion, Values
    <2>2. Continues(t)
        BY <1>3, <2>1, PutVersionGoes DEF Continues, Inside, Readers, Deleters
    <2> QED BY <1>3, <2>2 DEF PutVersion, objectVars, historyVars
<1>4. CASE PutData(t) \/ PutCopy(t) \/ PutMeta(t)
    <2>1. Continues(t)
        BY <1>1, <1>4, PutGoes DEF Readers, Deleters
    <2> QED BY <1>4, <2>1 DEF PutData, PutCopy, PutMeta, objectVars, historyVars
<1>5. CASE PutReturn(t) \/ GetFetch(t) \/ DelReturn(t)
    <2>1. Continues(t)
        BY <1>2, <1>5, ReturnsEnd
    <2> QED BY <1>5, <2>1 DEF PutReturn, GetFetch, DelReturn, objectVars, historyVars
<1>6. CASE GetExists(t)
    <2>1. Continues(t)
        BY <1>1, <1>2, <1>6, GetExistsGoes DEF Readers, Deleters
    <2> QED BY <1>6, <2>1 DEF GetExists, objectVars, historyVars
<1>7. CASE DelRead(t)
    <2>1. Continues(t)
        BY <1>2, <1>7, DelReadGoes DEF Continues, Inside, Readers, Deleters
    <2> QED BY <1>7, <2>1 DEF DelRead, objectVars
<1>8. CASE DelData(t)
    <2>1. Continues(t)
        BY <1>1, <1>8, DelDataGoes DEF Readers, Deleters
    <2> QED BY <1>8, <2>1 DEF DelData, objectVars, historyVars
<1>9. CASE DelCopies(t) \/ DelMeta(t)
    <2>1. Continues(t)
        BY <1>1, <1>9, DelGoes DEF Readers, Deleters
    <2> QED BY <1>9, <2>1 DEF DelCopies, DelMeta, objectVars, historyVars
<1>10. CASE DestroyScan(t)
    <2>1. Continues(t)
        BY <1>10, DestroyScanGoes DEF Continues, Inside, Readers, Deleters
    <2> QED BY <1>10, <2>1 DEF DestroyScan, objectVars
<1>11. CASE DestroyDelete(t)
    <2>1. Continues(t)
        BY <1>2, <1>11, DestroyDeleteEnds
    <2> QED BY <1>11, <2>1 DEF DestroyDelete, historyVars
<1>12. CASE Error(t)
    <2>1. Continues(t)
        BY <1>2, <1>12, ErrorEnds DEF Types
    <2> QED BY <1>12, <2>1 DEF Error, objectVars
<1> QED BY <1>3, <1>4, <1>5, <1>6, <1>7, <1>8, <1>9, <1>10, <1>11, <1>12 DEF ThreadSteps

\* Nobody else is inside a process whose lock is free, and who begins to
\* change the key notes the others.
LEMMA StepLocks == WsInv /\ [Next]_wsvars => Locks' /\ Overlaps'
<1> SUFFICES ASSUME Types, Numbered, Locks, Overlaps, [Next]_wsvars
             PROVE  Locks' /\ Overlaps'
    BY DEF WsInv
<1> USE DEF Inside, Changing
<1>1. ASSUME NEW t \in Threads, ThreadSteps(t) PROVE Locks' /\ Overlaps'
    <2>1. Continues(t) /\ UNCHANGED <<acl, mixed, crossed>>
        BY <1>1, StepContinues
    <2>2. ASSUME NEW u \in Threads
          PROVE  /\ Inside(u)' => Inside(u) /\ op'[u].app = op[u].app
                 /\ Changing(u)' => Changing(u)
                 /\ op'[u].at \in Deleters => op[u].at \in Deleters
        BY <2>1 DEF Continues, OthersKeep, Keeps, Deleters
    <2>3. Locks'
        BY <2>1, <2>2 DEF Locks, AccessHeld
    <2>4. Overlaps'
        BY <2>1, <2>2 DEF Overlaps
    <2> QED BY <2>3, <2>4
<1>2. ASSUME NEW t \in Threads, NEW to, NEW app, Begins(t, to, app),
             to \notin Readers, to # "idle",
             Exclusive(ProcessOf[t]), app \in acl[ProcessOf[t]],
             NEW deletes, deletes <=> to \in Deleters,
             NoteOverlap(t, deletes), acl' = acl
      PROVE  Locks' /\ Overlaps'
    <2>1. ASSUME NEW u \in Threads \ {t} PROVE op'[u].at = op[u].at /\ op'[u].app = op[u].app
        BY <1>2 DEF Begins, OthersKeep, Keeps
    <2>2. op'[t].at = to /\ op'[t].app = app
        BY <1>2 DEF Begins
    <2>3. \A u \in Threads \ {t} : ProcessOf[u] = ProcessOf[t] => ~Inside(u)'
        BY <1>2, <2>1 DEF Exclusive
    <2>4. Locks'
        BY <1>2, <2>1, <2>2, <2>3 DEF Locks, AccessHeld
    <2>5. ~mixed' => \A u \in Threads \ {t} : ~Changing(u)'
        BY <1>2, <2>1, <2>3 DEF NoteOverlap, Others
    <2>6. ~crossed' => \A u \in Threads \ {t} : Changing(u)' =>
                         to \notin Deleters /\ op'[u].at \notin Deleters
        BY <1>2, <2>1, <2>3 DEF NoteOverlap, Others
    <2>7. (~mixed' => ~mixed) /\ (~crossed' => ~crossed)
        BY <1>2 DEF NoteOverlap
    <2>8. \A u \in Threads : op'[u].at \in Deleters => Changing(u)'
        BY DEF Deleters, Readers
    <2>9. Overlaps'
        BY <2>1, <2>2, <2>5, <2>6, <2>7, <2>8 DEF Overlaps
    <2> QED BY <2>4, <2>9
<1>3. ASSUME NEW t \in Threads, NEW app \in Apps, Put(t, app) PROVE Locks' /\ Overlaps'
    <2>1. Begins(t, "putVersion", app)
        BY <1>3, PutBegins
    <2>2. /\ Exclusive(ProcessOf[t]) /\ app \in acl[ProcessOf[t]]
          /\ NoteOverlap(t, FALSE) /\ acl' = acl
        BY <1>3 DEF Put, check_access, objectVars
    <2>3. "putVersion" \notin Readers /\ "putVersion" \notin Deleters
        BY DEF Readers, Deleters
    <2> QED BY <1>2, <2>1, <2>2, <2>3
<1>4. ASSUME NEW t \in Threads, NEW app \in Apps, Del(t, app) PROVE Locks' /\ Overlaps'
    <2>1. Begins(t, "delRead", app)
        BY <1>4, DelBegins
    <2>2. /\ Exclusive(ProcessOf[t]) /\ app \in acl[ProcessOf[t]]
          /\ NoteOverlap(t, TRUE) /\ acl' = acl
        BY <1>4 DEF Del, check_access, objectVars
    <2>3. "delRead" \notin Readers /\ "delRead" \in Deleters
        BY DEF Readers, Deleters
    <2> QED BY <1>2, <2>1, <2>2, <2>3
<1>5. ASSUME NEW t \in Threads, Destroy(t) PROVE Locks' /\ Overlaps'
    <2>1. Begins(t, "destroyScan", Owner)
        BY <1>5, DestroyBegins
    <2>2. /\ Exclusive(ProcessOf[t]) /\ acl[ProcessOf[t]] # {}
          /\ NoteOverlap(t, TRUE) /\ acl' = acl
        BY <1>5 DEF Destroy, objectVars
    <2>3. "destroyScan" \notin Readers /\ "destroyScan" \in Deleters
        BY DEF Readers, Deleters
    <2>4. Owner \in acl[ProcessOf[t]]
        BY <2>2, WorkspaceAssumption DEF Locks
    <2> QED BY <1>2, <2>1, <2>2, <2>3, <2>4
<1>6. ASSUME NEW t \in Threads, NEW app \in Apps, Get(t, app) PROVE Locks' /\ Overlaps'
    <2>1. Begins(t, "getExists", app)
        BY <1>6, GetBegins
    <2>2. /\ Shared(ProcessOf[t]) /\ app \in acl[ProcessOf[t]]
          /\ UNCHANGED <<acl, mixed, crossed>>
        BY <1>6 DEF Get, check_access, objectVars, historyVars
    <2>3. ASSUME NEW u \in Threads \ {t} PROVE op'[u].at = op[u].at /\ op'[u].app = op[u].app
        BY <2>1 DEF Begins, OthersKeep, Keeps
    <2>4. op'[t].at = "getExists" /\ op'[t].app = app
        BY <2>1 DEF Begins
    <2>5. "getExists" \in Readers /\ "getExists" \notin Deleters
        BY DEF Readers, Deleters
    <2>6. Locks'
        BY <2>2, <2>3, <2>4, <2>5 DEF Locks, AccessHeld, Shared
    <2>7. Overlaps'
        BY <2>2, <2>3, <2>4, <2>5 DEF Overlaps
    <2> QED BY <2>6, <2>7
<1>7. ASSUME NEW p \in Processes, \/ Create(p) \/ Remove(p)
                                  \/ \E app \in Apps : Grant(p, app) \/ Revoke(p, app)
      PROVE  Locks' /\ Overlaps'
    <2>1. UNCHANGED <<op, mixed, crossed>>
        BY <1>7 DEF Create, Remove, Grant, Revoke, SetAcl, historyVars
    <2>2. /\ \A q \in Processes \ {p} : acl'[q] = acl[q]
          /\ acl'[p] # {} => Owner \in acl'[p]
          /\ acl[p] \subseteq acl'[p] \/ \A u \in Threads : ProcessOf[u] = p => ~Inside(u)
        BY <1>7 DEF Create, Remove, Grant, Revoke, SetAcl, Exclusive, Types, Locks
    <2>3. Locks'
        BY <2>1, <2>2, WorkspaceAssumption DEF Locks, AccessHeld
    <2> QED BY <2>1, <2>3 DEF Overlaps
<1>8. CASE Expire \/ UNCHANGED wsvars
    <2>1. \A u \in Threads : op'[u].at = op[u].at /\ op'[u].app = op[u].app
        BY <1>8, ExpireKeeps DEF Keeps, wsvars
    <2>2. UNCHANGED <<acl, mixed, crossed>>
        BY <1>8 DEF Expire, wsvars, objectVars, historyVars
    <2> QED BY <2>1, <2>2 DEF Locks, Overlaps, AccessHeld
<1>9. \A t \in Threads : AppsOf[t] \subseteq Apps
    BY WorkspaceAssumption
<1> QED BY <1>1, <1>3, <1>4, <1>5, <1>6, <1>7, <1>8, <1>9 DEF Next, ThreadSteps

-----------------------------------------------------------------------------
(* Gets *)

\* Whoever takes the value away either is alone in its process or notes it
\* under the gets of the others.
LEMMA StepNoEmptyGet == WsInv /\ [Next]_wsvars => NoEmptyGet'
<1> SUFFICES ASSUME Types, Numbered, Locks, NoEmptyGet, [Next]_wsvars
             PROVE  NoEmptyGet'
    BY DEF WsInv
\* a step that takes no value away and sends nobody to fetch one
<1>1. ASSUME \A u \in Threads : op'[u].at = "getFetch" /\ ~op'[u].raced =>
                                  op[u].at = "getFetch" /\ ~op[u].raced,
             data' = data \/ data' # 0
      PROVE  NoEmptyGet'
    BY <1>1 DEF NoEmptyGet
<1>2. ASSUME NEW t \in Threads, OthersKeep(t), op'[t].at # "getFetch",
             data' = data \/ data' # 0
      PROVE  NoEmptyGet'
    <2>1. \A u \in Threads : op'[u].at = "getFetch" /\ ~op'[u].raced =>
                               op[u].at = "getFetch" /\ ~op[u].raced
        BY <1>2 DEF OthersKeep, Keeps
    <2> QED BY <1>1, <1>2, <2>1
<1>3. ASSUME NEW t \in Threads, OthersKeep(t), op'[t].at # "getFetch",
             Changing(t), RaceNoted(t)
      PROVE  NoEmptyGet'
    <2>1. ASSUME NEW u \in Threads, op'[u].at = "getFetch" PROVE op'[u].raced
        <3>1. u # t /\ op[u].at = "getFetch"
            BY <1>3, <2>1 DEF OthersKeep, Keeps
        <3>2. ProcessOf[u] # ProcessOf[t]
            BY <1>3, <3>1 DEF Locks, Inside
        <3> QED BY <1>3, <3>1, <3>2 DEF RaceNoted
    <2> QED BY <2>1 DEF NoEmptyGet
<1>4. ASSUME NEW t \in Threads, PutVersion(t) PROVE NoEmptyGet'
    <2>1. version + 1 \in 0 .. MaxPuts
        BY <1>4, VersionFits, WorkspaceAssumption DEF PutVersion, Values
    <2>2. OthersKeep(t) /\ op'[t].at = "putData"
        BY <1>4, <2>1, PutVersionGoes
    <2>3. data' = data
        BY <1>4 DEF PutVersion
    <2> QED BY <1>2, <2>2, <2>3
<1>5. ASSUME NEW t \in Threads, PutData(t) PROVE NoEmptyGet'
    <2>1. Goes(t, "putData", "putCopy")
        BY <1>5, PutGoes
    <2>2. data' # 0
        BY <1>5, <2>1 DEF PutData, Goes, Numbered, PutSteps, Values
    <2> QED BY <1>2, <2>1, <2>2 DEF Goes
<1>6. ASSUME NEW t \in Threads,
             \/ PutCopy(t) \/ PutMeta(t) \/ PutReturn(t) \/ GetFetch(t)
             \/ DelCopies(t) \/ DelMeta(t) \/ DelReturn(t) \/ Error(t)
      PROVE  NoEmptyGet'
    <2>1. OthersKeep(t) /\ op'[t].at \in {"putMeta", "putIndex", "delMeta", "delIndex", "idle"}
        BY <1>6, PutGoes, DelGoes, ReturnsEnd, ErrorEnds DEF Goes, Ends, Types
    <2>2. data' = data
        BY <1>6 DEF PutCopy, PutMeta, PutReturn, GetFetch, DelCopies, DelMeta, DelReturn,
                    Error, redisVars
    <2> QED BY <1>2, <2>1, <2>2
<1>7. ASSUME NEW t \in Threads, GetExists(t) PROVE NoEmptyGet'
    <2>1. data' = data
        BY <1>7 DEF GetExists, redisVars
    <2>2. CASE data = 0
        BY <1>2, <1>7, <2>1, <2>2, GetExistsGoes DEF Ends
    <2>3. CASE data # 0
        BY <2>1, <2>3 DEF NoEmptyGet
    <2> QED BY <2>2, <2>3
<1>8. ASSUME NEW t \in Threads, NEW app \in Apps,
             Put(t, app) \/ Get(t, app) \/ Del(t, app) \/ Destroy(t)
      PROVE  NoEmptyGet'
    <2>1. OthersKeep(t) /\ op'[t].at \in {"putVersion", "getExists", "delRead", "destroyScan"}
        BY <1>8, PutBegins, GetBegins, DelBegins, DestroyBegins DEF Begins
    <2>2. data' = data
        BY <1>8 DEF Put, Get, Del, Destroy, redisVars
    <2> QED BY <1>2, <2>1, <2>2
<1>9. ASSUME NEW t \in Threads, DelRead(t) \/ DestroyScan(t) PROVE NoEmptyGet'
    <2>1. OthersKeep(t) /\ op'[t].at \in {"idle", "delData", "destroyDelete"}
        BY <1>9, DelReadGoes, DestroyScanGoes DEF Ends
    <2>2. data' = data
        BY <1>9 DEF DelRead, DestroyScan, redisVars
    <2> QED BY <1>2, <2>1, <2>2
<1>10. ASSUME NEW t \in Threads, DelData(t) \/ DestroyDelete(t) PROVE NoEmptyGet'
    <2>1. /\ OthersKeep(t) /\ RaceNoted(t) /\ op'[t].at \in {"delCopies", "idle"}
          /\ op[t].at \in {"delData", "destroyDelete"}
        BY <1>10, DelDataGoes, DestroyDeleteEnds DEF Goes, Ends
    <2> QED BY <1>3, <2>1 DEF Changing, Inside, Readers
<1>11. ASSUME NEW p \in Processes, \/ Create(p) \/ Remove(p)
                                   \/ \E app \in Apps : Grant(p, app) \/ Revoke(p, app)
       PROVE  NoEmptyGet'
    <2>1. UNCHANGED <<op, data>>
        BY <1>11 DEF Create, Remove, Grant, Revoke, SetAcl, redisVars
    <2> QED BY <2>1 DEF NoEmptyGet
<1>12. CASE Expire
    BY <1>12, ExpireKeeps DEF NoEmptyGet, Keeps
<1>13. CASE UNCHANGED wsvars
    BY <1>13 DEF NoEmptyGet, wsvars, redisVars
<1>14. \A t \in Threads : AppsOf[t] \subseteq Apps
    BY WorkspaceAssumption
<1>15. Apps # {}
    BY WorkspaceAssumption
<1> QED BY <1>4, <1>5, <1>6, <1>7, <1>8, <1>9, <1>10, <1>11, <1>12, <1>13, <1>14, <1>15
        DEF Next

-----------------------------------------------------------------------------
(* Versions *)

\* A returned version stays what it was: versions are drawn once, and only
\* a deletion that nobody else runs into takes them away.
LEMMA StepVersions == WsInv /\ [Next]_wsvars => Versions'
<1> SUFFICES ASSUME Types, Numbered, Locks, Overlaps, Versions, [Next]_wsvars, ~crossed'
             PROVE  Versions'
    BY DEF WsInv, Versions
<1> DEFINE Kept(f) == f[1] <= version /\ copies[f[1]] = f[2]
           Holding(t) ==
             /\ op[t].at \in PutSteps =>
                  op[t].v <= version /\ \A f \in finished : f[1] # op[t].v
             /\ op[t].at \in {"putMeta", "putIndex"} => copies[op[t].v] = op[t].value
             /\ op[t].at \in Deleters \ {"delRead", "destroyScan"} => finished = {}
           Apart(t, u) ==
             op[t].at \in PutSteps /\ op[u].at \in PutSteps /\ op[t].v = op[u].v => t = u
<1>a. version \in Nat /\ finished \subseteq Values \X Values
    BY WorkspaceAssumption DEF Types
<1>b. (~crossed) => /\ \A f \in finished : Kept(f)
                    /\ \A t \in Threads : Holding(t)
                    /\ \A t, u \in Threads : Apart(t, u)
    BY DEF Versions
<1>c. ASSUME ~crossed, NEW t \in Threads, op[t].at \in Deleters,
             NEW u \in Threads \ {t}
      PROVE  op[u].at \notin PutSteps /\ op[u].at \notin Deleters
    BY <1>c DEF Overlaps, Changing, Inside, PutSteps, Deleters, Readers
<1>d. ASSUME \A f \in finished' : Kept(f)', \A t \in Threads : Holding(t)',
             \A t, u \in Threads : Apart(t, u)'
      PROVE  Versions'
    BY <1>d DEF Versions
\* steps that leave versions, copies and the puts in progress alone
<1>1. ASSUME UNCHANGED <<version, copies>>, ~crossed,
             finished' \in {{}, finished},
             \A u \in Threads : /\ op'[u].at \in PutSteps =>
                                     /\ op[u].at \in PutSteps
                                     /\ op'[u].v = op[u].v /\ op'[u].value = op[u].value
                                /\ op'[u].at \in {"putMeta", "putIndex"} =>
                                     op[u].at \in {"putMeta", "putIndex"}
                                /\ op'[u].at \in Deleters \ {"delRead", "destroyScan"} =>
                                     \/ op[u].at \in Deleters \ {"delRead", "destroyScan"}
                                     \/ finished' = {}
      PROVE  Versions'
    <2>1. \A f \in finished' : Kept(f)'
        BY <1>1, <1>b
    <2>2. ASSUME NEW u \in Threads PROVE Holding(u)'
        <3>1. Holding(u)
            BY <1>1, <1>b
        <3>2. op[u].at \in {"putMeta", "putIndex"} => op[u].at \in PutSteps
            BY DEF PutSteps
        <3>3. op'[u].at \in {"putMeta", "putIndex"} => op'[u].at \in PutSteps
            BY DEF PutSteps
        <3>4. finished' \subseteq finished
            BY <1>1
        <3> QED BY <1>1, <3>1, <3>2, <3>3, <3>4
    <2>3. \A u, w \in Threads : Apart(u, w)'
        BY <1>1, <1>b
    <2> QED BY <1>d, <2>1, <2>2, <2>3
\* the key is gone, and nobody else is changing it
<1>2. ASSUME finished' = {}, \A u \in Threads : op'[u].at \notin PutSteps
      PROVE  Versions'
    <2>1. \A f \in finished' : Kept(f)'
        BY <1>2
    <2>2. \A u \in Threads : Holding(u)'
        BY <1>2 DEF PutSteps
    <2>3. \A u, w \in Threads : Apart(u, w)'
        BY <1>2
    <2> QED BY <1>d, <2>1, <2>2, <2>3
<1>3. ASSUME NEW t \in Threads, NEW app \in Apps,
             Put(t, app) \/ Get(t, app) \/ Del(t, app) \/ Destroy(t)
      PROVE  Versions'
    <2>1. OthersKeep(t) /\ op'[t].at \in {"putVersion", "getExists", "delRead", "destroyScan"}
        BY <1>3, PutBegins, GetBegins, DelBegins, DestroyBegins DEF Begins
    <2>2. UNCHANGED <<version, copies, finished>>
        BY <1>3 DEF Put, Get, Del, Destroy, redisVars, historyVars
    <2>3. crossed' = crossed \/ \E deletes \in BOOLEAN : NoteOverlap(t, deletes)
        BY <1>3 DEF Put, Get, Del, Destroy, historyVars
    <2>4. ~crossed
        BY <2>3 DEF NoteOverlap
    <2> QED BY <1>1, <2>1, <2>2, <2>4 DEF OthersKeep, Keeps, PutSteps, Deleters
<1>4. ASSUME NEW t \in Threads, PutVersion(t) PROVE Versions'
    <2>1. version + 1 \in 0 .. MaxPuts
        BY <1>4, VersionFits, WorkspaceAssumption DEF PutVersion, Values
    <2>2. /\ OthersKeep(t) /\ op[t].at = "putVersion" /\ op'[t].at = "putData"
          /\ op'[t].v = version + 1
        BY <1>4, <2>1, PutVersionGoes
    <2>3. version' = version + 1 /\ UNCHANGED <<copies, finished>> /\ ~crossed
        BY <1>4 DEF PutVersion, historyVars
    <2>4. \A f \in finished : Kept(f)' /\ f[1] <= version /\ f[1] \in Nat
        BY <1>a, <1>b, <2>3 DEF Values
    <2>5. \A u \in Threads : op[u].at \in PutSteps => op[u].v \in Nat /\ op[u].v <= version
        BY <1>b, <2>3 DEF Numbered, Values
    <2>6. ASSUME NEW u \in Threads PROVE Holding(u)'
        <3>1. CASE u = t
            BY <1>a, <2>2, <2>3, <2>4, <3>1 DEF PutSteps, Deleters
        <3>2. CASE u # t
            BY <1>a, <1>b, <2>2, <2>3, <2>5, <3>2 DEF OthersKeep, Keeps
        <3> QED BY <3>1, <3>2
    <2>7. \A u, w \in Threads : Apart(u, w)'
        BY <1>a, <1>b, <2>2, <2>3, <2>5 DEF OthersKeep, Keeps
    <2> QED BY <1>d, <2>3, <2>4, <2>6, <2>7
<1>5. ASSUME NEW t \in Threads, PutData(t) \/ PutMeta(t) PROVE Versions'
    <2>1. Goes(t, "putData", "putCopy") \/ Goes(t, "putMeta", "putIndex")
        BY <1>5, PutGoes
    <2>2. UNCHANGED <<version, copies, finished>> /\ ~crossed
        BY <1>5 DEF PutData, PutMeta, historyVars
    <2> QED BY <1>1, <2>1, <2>2 DEF Goes, OthersKeep, Keeps, PutSteps, Deleters
<1>6. ASSUME NEW t \in Threads, PutCopy(t) PROVE Versions'
    <2>1. Goes(t, "putCopy", "putMeta")
        BY <1>6, PutGoes
    <2>2. /\ copies' = [copies EXCEPT ![op[t].v] = op[t].value]
          /\ UNCHANGED <<version, finished>> /\ ~crossed
        BY <1>6 DEF PutCopy, historyVars
    <2>3. op[t].v \in Values
        BY <2>1 DEF Goes, Numbered, PutSteps
    <2>4. copies'[op[t].v] = op[t].value /\ \A n \in Values \ {op[t].v} : copies'[n] = copies[n]
        <3>1. copies \in [Values -> 0 .. MaxPuts]
            BY DEF Types
        <3> QED BY <2>2, <2>3, <3>1
    <2>5. \A f \in finished : Kept(f)'
        BY <1>a, <1>b, <2>1, <2>2, <2>4 DEF Goes, PutSteps
    <2>6. \A u, w \in Threads : Apart(u, w)'
        BY <1>b, <2>1, <2>2 DEF Goes, OthersKeep, Keeps, PutSteps
    <2>7. ASSUME NEW u \in Threads PROVE Holding(u)'
        <3>1. CASE u = t
            BY <1>b, <2>1, <2>2, <2>4, <3>1 DEF Goes, PutSteps, Deleters
        <3>2. CASE u # t
            <4>1. op[u].at \in PutSteps => op[u].v \in Values /\ op[u].v # op[t].v
                BY <1>b, <2>1, <2>2, <3>2 DEF Goes, PutSteps, Numbered
            <4>2. op[u].at \in {"putMeta", "putIndex"} => op[u].at \in PutSteps
                BY DEF PutSteps
            <4> QED BY <1>b, <2>1, <2>2, <2>4, <3>2, <4>1, <4>2 DEF Goes, OthersKeep, Keeps
        <3> QED BY <3>1, <3>2
    <2> QED BY <1>d, <2>2, <2>5, <2>6, <2>7
<1>7. ASSUME NEW t \in Threads, PutReturn(t) PROVE Versions'
    <2>1. Ends(t, "putIndex")
        BY <1>7, ReturnsEnd
    <2>2. /\ finished' = finished \cup {<<op[t].v, op[t].value>>}
          /\ UNCHANGED <<version, copies>> /\ ~crossed
        BY <1>7 DEF PutReturn
    <2>3. \A f \in finished' : f[1] <= version /\ copies[f[1]] = f[2]
        BY <1>b, <2>1, <2>2 DEF Ends, PutSteps
    <2>4. ASSUME NEW u \in Threads
          PROVE  /\ op'[u].at \in PutSteps =>
                      op'[u].v <= version' /\ \A f \in finished' : f[1] # op'[u].v
                 /\ op'[u].at \in {"putMeta", "putIndex"} => copies'[op'[u].v] = op'[u].value
                 /\ op'[u].at \in Deleters \ {"delRead", "destroyScan"} => finished' = {}
        <3>1. CASE u = t
            BY <2>1, <3>1 DEF Ends, PutSteps, Deleters
        <3>2. CASE u # t
            <4>1. op[u].at \notin Deleters
                BY <1>c, <2>1, <2>2, <3>2 DEF Ends, PutSteps
            <4>2. op[u].at \in PutSteps => op[u].v # op[t].v
                BY <1>b, <2>1, <2>2, <3>2 DEF Ends, PutSteps
            <4>3. op'[u].at = op[u].at /\ op'[u].v = op[u].v /\ op'[u].value = op[u].value
                BY <2>1, <3>2 DEF Ends, OthersKeep, Keeps
            <4> QED BY <1>b, <2>2, <4>1, <4>2, <4>3
        <3> QED BY <3>1, <3>2
    <2>5. \A u, w \in Threads : Apart(u, w)'
        BY <1>b, <2>1, <2>2 DEF Ends, OthersKeep, Keeps, PutSteps
    <2> QED BY <2>2, <2>3, <2>4, <2>5 DEF Versions
<1>8. ASSUME NEW t \in Threads, GetExists(t) \/ GetFetch(t) \/ DelReturn(t) \/ Error(t)
      PROVE  Versions'
    <2>1. OthersKeep(t) /\ op'[t].at \in {"getFetch", "idle"}
        BY <1>8, GetExistsGoes, ReturnsEnd, ErrorEnds DEF Goes, Ends, Types
    <2>2. UNCHANGED <<version, copies, finished>> /\ ~crossed
        BY <1>8 DEF GetExists, GetFetch, DelReturn, Error, redisVars, historyVars
    <2> QED BY <1>1, <2>1, <2>2 DEF OthersKeep, Keeps, PutSteps, Deleters
<1>9. ASSUME NEW t \in Threads, DelRead(t) \/ DestroyScan(t) PROVE Versions'
    <2>1. /\ OthersKeep(t)
          /\ \/ op'[t].at = "idle" /\ version = 0 /\ DelRead(t)
             \/ op'[t].at = "delData" /\ version # 0 /\ DelRead(t)
             \/ op'[t].at = "destroyDelete" /\ DestroyScan(t)
        BY <1>9, DelReadGoes, DestroyScanGoes DEF Ends
    <2>2. /\ UNCHANGED <<version, copies>> /\ ~crossed
          /\ finished' \in {{}, finished} /\ (op'[t].at # "idle" => finished' = {})
        BY <1>9, <2>1 DEF DelRead, DestroyScan, redisVars
    <2> QED BY <1>1, <2>1, <2>2 DEF OthersKeep, Keeps, PutSteps, Deleters
<1>10. ASSUME NEW t \in Threads,
              DelData(t) \/ DelCopies(t) \/ DelMeta(t) \/ DestroyDelete(t)
       PROVE  Versions'
    <2>1. /\ OthersKeep(t)
          /\ op[t].at \in {"delData", "delCopies", "delMeta", "destroyDelete"}
          /\ op'[t].at \in {"delCopies", "delMeta", "delIndex", "idle"}
        BY <1>10, DelDataGoes, DelGoes, DestroyDeleteEnds DEF Goes, Ends
    <2>2. finished' = finished /\ ~crossed
        BY <1>10 DEF DelData, DelCopies, DelMeta, DestroyDelete, historyVars
    <2>3. op[t].at \in Deleters \ {"delRead", "destroyScan"}
        BY <2>1 DEF Deleters
    <2>4. finished = {}
        BY <1>b, <2>2, <2>3
    <2>5. \A u \in Threads : op'[u].at \notin PutSteps
        BY <1>c, <2>1, <2>2, <2>3 DEF OthersKeep, Keeps, PutSteps
    <2> QED BY <1>2, <2>2, <2>4, <2>5
<1>11. ASSUME NEW p \in Processes, \/ Create(p) \/ Remove(p)
                                   \/ \E app \in Apps : Grant(p, app) \/ Revoke(p, app)
       PROVE  Versions'
    <2>1. UNCHANGED <<op, version, copies, finished, crossed>>
        BY <1>11 DEF Create, Remove, Grant, Revoke, SetAcl, redisVars, historyVars
    <2> QED BY <2>1 DEF Versions
<1>12. CASE Expire
    <2>1. \A u \in Threads : op'[u].at = op[u].at
        BY <1>12, ExpireKeeps DEF Keeps
    <2>2. finished' = {} /\ \A u \in Threads : ~Changing(u)
        BY <1>12 DEF Expire
    <2> QED BY <1>2, <2>1, <2>2 DEF Changing, Inside, PutSteps, Readers
<1>13. CASE UNCHANGED wsvars
    BY <1>13 DEF Versions, wsvars, redisVars, historyVars
<1>14. \A t \in Threads : AppsOf[t] \subseteq Apps
    BY WorkspaceAssumption
<1>15. Apps # {}
    BY WorkspaceAssumption
<1> QED BY <1>3, <1>4, <1>5, <1>6, <1>7, <1>8, <1>9, <1>10, <1>11, <1>12, <1>13, <1>14, <1>15
        DEF Next

-----------------------------------------------------------------------------
(* The key *)

\* Nobody changes the key: it is as the last operation has left it.
LEMMA KeySettled ==
    ASSUME (\A n \in Values : n > version => copies[n] = 0)', Settled',
           \A t \in Threads : ~Changing(t)'
    PROVE  Key'
<1>1. ASSUME NEW t \in Threads PROVE Progress(t)'
    <2>1. op'[t].at \in {"idle"} \cup Readers
        BY DEF Changing, Inside
    <2> QED BY <2>1 DEF Progress, PutSteps, Readers
<1> QED BY <1>1 DEF Key

\* One thread changes it: the key is as far as that thread has got.
LEMMA KeyInProgress ==
    ASSUME NEW t \in Threads, (\A n \in Values : n > version => copies[n] = 0)',
           Changing(t)', Progress(t)', \A u \in Threads \ {t} : ~Changing(u)'
    PROVE  Key'
<1>1. ASSUME NEW u \in Threads \ {t} PROVE Progress(u)'
    <2>1. op'[u].at \in {"idle"} \cup Readers
        BY DEF Changing, Inside
    <2> QED BY <2>1 DEF Progress, PutSteps, Readers
<1> QED BY <1>1 DEF Key

\* Without overlaps and half-done operations the key is always where the only
\* operation that changes it has got to.
LEMMA StepKey == WsInv /\ [Next]_wsvars => Key'
<1> SUFFICES ASSUME Types, Numbered, Locks, Overlaps, Overlaps', Key, [Next]_wsvars,
                    ~mixed', partial' = 0
             PROVE  Key'
    BY StepLocks DEF WsInv, Key
<1> DEFINE High == \A n \in Values : n > version => copies[n] = 0
           Alone(t) == \A u \in Threads \ {t} : ~Changing(u)
<1>a. /\ version \in 0 .. MaxPuts /\ copies \in [Values -> 0 .. MaxPuts]
      /\ data \in 0 .. MaxPuts /\ Values \subseteq Nat \ {0}
      /\ MaxPuts \in Nat
    BY WorkspaceAssumption DEF Types, Values
<1>b. ~mixed /\ partial = 0 => High /\ \A t \in Threads : Progress(t)
    BY DEF Key
<1>c. ASSUME ~mixed, partial = 0, \A t \in Threads : ~Changing(t) PROVE Settled
    BY <1>c DEF Key
<1>d. ASSUME NEW t \in Threads, ~mixed, Changing(t) PROVE Alone(t)
    BY <1>d DEF Overlaps
<1>e. ASSUME NEW t \in Threads, OthersKeep(t)
      PROVE  \A u \in Threads \ {t} : Changing(u)' <=> Changing(u)
    BY <1>e DEF OthersKeep, Keeps, Changing, Inside
\* operations that begin
<1>1. ASSUME NEW t \in Threads, NEW to, NEW app, Begins(t, to, app), NEW deletes,
             to \in {"putVersion", "delRead", "destroyScan"},
             Exclusive(ProcessOf[t]), NoteOverlap(t, deletes),
             UNCHANGED <<data, copies, version, size, indexed, partial>>
      PROVE  Key'
    <2>1. ~mixed /\ Others(t) = {} /\ partial = 0
        BY <1>1 DEF NoteOverlap
    <2>2. \A u \in Threads : ~Changing(u)
        BY <1>1, <2>1 DEF Exclusive, Others, Changing
    <2>3. Settled /\ High
        BY <1>b, <1>c, <2>1, <2>2
    <2>4. Settled' /\ High'
        BY <1>1, <2>3 DEF Settled
    <2>5. Alone(t)'
        BY <1>1, <1>e, <2>2 DEF Begins
    <2>6. op'[t].at = to
        BY <1>1 DEF Begins
    <2>7. Progress(t)' /\ Changing(t)'
        BY <1>1, <2>4, <2>6 DEF Progress, Changing, Inside, Readers, PutSteps
    <2> QED BY <2>4, <2>5, <2>7, KeyInProgress
<1>2. ASSUME NEW t \in Threads, NEW app \in Apps, Put(t, app) \/ Del(t, app) \/ Destroy(t)
      PROVE  Key'
    <2>1. \E to \in {"putVersion", "delRead", "destroyScan"}, a \in Apps : Begins(t, to, a)
        BY <1>2, PutBegins, DelBegins, DestroyBegins, WorkspaceAssumption
    <2>2. Exclusive(ProcessOf[t]) /\ \E deletes \in BOOLEAN : NoteOverlap(t, deletes)
        BY <1>2 DEF Put, Del, Destroy
    <2>3. UNCHANGED <<data, copies, version, size, indexed, partial>>
        BY <1>2 DEF Put, Del, Destroy, redisVars
    <2> QED BY <1>1, <2>1, <2>2, <2>3
\* steps that leave the key and everyone who changes it alone
<1>3. ASSUME UNCHANGED <<data, copies, version, size, indexed, mixed, partial>>,
             \A u \in Threads : /\ Changing(u)' <=> Changing(u)
                                /\ Changing(u) => Keeps(u)
      PROVE  Key'
    <2>1. High /\ High' /\ ~mixed /\ partial = 0
        BY <1>3, <1>b
    <2>2. CASE \A u \in Threads : ~Changing(u)
        <3>1. Settled'
            BY <1>3, <1>c, <2>1, <2>2 DEF Settled
        <3> QED BY <1>3, <2>1, <2>2, <3>1, KeySettled
    <2>3. ASSUME NEW t \in Threads, Changing(t) PROVE Key'
        <3>1. Alone(t)'
            BY <1>3, <1>d, <2>1, <2>3
        <3>2. Progress(t) /\ Keeps(t)
            BY <1>3, <1>b, <2>1, <2>3
        <3>3. Settled' = Settled /\ Present' = Present
            BY <1>3 DEF Settled, Present
        <3>4. Progress(t)'
            BY <1>3, <3>2, <3>3 DEF Progress, Keeps
        <3> QED BY <1>3, <2>1, <2>3, <3>1, <3>4, KeyInProgress
    <2> QED BY <2>2, <2>3
<1>4. ASSUME NEW t \in Threads, NEW app \in Apps,
             Get(t, app) \/ GetExists(t) \/ GetFetch(t)
      PROVE  Key'
    <2>1. OthersKeep(t) /\ ~Changing(t) /\ ~Changing(t)'
        BY <1>4, GetBegins, GetExistsGoes, ReturnsEnd
        DEF Begins, Goes, Ends, Changing, Inside, Readers
    <2>2. UNCHANGED <<data, copies, version, size, indexed, mixed, partial>>
        BY <1>4 DEF Get, GetExists, GetFetch, redisVars, historyVars
    <2> QED BY <1>3, <1>e, <2>1, <2>2 DEF OthersKeep
<1>5. ASSUME NEW p \in Processes, \/ Create(p) \/ Remove(p)
                                  \/ \E app \in Apps : Grant(p, app) \/ Revoke(p, app)
      PROVE  Key'
    <2>1. UNCHANGED <<op, data, copies, version, size, indexed, mixed, partial>>
        BY <1>5 DEF Create, Remove, Grant, Revoke, SetAcl, redisVars, historyVars
    <2> QED BY <1>3, <2>1 DEF Changing, Inside, Keeps
<1>6. CASE UNCHANGED wsvars
    <2>1. UNCHANGED <<op, data, copies, version, size, indexed, mixed, partial>>
        BY <1>6 DEF wsvars, redisVars, historyVars
    <2> QED BY <1>3, <2>1 DEF Changing, Inside, Keeps
<1>7. CASE Expire
    <2>1. \A u \in Threads : ~Changing(u)'
        BY <1>7, ExpireKeeps DEF Expire, Keeps, Changing, Inside
    <2>2. data' = 0 /\ version' = 0 /\ copies' = [n \in Values |-> 0]
        BY <1>7 DEF Expire
    <2>3. Settled' /\ High'
        BY <2>2 DEF Settled
    <2> QED BY <2>1, <2>3, KeySettled
\* the steps of the thread that changes the key
<1>8. ASSUME NEW t \in Threads, OthersKeep(t), Changing(t), ~mixed, partial = 0
      PROVE  /\ High /\ Progress(t) /\ Alone(t)'
             /\ Changing(t)' /\ High' /\ Progress(t)' => Key'
             /\ ~Changing(t)' /\ High' /\ Settled' => Key'
    <2>1. High /\ Progress(t)
        BY <1>8, <1>b
    <2>2. Alone(t)'
        BY <1>8, <1>d, <1>e
    <2>3. Changing(t)' /\ High' /\ Progress(t)' => Key'
        BY <2>2, KeyInProgress
    <2>4. ~Changing(t)' /\ High' /\ Settled' => Key'
        BY <2>2, KeySettled
    <2> QED BY <2>1, <2>2, <2>3, <2>4
<1>9. ASSUME NEW t \in Threads, PutVersion(t) PROVE Key'
    <2>1. version + 1 \in Values /\ version + 1 \in 0 .. MaxPuts
        BY <1>9, VersionFits, WorkspaceAssumption DEF PutVersion, Values
    <2>2. /\ OthersKeep(t) /\ op[t].at = "putVersion" /\ op'[t].at = "putData"
          /\ op'[t].v = version + 1
        BY <1>9, <2>1, PutVersionGoes
    <2>3. version' = version + 1 /\ UNCHANGED <<copies, mixed, partial>>
        BY <1>9 DEF PutVersion, historyVars
    <2>4. Changing(t) /\ Changing(t)'
        BY <2>2 DEF Changing, Inside, Readers
    <2>5. High'
        BY <1>8, <1>a, <2>2, <2>3, <2>4
    <2>6. Progress(t)'
        BY <2>2, <2>3 DEF Progress, PutSteps
    <2> QED BY <1>8, <2>2, <2>3, <2>4, <2>5, <2>6
<1>10. ASSUME NEW t \in Threads, PutData(t) PROVE Key'
    <2>1. Goes(t, "putData", "putCopy")
        BY <1>10, PutGoes
    <2>2. data' = op[t].value /\ UNCHANGED <<copies, version, mixed, partial>>
        BY <1>10 DEF PutData, historyVars
    <2>3. Changing(t) /\ Changing(t)'
        BY <2>1 DEF Goes, Changing, Inside, Readers
    <2>4. High' /\ Progress(t)
        BY <1>8, <2>1, <2>2, <2>3 DEF Goes
    <2>5. Progress(t)'
        BY <2>1, <2>2, <2>4 DEF Goes, Progress, PutSteps
    <2> QED BY <1>8, <2>1, <2>2, <2>3, <2>4, <2>5 DEF Goes
<1>11. ASSUME NEW t \in Threads, PutCopy(t) PROVE Key'
    <2>1. Goes(t, "putCopy", "putMeta")
        BY <1>11, PutGoes
    <2>2. /\ copies' = [copies EXCEPT ![op[t].v] = op[t].value]
          /\ UNCHANGED <<data, version, mixed, partial>>
        BY <1>11 DEF PutCopy, historyVars
    <2>3. Changing(t) /\ Changing(t)'
        BY <2>1 DEF Goes, Changing, Inside, Readers
    <2>4. High /\ Progress(t)
        BY <1>8, <2>1, <2>2, <2>3 DEF Goes
    <2>5. op[t].v = version /\ data = op[t].value /\ op[t].v \in Values
        BY <2>1, <2>4 DEF Goes, Progress, PutSteps, Numbered
    <2>6. copies'[op[t].v] = op[t].value /\ \A n \in Values \ {op[t].v} : copies'[n] = copies[n]
        BY <1>a, <2>2, <2>5
    <2>7. High'
        BY <1>a, <2>2, <2>4, <2>5, <2>6
    <2>8. Progress(t)'
        BY <2>1, <2>2, <2>5, <2>6 DEF Goes, Progress, PutSteps
    <2> QED BY <1>8, <2>1, <2>2, <2>3, <2>7, <2>8 DEF Goes
<1>12. ASSUME NEW t \in Threads, PutMeta(t) PROVE Key'
    <2>1. Goes(t, "putMeta", "putIndex")
        BY <1>12, PutGoes
    <2>2. size' = op[t].value /\ UNCHANGED <<data, copies, version, mixed, partial>>
        BY <1>12 DEF PutMeta, historyVars
    <2>3. Changing(t) /\ Changing(t)'
        BY <2>1 DEF Goes, Changing, Inside, Readers
    <2>4. High' /\ Progress(t)
        BY <1>8, <2>1, <2>2, <2>3 DEF Goes
    <2>5. Progress(t)'
        BY <2>1, <2>2, <2>4 DEF Goes, Progress, PutSteps
    <2> QED BY <1>8, <2>1, <2>2, <2>3, <2>4, <2>5 DEF Goes
<1>13. ASSUME NEW t \in Threads, PutReturn(t) PROVE Key'
    <2>1. Ends(t, "putIndex")
        BY <1>13, ReturnsEnd
    <2>2. indexed' = TRUE /\ UNCHANGED <<data, copies, version, size, mixed, partial>>
        BY <1>13 DEF PutReturn
    <2>3. Changing(t) /\ ~Changing(t)'
        BY <2>1 DEF Ends, Changing, Inside, Readers
    <2>4. High' /\ Progress(t)
        BY <1>8, <2>1, <2>2, <2>3 DEF Ends
    <2>5. op[t].v \in Values /\ op[t].value \in Values
        BY <2>1 DEF Ends, Numbered, PutSteps
    <2>6. Settled'
        BY <1>a, <2>1, <2>2, <2>4, <2>5 DEF Ends, Progress, PutSteps, Settled
    <2> QED BY <1>8, <2>1, <2>2, <2>3, <2>4, <2>6 DEF Ends
<1>14. ASSUME NEW t \in Threads, DelRead(t) PROVE Key'
    <2>1. /\ OthersKeep(t) /\ op[t].at = "delRead"
          /\ \/ version = 0 /\ op'[t].at = "idle"
             \/ op'[t].at = "delData" /\ op'[t].v = version
        BY <1>14, DelReadGoes DEF Ends
    <2>2. UNCHANGED <<data, copies, version, size, indexed, mixed, partial>>
        BY <1>14 DEF DelRead, redisVars
    <2>3. Changing(t) /\ (Changing(t)' <=> op'[t].at = "delData")
        BY <2>1 DEF Changing, Inside, Readers
    <2>4. High' /\ Progress(t)
        BY <1>8, <2>1, <2>2, <2>3
    <2>5. Settled
        BY <2>1, <2>4 DEF Progress
    <2>6. Settled'
        BY <2>2, <2>5 DEF Settled
    <2>7. CASE op'[t].at = "idle"
        BY <1>8, <2>1, <2>2, <2>3, <2>4, <2>6, <2>7
    <2>8. CASE op'[t].at = "delData"
        <3>1. Progress(t)'
            BY <2>1, <2>2, <2>6, <2>8 DEF Progress, PutSteps
        <3> QED BY <1>8, <2>1, <2>2, <2>3, <2>4, <2>8, <3>1
    <2> QED BY <2>1, <2>7, <2>8
<1>15. ASSUME NEW t \in Threads, DelData(t) PROVE Key'
    <2>1. Goes(t, "delData", "delCopies")
        BY <1>15, DelDataGoes
    <2>2. data' = 0 /\ UNCHANGED <<copies, version, mixed, partial>>
        BY <1>15 DEF DelData, historyVars
    <2>3. Changing(t) /\ Changing(t)'
        BY <2>1 DEF Goes, Changing, Inside, Readers
    <2>4. High' /\ Progress(t)
        BY <1>8, <2>1, <2>2, <2>3 DEF Goes
    <2>5. Progress(t)'
        BY <2>1, <2>2, <2>4 DEF Goes, Progress, PutSteps
    <2> QED BY <1>8, <2>1, <2>2, <2>3, <2>4, <2>5 DEF Goes
<1>16. ASSUME NEW t \in Threads, DelCopies(t) PROVE Key'
    <2>1. Goes(t, "delCopies", "delMeta")
        BY <1>16, DelGoes
    <2>2. /\ copies' = [n \in Values |-> IF n <= op[t].v THEN 0 ELSE copies[n]]
          /\ UNCHANGED <<data, version, mixed, partial>>
        BY <1>16 DEF DelCopies, historyVars
    <2>3. Changing(t) /\ Changing(t)'
        BY <2>1 DEF Goes, Changing, Inside, Readers
    <2>4. High /\ Progress(t)
        BY <1>8, <2>1, <2>2, <2>3 DEF Goes
    <2>5. op[t].v = version /\ data = 0
        BY <2>1, <2>4 DEF Goes, Progress
    <2>6. \A n \in Values : copies'[n] = 0
        BY <1>a, <2>2, <2>4, <2>5
    <2>7. Progress(t)'
        BY <2>1, <2>2, <2>5, <2>6 DEF Goes, Progress, PutSteps
    <2> QED BY <1>8, <2>1, <2>2, <2>3, <2>6, <2>7 DEF Goes
<1>17. ASSUME NEW t \in Threads, DelMeta(t) PROVE Key'
    <2>1. Goes(t, "delMeta", "delIndex")
        BY <1>17, DelGoes
    <2>2. version' = 0 /\ UNCHANGED <<data, copies, mixed, partial>>
        BY <1>17 DEF DelMeta, historyVars
    <2>3. Changing(t) /\ Changing(t)'
        BY <2>1 DEF Goes, Changing, Inside, Readers
    <2>4. Progress(t)
        BY <1>8, <2>1, <2>2, <2>3 DEF Goes
    <2>5. data = 0 /\ \A n \in Values : copies[n] = 0
        BY <2>1, <2>4 DEF Goes, Progress
    <2>6. Progress(t)' /\ High'
        BY <2>1, <2>2, <2>5 DEF Goes, Progress, PutSteps
    <2> QED BY <1>8, <2>1, <2>2, <2>3, <2>6 DEF Goes
<1>18. ASSUME NEW t \in Threads, DelReturn(t) PROVE Key'
    <2>1. Ends(t, "delIndex")
        BY <1>18, ReturnsEnd
    <2>2. UNCHANGED <<data, copies, version, mixed, partial>>
        BY <1>18 DEF DelReturn, historyVars
    <2>3. Changing(t) /\ ~Changing(t)'
        BY <2>1 DEF Ends, Changing, Inside, Readers
    <2>4. Progress(t)
        BY <1>8, <2>1, <2>2, <2>3 DEF Ends
    <2>5. Settled' /\ High'
        BY <2>1, <2>2, <2>4 DEF Ends, Progress, Settled
    <2> QED BY <1>8, <2>1, <2>2, <2>3, <2>5 DEF Ends
<1>19. ASSUME NEW t \in Threads, DestroyScan(t) PROVE Key'
    <2>1. /\ OthersKeep(t) /\ op[t].at = "destroyScan" /\ op'[t].at = "destroyDelete"
          /\ op'[t].scan = Present
        BY <1>19, DestroyScanGoes
    <2>2. UNCHANGED <<data, copies, version, size, indexed, mixed, partial>>
        BY <1>19 DEF DestroyScan, redisVars
    <2>3. Changing(t) /\ Changing(t)'
        BY <2>1 DEF Changing, Inside, Readers
    <2>4. High' /\ Progress(t)
        BY <1>8, <2>1, <2>2, <2>3
    <2>5. Settled
        BY <2>1, <2>4 DEF Progress
    <2>6. Settled' /\ Present' = Present
        BY <2>2, <2>5 DEF Settled, Present
    <2>7. Progress(t)'
        BY <2>1, <2>6 DEF Progress, PutSteps
    <2> QED BY <1>8, <2>1, <2>2, <2>3, <2>4, <2>7
<1>20. ASSUME NEW t \in Threads, DestroyDelete(t) PROVE Key'
    <2>1. Ends(t, "destroyDelete")
        BY <1>20, DestroyDeleteEnds
    <2>2. UNCHANGED <<mixed, partial>>
        BY <1>20 DEF DestroyDelete, historyVars
    <2>3. Changing(t) /\ ~Changing(t)'
        BY <2>1 DEF Ends, Changing, Inside, Readers
    <2>4. Progress(t)
        BY <1>8, <2>1, <2>2, <2>3 DEF Ends
    <2>5. op[t].scan = Present
        BY <2>1, <2>4 DEF Ends, Progress
    <2>6. /\ data' = IF DATA \in Present THEN 0 ELSE data
          /\ copies' = [n \in Values |-> IF n \in Present THEN 0 ELSE copies[n]]
          /\ version' = IF META \in Present THEN 0 ELSE version
        BY <1>20, <2>5 DEF DestroyDelete
    <2>7. /\ data # 0 => DATA \in Present
          /\ version # 0 => META \in Present
          /\ \A n \in Values : copies[n] # 0 => n \in Present
        BY DEF Present
    <2>8. data' = 0 /\ version' = 0 /\ \A n \in Values : copies'[n] = 0
        BY <2>6, <2>7
    <2>9. Settled' /\ High'
        BY <2>8 DEF Settled
    <2> QED BY <1>8, <2>1, <2>2, <2>3, <2>9 DEF Ends
<1>21. ASSUME NEW t \in Threads, Error(t) PROVE Key'
    <2>1. Ends(t, op[t].at)
        BY <1>21, ErrorEnds DEF Types
    <2>2. UNCHANGED <<data, copies, version, size, indexed, mixed>>
        BY <1>21 DEF Error, redisVars
    <2>3. op[t].at \notin Halfway /\ partial' = partial
        BY <1>21 DEF Error, Types
    <2>4. ~Changing(t)'
        BY <2>1 DEF Ends, Changing, Inside
    <2>5. CASE ~Changing(t)
        BY <1>3, <1>e, <2>1, <2>2, <2>3, <2>4, <2>5 DEF Ends, OthersKeep
    <2>6. CASE Changing(t)
        <3>1. High' /\ Progress(t)
            BY <1>8, <2>1, <2>2, <2>3, <2>6 DEF Ends
        <3>2. op[t].at \in {"putVersion", "delRead", "destroyScan"}
            <4>1. op[t].at \in Phases
                BY DEF Types, Operations
            <4> QED BY <2>3, <2>6, <4>1
                    DEF Phases, PutSteps, Deleters, Readers, Halfway, Changing, Inside
        <3>3. Settled
            BY <3>1, <3>2 DEF Progress
        <3>4. Settled'
            BY <2>2, <3>3 DEF Settled
        <3> QED BY <1>8, <2>1, <2>2, <2>3, <2>4, <2>6, <3>1, <3>4 DEF Ends
    <2> QED BY <2>5, <2>6
<1>22. \A t \in Threads : AppsOf[t] \subseteq Apps
    BY WorkspaceAssumption
<1>23. Apps # {}
    BY WorkspaceAssumption
<1> QED BY <1>2, <1>4, <1>5, <1>6, <1>7, <1>9, <1>10, <1>11, <1>12, <1>13, <1>14, <1>15,
           <1>16, <1>17, <1>18, <1>19, <1>20, <1>21, <1>22, <1>23
        DEF Next

-----------------------------------------------------------------------------
(* Theorems *)

\* The inductive invariant of a shared key holds in every reachable state, for
\* any processes, threads, access lists, numbers of puts and of failures.
THEOREM WorkspaceInvariant == Spec => []WsInv
<1>1. Init => WsInv
    BY InitInv
<1>2. WsInv /\ [Next]_wsvars => WsInv'
    <2>1. WsInv /\ [Next]_wsvars => Types' /\ Numbered'
        BY StepTypes, StepNumbered
    <2>2. WsInv /\ [Next]_wsvars => Locks' /\ Overlaps'
        BY StepLocks
    <2>3. WsInv /\ [Next]_wsvars => Versions' /\ Key' /\ NoEmptyGet'
        BY StepVersions, StepKey, StepNoEmptyGet
    <2> QED BY <2>1, <2>2, <2>3 DEF WsInv
<1> QED BY <1>1, <1>2, PTL DEF Spec

\* The variables keep their types, and a put in progress has a version and a
\* value of its own: the version field never outgrows the puts.
THEOREM WorkspaceTypes == Spec => []WorkspaceTypeOK
<1>1. WsInv => WorkspaceTypeOK
    BY DEF WsInv, Types, Numbered, WorkspaceTypeOK, PutSteps
<1> QED BY <1>1, WorkspaceInvariant, PTL

\* A version that put returned can be read back as that version, unless
\* another process ran into a deletion (workspace.cpp, put and get_version).
THEOREM VersionsAreKept == Spec => []VersionsKept
<1>1. WsInv => VersionsKept
    BY DEF WsInv, Versions, VersionsKept
<1> QED BY <1>1, WorkspaceInvariant, PTL

\* Between operations the current value is the newest version and is listed,
\* or nothing is left of the key.
THEOREM KeyIsConsistent == Spec => []KeyConsistent
<1>1. WsInv => KeyConsistent
    BY DEF WsInv, Key, KeyConsistent, Settled
<1> QED BY <1>1, WorkspaceInvariant, PTL

\* A get that has seen the key finds its value, unless another process or the
\* time to live took it away in between.
THEOREM GetsAreNotEmpty == Spec => []NoEmptyGet
<1>1. WsInv => NoEmptyGet
    BY DEF WsInv
<1> QED BY <1>1, WorkspaceInvariant, PTL

\* Nobody is inside a workspace for an application whose access is revoked.
THEOREM AccessIsHeld == Spec => []AccessHeld
<1>1. WsInv => AccessHeld
    BY DEF WsInv, Locks
<1> QED BY <1>1, WorkspaceInvariant, PTL
=============================================================================
