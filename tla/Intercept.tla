------------------------------ MODULE Intercept ------------------------------
(***************************************************************************)
(* The LD_PRELOAD driver (src/src/drivers/posix_intercept.cpp) over the    *)
(* POSIX adapter: the session comes up on the first call that names a      *)
(* LABIOS path, after up to MAX_SESSION_RETRIES attempts, and is torn down *)
(* by the library's destructor while the flush timer may be at work.       *)
(*                                                                         *)
(* The wrappers only route: a path under an intercepted prefix and a       *)
(* descriptor in the table go to the adapter, the rest to libc, which is   *)
(* left out.  std::call_once makes the other threads wait for the first.   *)
(***************************************************************************)
EXTENDS PosixAdapter

CONSTANTS
    MAX_SESSION_RETRIES,
    OpenModes   \* sets of open flags used: O_CREAT, O_TRUNC, O_SYNC

VARIABLES
    session,   \* "none", "live", "crashed" or "gone"
    attempt    \* attempts of the thread in init_session

driverVars == <<session, attempt>>
vars == <<posixVars, driverVars>>

Init == PosixInit /\ session = "none" /\ attempt = 0

-----------------------------------------------------------------------------
(* init_session: all of it happens inside call_once. *)

SessionUp ==
    /\ session = "none"
    /\ session' = "live"
    /\ attempt' = 0
    /\ UNCHANGED posixVars

(* After the last attempt g_fallback_mode sends later calls to libc, but   *)
(* the wrapper that called init_session goes on to use g_adapter, and      *)
(* there is none.                                                          *)
SessionFails ==
    /\ session = "none"
    /\ attempt' = attempt + 1
    /\ session' = IF attempt' = MAX_SESSION_RETRIES THEN "crashed" ELSE session
    /\ UNCHANGED posixVars

-----------------------------------------------------------------------------
(* The wrappers.  A path is LABIOS's if it has an intercepted prefix and a *)
(* descriptor if the table has it; Files and Fds stand for those.          *)

Routed == session = "live" /\ UNCHANGED driverVars

OpenCalls(t) ==
    Routed /\ \E file \in Files : \E m \in OpenModes :
                Silent(Open(t, file, "creat" \in m, "trunc" \in m, "sync" \in m))

TransferCalls(t) ==
    Routed /\ \E fd \in Fds :
      \/ Read(t, fd) \/ Pread(t, fd)
      \/ Silent(\/ Close(t, fd, "return", 0) \/ Write(t, fd) \/ Pwrite(t, fd)
                \/ Lseek(t, fd) \/ Fsync(t, fd))

UnlinkCall(t) == Routed /\ \E file \in Files : Silent(Unlink(t, file))

FtruncateCall(t) ==
    Routed /\ \E fd \in Fds : \E len \in Lengths : Silent(Ftruncate(t, fd, len))

DupCalls(t) ==
    Routed /\ \E fd \in Fds : Silent(Dup(t, fd) \/ \E newfd \in Fds : Dup2(t, fd, newfd))

RenameCall(t) == Routed /\ \E old, new \in Files : Silent(Rename(t, old, new))

(* fopen: the mode decides O_CREAT and O_TRUNC. *)
FopenCall(t) ==
    Routed /\ \E file \in Files : \E mode \in {"r", "w", "a"} :
                Silent(Open(t, file, mode # "r", mode = "w", FALSE))

(* fread and fwrite go straight to read and write of the descriptor. *)
FreadFwriteCalls(t) == Routed /\ \E fd \in Fds : Read(t, fd) \/ Silent(Write(t, fd))

FcloseCall(t) == Routed /\ \E fd \in Fds : Silent(Close(t, fd, "fclose", 0))

Calls(t) ==
    \/ OpenCalls(t) \/ TransferCalls(t) \/ UnlinkCall(t) \/ FtruncateCall(t)
    \/ DupCalls(t) \/ RenameCall(t)
    \/ FopenCall(t) \/ FreadFwriteCalls(t) \/ FcloseCall(t)

ThreadRuns(t) == Routed /\ Internal(t)

TimerRuns == Routed /\ TimerStep

-----------------------------------------------------------------------------
(* labios_intercept_fini *)

(* Everything cached is taken, and published by the steps of Internal.     *)
(* The application's threads have ended.                                   *)
Fini(t) ==
    /\ \A u \in Threads : call[u].op = "idle"
    /\ Routed
    /\ Silent(TakeAll(t, "exit"))

(* Seeded fault: the session goes before the regions are published. *)
TeardownEarly(t) ==
    /\ session = "live"
    /\ call[t].op = "exit"
    /\ session' = "gone"
    /\ torn' = torn \cup {r.file : r \in Range(call[Timer].todo)}
    /\ caches' = [fd \in Fds |-> Absent]
    /\ call' = [a \in Actors |-> IdleCall]
    /\ UNCHANGED <<fdVars, meta, store, owed, writes, faults, latest,
                   loose, attempt>>
    /\ reply' = NoReply

(* g_session.reset() clears the pointer before it destroys the session, so *)
(* the drain in ~ContentManager finds no session, and a timer inside its   *)
(* callback runs into a null pointer: what it holds is gone.               *)
Teardown(t) ==
    /\ session = "live"
    /\ call[t].op = "exit" /\ call[t].todo = <<>>
    /\ session' = "gone"
    /\ torn' = torn \cup {r.file : r \in Range(call[Timer].todo)}
    /\ caches' = [fd \in Fds |-> Absent]
    /\ call' = [a \in Actors |-> IdleCall]
    /\ UNCHANGED <<fdVars, meta, store, owed, writes, faults, latest,
                   loose, attempt>>
    /\ reply' = NoReply

-----------------------------------------------------------------------------
Next ==
    \/ SessionUp \/ SessionFails \/ TimerRuns
    \/ \E t \in Threads : Calls(t) \/ ThreadRuns(t) \/ Fini(t) \/ Teardown(t)

(* The flush thread and a thread inside a call keep running; a wait for a  *)
(* label ends with its answer or after reply_timeout_ms.                   *)
Spec ==
    /\ Init /\ [][Next]_vars
    /\ WF_vars(TimerRuns)
    /\ \A t \in Threads : WF_vars(ThreadRuns(t)) /\ WF_vars(Teardown(t))
=============================================================================
