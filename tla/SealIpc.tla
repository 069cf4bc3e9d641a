------------------------------- MODULE SealIpc ------------------------------
(***************************************************************************)
(* SealUnderSession of raven_ipc.py and the command that calls it: one     *)
(* request and one response over a Unix socket, whose timeout counts for   *)
(* each operation, or over a named pipe, whose timeout counts for the call *)
(* and is kept by leaving a thread behind.  The daemon is external: it     *)
(* seals or refuses a request that it has read, answers in pieces, may be  *)
(* slow, answer nonsense, or go down.                                      *)
(***************************************************************************)
EXTENDS Naturals, Sequences, SequencesExt

CONSTANTS
    SealCalls,
    Transport,     \* [SealCalls -> {"unix", "pipe"}]
    IpcTimeout,    \* IPC_IO_TIMEOUT_SEC
    PipeAttempts,  \* _PIPE_BUSY_ATTEMPTS
    MaxNuisances   \* bound: pieces, nonsense answers and daemons gone down

ASSUME SealLimits == IpcTimeout \in Nat /\ PipeAttempts \in Nat \ {0} /\ MaxNuisances \in Nat

VARIABLES
    lineage,   \* the daemon's session with the peer: "none", "usable", "revoked"
    seals,     \* the calls it has sealed for, in order: an envelope is a place here
    ipc,       \* [SealCalls -> the caller: stage, fit of the request, time, outcome;
               \*   "toolarge", "lost" and a pipe's "timeout" have the code IPC_FRAME too]
    thread,    \* [SealCalls -> does the call's thread, or the caller itself, go on]
    conn,      \* [SealCalls -> "none", "open", "asked", "answered", "closed"]
    answer,    \* [SealCalls -> the daemon's answer]
    nuisances

sealVars == <<lineage, seals, ipc, thread, conn, answer, nuisances>>

NoAnswer == [ok |-> "none", code |-> "none", envelope |-> 0]
Waiting  == {"connect", "write", "header", "body"}

SealInit ==
    /\ lineage = "none"
    /\ seals = <<>>
    /\ ipc = [c \in SealCalls |-> [at |-> "new", fit |-> "fits", left |-> IpcTimeout, spent |-> 0,
                                   attempts |-> 0, outcome |-> "none", envelope |-> 0]]
    /\ thread = [c \in SealCalls |-> FALSE]
    /\ conn = [c \in SealCalls |-> "none"]
    /\ answer = [c \in SealCalls |-> NoAnswer]
    /\ nuisances = 0

SealEnds(c, outcome, envelope) ==
    ipc' = [ipc EXCEPT ![c].at = "done", ![c].outcome = outcome, ![c].envelope = envelope]

\* An operation is over; the next one of a socket has the full time again.
Operation(c, next) ==
    ipc' = [ipc EXCEPT ![c].at = next,
                       ![c].left = IF Transport[c] = "unix" THEN IpcTimeout ELSE @]

-----------------------------------------------------------------------------
\* The answer.

\* Mutant: looks for the tokens anywhere in the text of the refusal.
FailClosedByText(code) ==
    IF code \in {"SESSION_REQUIRED", "LINEAGE_REVOKED"} THEN "SESSION_REQUIRED" ELSE code

\* raise_fail_closed: by how the code begins.  The text of a revoked lineage
\* mentions the other token.
FailClosed(code) == code

\* map_seal_response.
Outcome(a) ==
    CASE a.ok = "sealed" -> IF a.envelope = 0 THEN "IPC_FRAME" ELSE "sealed"
      [] a.ok = "error"  -> FailClosed(a.code)
      [] OTHER           -> "IPC_FRAME"

-----------------------------------------------------------------------------
\* The caller.

\* For its peer hint, its payload or a name in it, before anything is opened.
RefusesRequest(c) == SealEnds(c, "refused", 0)

\* The request is built; its length is only tested later.
StartSeal(c) ==
    /\ ipc[c].at = "new"
    /\ \/ RefusesRequest(c) /\ UNCHANGED thread
       \/ \E fit \in {"fits", "toolarge"} :
             /\ ipc' = [ipc EXCEPT ![c].at = "connect", ![c].fit = fit]
             /\ thread' = [thread EXCEPT ![c] = TRUE]
    /\ UNCHANGED <<lineage, seals, conn, answer, nuisances>>

Connect(c) ==
    /\ ipc[c].at = "connect" /\ conn[c] = "none"
    /\ conn' = [conn EXCEPT ![c] = "open"]
    /\ Operation(c, "write")
    /\ UNCHANGED <<lineage, seals, thread, answer, nuisances>>

\* Nobody listens; a busy pipe is tried again a number of times.
CannotConnect(c) ==
    /\ ipc[c].at = "connect" /\ conn[c] = "none"
    /\ \/ Transport[c] = "pipe" /\ ipc[c].attempts + 1 < PipeAttempts
          /\ ipc' = [ipc EXCEPT ![c].attempts = @ + 1]
          /\ UNCHANGED thread
       \/ SealEnds(c, "IPC_CONNECT", 0) /\ thread' = [thread EXCEPT ![c] = FALSE]
    /\ UNCHANGED <<lineage, seals, conn, answer, nuisances>>

\* The whole frame is written; over a pipe the thread may write it although the
\* caller is no longer there, if the handle is not closed yet.
WriteRequest(c) ==
    /\ thread[c] /\ conn[c] = "open"
    /\ ipc[c].at = "write" \/ (ipc[c].at = "done" /\ Transport[c] = "pipe")
    /\ IF ipc[c].fit = "toolarge"
       THEN /\ IF ipc[c].at = "write" THEN SealEnds(c, "toolarge", 0) ELSE UNCHANGED ipc
            /\ conn' = [conn EXCEPT ![c] = "closed"]
            /\ thread' = [thread EXCEPT ![c] = FALSE]
       ELSE /\ IF ipc[c].at = "write" THEN Operation(c, "header") ELSE UNCHANGED ipc
            /\ conn' = [conn EXCEPT ![c] = "asked"]
            /\ UNCHANGED thread
    /\ UNCHANGED <<lineage, seals, answer, nuisances>>

ReadHeader(c) ==
    /\ ipc[c].at = "header" /\ conn[c] = "answered"
    /\ IF answer[c].ok = "badlength"
       THEN /\ SealEnds(c, "IPC_FRAME", 0)
            /\ conn' = [conn EXCEPT ![c] = "closed"] /\ thread' = [thread EXCEPT ![c] = FALSE]
       ELSE Operation(c, "body") /\ UNCHANGED <<conn, thread>>
    /\ UNCHANGED <<lineage, seals, answer, nuisances>>

ReadBody(c) ==
    /\ ipc[c].at = "body" /\ conn[c] = "answered"
    /\ SealEnds(c, Outcome(answer[c]), answer[c].envelope)
    /\ conn' = [conn EXCEPT ![c] = "closed"] /\ thread' = [thread EXCEPT ![c] = FALSE]
    /\ UNCHANGED <<lineage, seals, answer, nuisances>>

\* Part of an answer: only a socket's time starts again.
Piece(c) ==
    /\ ipc[c].at \in {"header", "body"} /\ conn[c] = "answered"
    /\ nuisances < MaxNuisances /\ nuisances' = nuisances + 1
    /\ Operation(c, ipc[c].at)
    /\ UNCHANGED <<lineage, seals, thread, conn, answer>>

\* Nothing more to read, or an error of the operating system.
ConnectionLost(c) ==
    /\ ipc[c].at \in {"write", "header", "body"} /\ conn[c] = "closed"
    /\ SealEnds(c, "lost", 0)
    /\ thread' = [thread EXCEPT ![c] = FALSE]
    /\ UNCHANGED <<lineage, seals, conn, answer, nuisances>>

\* A socket is closed with the call; a pipe's thread is left behind, with the
\* handle until it is closed, or for ever if it is still being opened.
SealTimesOut(c) ==
    /\ ipc[c].at \in Waiting /\ ipc[c].left = 0
    /\ SealEnds(c, IF ipc[c].at = "connect" THEN "IPC_CONNECT" ELSE "timeout", 0)
    /\ IF Transport[c] = "unix"
       THEN /\ thread' = [thread EXCEPT ![c] = FALSE]
            /\ conn' = [conn EXCEPT ![c] = IF @ = "asked" THEN @ ELSE "closed"]
       ELSE UNCHANGED <<thread, conn>>
    /\ UNCHANGED <<lineage, seals, answer, nuisances>>

\* The handle of a pipe call that has timed out is closed, and its thread ends
\* with whatever it has; nobody reads its result.
ThreadEnds(c) ==
    /\ ipc[c].at = "done" /\ thread[c]
    /\ thread' = [thread EXCEPT ![c] = FALSE]
    /\ conn' = [conn EXCEPT ![c] = IF @ = "asked" THEN @ ELSE "closed"]
    /\ UNCHANGED <<lineage, seals, ipc, answer, nuisances>>

-----------------------------------------------------------------------------
\* The daemon, and time.

\* A request that was written is sealed, also when its caller has gone.
DaemonAnswers(c) ==
    /\ conn[c] = "asked"
    /\ conn' = [conn EXCEPT ![c] = "answered"]
    /\ IF lineage = "usable"
       THEN /\ seals' = Append(seals, c)
            /\ answer' = [answer EXCEPT ![c] =
                            [ok |-> "sealed", code |-> "none", envelope |-> Len(seals) + 1]]
       ELSE /\ UNCHANGED seals
            /\ answer' = [answer EXCEPT ![c] =
                            [ok |-> "error", envelope |-> 0,
                             code |-> IF lineage = "revoked" THEN "LINEAGE_REVOKED"
                                                             ELSE "SESSION_REQUIRED"]]
    /\ UNCHANGED <<lineage, ipc, thread, nuisances>>

\* An answer of a wrong length, without an envelope, or that is something else.
DaemonAnswersNonsense(c) ==
    /\ conn[c] = "asked" /\ nuisances < MaxNuisances /\ nuisances' = nuisances + 1
    /\ conn' = [conn EXCEPT ![c] = "answered"]
    /\ \E ok \in {"badlength", "sealed", "other"} :
          answer' = [answer EXCEPT ![c] = [NoAnswer EXCEPT !.ok = ok]]
    /\ UNCHANGED <<lineage, seals, ipc, thread>>

DaemonGoesDown ==
    /\ nuisances < MaxNuisances /\ nuisances' = nuisances + 1
    /\ \E c \in SealCalls : conn[c] \in {"open", "asked", "answered"}
    /\ conn' = [c \in SealCalls |-> IF conn[c] = "none" THEN "none" ELSE "closed"]
    /\ UNCHANGED <<lineage, seals, ipc, thread, answer>>

\* A session comes about, or its lineage is revoked, for good.
LineageChanges ==
    /\ lineage' \in [none |-> {"usable"}, usable |-> {"revoked"}, revoked |-> {}][lineage]
    /\ UNCHANGED <<seals, ipc, thread, conn, answer, nuisances>>

SealTick ==
    /\ \E c \in SealCalls : ipc[c].at \in Waiting
    /\ \A c \in SealCalls : ipc[c].at \in Waiting => ipc[c].left > 0
    /\ ipc' = [c \in SealCalls |->
                 IF ipc[c].at \in Waiting
                 THEN [ipc[c] EXCEPT !.left = @ - 1, !.spent = @ + 1] ELSE ipc[c]]
    /\ UNCHANGED <<lineage, seals, thread, conn, answer, nuisances>>

SealNext ==
    \/ \E c \in SealCalls :
          \/ StartSeal(c) \/ Connect(c) \/ CannotConnect(c) \/ WriteRequest(c) \/ ReadHeader(c)
          \/ ReadBody(c) \/ Piece(c) \/ ConnectionLost(c) \/ SealTimesOut(c) \/ ThreadEnds(c)
          \/ DaemonAnswers(c) \/ DaemonAnswersNonsense(c)
    \/ DaemonGoesDown \/ LineageChanges \/ SealTick

SealSpec == SealInit /\ [][SealNext]_sealVars

-----------------------------------------------------------------------------
\* Properties.

SealTypeOK ==
    /\ \A c \in SealCalls : ipc[c].left \in 0 .. IpcTimeout /\ ipc[c].attempts < PipeAttempts
    /\ ToSet(seals) \subseteq SealCalls /\ nuisances \in 0 .. MaxNuisances

\* A caller is given an envelope only if the daemon has sealed that one for its
\* own request; it is told that a lineage is revoked, or that there is no usable
\* session, only if the daemon refused for just that reason; a call that could
\* not connect, was refused before it was sent, or was refused by the daemon has
\* sealed nothing and never will, so that it may be repeated, while an error of
\* a frame or of time says nothing; and a call over a pipe is over in time,
\* however slowly the daemon answers.
SealSound ==
    \A c \in SealCalls :
        /\ ipc[c].outcome = "sealed" => seals[ipc[c].envelope] = c
        /\ ipc[c].outcome = "LINEAGE_REVOKED" => lineage = "revoked"
        /\ ipc[c].outcome = "SESSION_REQUIRED" => answer[c].code = "SESSION_REQUIRED"
        /\ ipc[c].outcome \in {"IPC_CONNECT", "refused", "toolarge", "LINEAGE_REVOKED",
                              "SESSION_REQUIRED"}
              => c \notin ToSet(seals)
        /\ Transport[c] = "pipe" => ipc[c].spent <= IpcTimeout
=============================================================================
