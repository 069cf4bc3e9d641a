----------------------------- MODULE TrustFiles -----------------------------
(***************************************************************************)
(* Whom a home trusts: the commands of rdap.py that write state.json, the  *)
(* teammates a user sees, and peers.json, the identities that the running  *)
(* node lets in.  The two files cannot be replaced together.  Commands run *)
(* as processes of their own; most write under one lock file, compare what *)
(* they decided on with what the files hold now, and may be killed between *)
(* any two writes.  raven-bind reads and writes state.json without the     *)
(* lock, and start creates a missing peers.json without it.                *)
(***************************************************************************)
EXTENDS Naturals

CONSTANTS
    Commands,    \* processes that run a command
    Names,       \* names of teammates
    Addresses,   \* Raven addresses, each with its one public key
    Nobody,      \* no address
    BindAlone,   \* raven-bind is only run while no other command runs
    MaxCommands, \* bound: commands started, and targets of discover
    MaxFaults    \* bound: crashes and failed writes

ASSUME NobodyElse == Nobody \notin Commands \cup Addresses

VARIABLES
    home,        \* state.json
    peers,       \* peers.json: the addresses that are let in
    policed,     \* peers.json exists
    lock,        \* the command that holds STATE_LOCK_FILE, or Nobody
    cmd,         \* [Commands -> what the process does and remembers]
    started, failures

trustVars == <<home, peers, policed, lock, cmd, started, failures>>

\* A teammate: address, and the identity that its url and its mailbox were
\* verified against.
Mates    == [address : Addresses, endpoint : Addresses \cup {Nobody}]
Settings == {"name", "llm", "bind"}

Resting == [at |-> "rest"]

\* A fresh home, or one that is older than peers.json.
TrustInit ==
    /\ \/ home = [mates |-> <<>>, settings |-> {}]
       \/ home = [mates |-> <<>>, settings |-> {"name"}]
    /\ peers = {} /\ policed = FALSE
    /\ lock = Nobody
    /\ cmd = [c \in Commands |-> Resting]
    /\ started = 0 /\ failures = 0

Visible(st) == {st.mates[n].address : n \in DOMAIN st.mates}

Becomes(c, new) == cmd' = [cmd EXCEPT ![c] = new]
Goes(c, stage)  == cmd' = [cmd EXCEPT ![c].at = stage]
Ends(c)         == Becomes(c, Resting)

\* What a command remembers: its aim and the files as it read them.
Begins(c, stage, name, address, verified) ==
    /\ cmd[c] = Resting
    /\ started < MaxCommands
    /\ started' = started + 1
    /\ BindAlone => \A d \in Commands : cmd[d] # Resting => cmd[d].at # "bind"
    /\ Becomes(c, [at |-> stage, name |-> name, address |-> address,
                   verified |-> verified, st |-> home, peers |-> peers])
    /\ UNCHANGED <<home, peers, policed, lock, failures>>

\* Mutant: the lock is taken, the files are not compared.
LockedUncompared(c, stage) ==
    /\ lock = Nobody
    /\ lock' = c /\ Goes(c, stage)
    /\ UNCHANGED <<home, peers, policed, started, failures>>

\* The lock, and nothing has changed since the decision; otherwise the user is
\* told to retry.
LockedUnchanged(c, stage) ==
    /\ lock = Nobody
    /\ IF home = cmd[c].st /\ peers = cmd[c].peers
       THEN lock' = c /\ Goes(c, stage)
       ELSE Ends(c) /\ UNCHANGED lock
    /\ UNCHANGED <<home, peers, policed, started, failures>>

WritePeers(new) == peers' = new /\ policed' = TRUE
Release(c)      == lock' = Nobody /\ Ends(c)

-----------------------------------------------------------------------------
\* trust: an invite pins a name to an address.

TrustBegin(c, n, a) == Begins(c, "trustProbe", n, a, Nobody)

\* The live identity behind the url, if one was given, is verified before
\* anything is stored; then peers.json is read.
TrustProbe(c, url) ==
    /\ cmd[c].at = "trustProbe"
    /\ \/ Becomes(c, [cmd[c] EXCEPT !.at = "trustLock", !.peers = peers,
                          !.verified = IF url THEN cmd[c].address ELSE Nobody])
       \/ url /\ Ends(c)
    /\ UNCHANGED <<home, peers, policed, lock, started, failures>>

\* Mutant: a saved url and mailbox survive a new identity.
MateKeepsEndpoint(m) ==
    [address |-> m.address,
     endpoint |-> IF m.verified = Nobody /\ m.name \in DOMAIN m.st.mates
                  THEN m.st.mates[m.name].endpoint ELSE m.verified]

\* The saved teammate; its url and mailbox survive only for the same identity.
Mate(m) ==
    [address |-> m.address,
     endpoint |-> IF /\ m.verified = Nobody /\ m.name \in DOMAIN m.st.mates
                     /\ m.st.mates[m.name].address = m.address
                  THEN m.st.mates[m.name].endpoint ELSE m.verified]

WithMate(m, mate) ==
    [m.st EXCEPT !.mates = [n \in DOMAIN m.st.mates \cup {m.name} |->
                             IF n = m.name THEN mate ELSE m.st.mates[n]]]

\* The identity that a rotation replaces, unless another name still has it.
Replaced(m) == {m.st.mates[k].address : k \in {m.name} \cap DOMAIN m.st.mates}
    \ ({m.address} \cup {m.st.mates[k].address : k \in DOMAIN m.st.mates \ {m.name}})

FinalPeers(m) == (m.peers \ Replaced(m)) \cup {m.address}

SafePeers(m) ==
    (m.peers \ Replaced(m)) \ (IF m.address \in Visible(m.st) THEN {} ELSE {m.address})

TrustLock(c) ==
    cmd[c].at = "trustLock" /\ LockedUnchanged(c, "trustSafe")

\* Three writes: deny what changes, show the teammate, let it in.
TrustSafe(c) ==
    /\ cmd[c].at = "trustSafe"
    /\ Goes(c, "trustState")
    /\ IF SafePeers(cmd[c]) = cmd[c].peers THEN UNCHANGED <<peers, policed>>
       ELSE WritePeers(SafePeers(cmd[c]))
    /\ UNCHANGED <<home, lock, started, failures>>

TrustState(c) ==
    /\ cmd[c].at = "trustState"
    /\ home' = WithMate(cmd[c], Mate(cmd[c]))
    /\ Goes(c, "trustFinal")
    /\ UNCHANGED <<peers, policed, lock, started, failures>>

\* state.json cannot be written: the old policy is restored, if that succeeds.
TrustStateFails(c) ==
    /\ cmd[c].at = "trustState"
    /\ failures < MaxFaults /\ failures' = failures + 1
    /\ IF SafePeers(cmd[c]) = cmd[c].peers THEN UNCHANGED <<peers, policed>>
       ELSE WritePeers(cmd[c].peers) \/ UNCHANGED <<peers, policed>>
    /\ Release(c)
    /\ UNCHANGED <<home, started>>

TrustFinal(c) ==
    /\ cmd[c].at = "trustFinal"
    /\ WritePeers(FinalPeers(cmd[c]))
    /\ Release(c)
    /\ UNCHANGED <<home, started, failures>>

-----------------------------------------------------------------------------
\* discover: one node after the other on the local network is trusted on first
\* use.

DiscoverBegin(c) == Begins(c, "discover", Nobody, Nobody, Nobody)

\* An identity and a signed card; a saved name may not change its identity.
DiscoverFound(c, n, a) ==
    LET known == cmd[c].st.mates
    IN  /\ cmd[c].at = "discover"
        /\ started < MaxCommands /\ started' = started + 1
        /\ n \in DOMAIN known => known[n].address = a
        /\ Becomes(c, [cmd[c] EXCEPT !.at = "discoverLock", !.name = n,
                                     !.address = a, !.verified = a])
        /\ UNCHANGED <<home, peers, policed, lock, failures>>

DiscoverLock(c) ==
    cmd[c].at = "discoverLock" /\ LockedUnchanged(c, "discoverState")

\* The teammate is shown before it is let in.
DiscoverState(c) ==
    /\ cmd[c].at = "discoverState"
    /\ home' = WithMate(cmd[c], Mate(cmd[c]))
    /\ Goes(c, "discoverPeers")
    /\ UNCHANGED <<peers, policed, lock, started, failures>>

\* The next target is decided on what this one left.
DiscoverPeers(c) ==
    LET new == cmd[c].peers \cup {cmd[c].address}
    IN  /\ cmd[c].at = "discoverPeers"
        /\ WritePeers(new)
        /\ lock' = Nobody
        /\ Becomes(c, [cmd[c] EXCEPT !.at = "discover", !.peers = new,
                                     !.st = WithMate(cmd[c], Mate(cmd[c]))])
        /\ UNCHANGED <<home, started, failures>>

DiscoverEnds(c) ==
    /\ cmd[c].at = "discover"
    /\ Ends(c)
    /\ UNCHANGED <<home, peers, policed, lock, started, failures>>

-----------------------------------------------------------------------------
\* The other writers of state.json.

\* ask, say and ping probe a teammate and merge what they found.
MergeBegin(c, n) ==
    /\ n \in DOMAIN home.mates
    /\ Begins(c, "merge", n, home.mates[n].address, home.mates[n].address)

\* model chooses a brain; init names the home.
ModelBegin(c) == Begins(c, "model", Nobody, Nobody, Nobody)
InitBegin(c)  == Begins(c, "init", Nobody, Nobody, Nobody)

\* What each of them checks of the files as they are under the lock.
MayChange(m) ==
    IF m.at = "merge"
    THEN m.name \in DOMAIN home.mates /\ home.mates[m.name].address = m.address
    ELSE (m.at = "init") # ("name" \in home.settings)

Changed(m) ==
    CASE m.at = "mergeWrite" -> WithMate(m, [m.st.mates[m.name] EXCEPT !.endpoint = m.verified])
      [] m.at = "modelWrite" -> [m.st EXCEPT !.settings = @ \cup {"llm"}]
      [] m.at = "initWrite"  -> [m.st EXCEPT !.settings = @ \cup {"name"}]
      [] m.at = "bind"       -> [m.st EXCEPT !.settings = @ \cup {"bind"}]

Writing == [merge |-> "mergeWrite", model |-> "modelWrite", init |-> "initWrite"]

\* Under the lock they read again; init creates the empty policy.
ChangeRead(c) ==
    /\ cmd[c].at \in {"merge", "model", "init"}
    /\ lock = Nobody
    /\ IF MayChange(cmd[c])
       THEN /\ lock' = c
            /\ Becomes(c, [cmd[c] EXCEPT !.at = Writing[@], !.st = home])
            /\ IF cmd[c].at = "init" /\ ~policed THEN WritePeers({})
               ELSE UNCHANGED <<peers, policed>>
       ELSE Ends(c) /\ UNCHANGED <<lock, peers, policed>>
    /\ UNCHANGED <<home, started, failures>>

ChangeWrite(c) ==
    /\ cmd[c].at \in {"mergeWrite", "modelWrite", "initWrite"}
    /\ home' = Changed(cmd[c])
    /\ Release(c)
    /\ UNCHANGED <<peers, policed, started, failures>>

\* raven-bind: read, then replace, without the lock.
BindBegin(c) ==
    /\ BindAlone => \A d \in Commands : cmd[d] = Resting
    /\ Begins(c, "bind", Nobody, Nobody, Nobody)

BindWrite(c) ==
    /\ cmd[c].at = "bind"
    /\ home' = Changed(cmd[c])
    /\ Ends(c)
    /\ UNCHANGED <<peers, policed, lock, started, failures>>

\* start, in a home older than peers.json: an empty policy, without the lock.
StartBegin(c) ==
    /\ "name" \in home.settings /\ ~policed
    /\ Begins(c, "start", Nobody, Nobody, Nobody)

StartWrite(c) ==
    /\ cmd[c].at = "start"
    /\ WritePeers({})
    /\ Ends(c)
    /\ UNCHANGED <<home, lock, started, failures>>

\* A command is killed, runs into the lock's timeout or fails to write.
Killed(c) ==
    /\ cmd[c] # Resting
    /\ failures < MaxFaults /\ failures' = failures + 1
    /\ Ends(c)
    /\ lock' = IF lock = c THEN Nobody ELSE lock
    /\ UNCHANGED <<home, peers, policed, started>>

TrustNext == \E c \in Commands :
    \/ \E n \in Names, a \in Addresses : TrustBegin(c, n, a) \/ DiscoverFound(c, n, a)
    \/ \E url \in BOOLEAN : TrustProbe(c, url)
    \/ TrustLock(c) \/ TrustSafe(c) \/ TrustState(c) \/ TrustStateFails(c) \/ TrustFinal(c)
    \/ DiscoverBegin(c) \/ DiscoverLock(c) \/ DiscoverState(c) \/ DiscoverPeers(c)
    \/ DiscoverEnds(c)
    \/ \E n \in Names : MergeBegin(c, n)
    \/ ModelBegin(c) \/ InitBegin(c) \/ ChangeRead(c) \/ ChangeWrite(c)
    \/ BindBegin(c) \/ BindWrite(c) \/ StartBegin(c) \/ StartWrite(c)
    \/ Killed(c)

TrustSpec == TrustInit /\ [][TrustNext]_trustVars

-----------------------------------------------------------------------------
\* Properties.

TrustTypeOK ==
    /\ DOMAIN home.mates \subseteq Names
    /\ \A n \in DOMAIN home.mates : home.mates[n] \in Mates
    /\ home.settings \subseteq Settings
    /\ peers \subseteq Addresses /\ (peers # {} => policed)
    /\ lock \in Commands \cup {Nobody}
    /\ \A c \in Commands : lock = c => cmd[c] # Resting

\* Whoever is let in is a teammate that the user can see, and therefore revoke,
\* whatever commands ran at the same time and wherever they were interrupted; an
\* identity that a rotation replaced is denied before its successor is shown.
NoHiddenPeer == peers \subseteq Visible(home)

\* A url or mailbox that is saved with a teammate was verified against the
\* identity that is saved with it, also when the identity was rotated while an
\* endpoint of the old one was being probed.
EndpointsVerified == \A n \in DOMAIN home.mates :
    home.mates[n].endpoint \in {Nobody, home.mates[n].address}

\* The two files never trust what was not verified and is not shown.
TrustSound == NoHiddenPeer /\ EndpointsVerified
=============================================================================
