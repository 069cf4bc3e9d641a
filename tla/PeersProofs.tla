---------------------------- MODULE PeersProofs -----------------------------
(***************************************************************************)
(* Proofs about parts of a node that share no state with each other: the   *)
(* trust files, for any number of commands, names and addresses; the       *)
(* delivery of a task, for any number of teammates and answers; the drain  *)
(* of the mailbox, for any objects and tasks; the bridge to raven-node,    *)
(* for any number of calls that share its connection file; and the report  *)
(* of recent events, for any files, directories, limits and edits.         *)
(***************************************************************************)
EXTENDS TrustFiles, Delivery, MeshDrain, SealIpc, EventLog, Sums, FiniteSetTheorems,
        SequenceTheorems, TLAPS

-----------------------------------------------------------------------------
\* The trust files: types, in which every endpoint that is saved, or remembered by
\* a command, was verified against the identity it is saved with.

Verified == {m \in Mates : m.endpoint \in {Nobody, m.address}}
Homes    == [mates : UNION {[D -> Verified] : D \in SUBSET Names}, settings : SUBSET Settings]

Trusting    == {"trustProbe", "trustLock", "trustSafe", "trustState", "trustFinal"}
Discovering == {"discoverLock", "discoverState", "discoverPeers"}
Unlocked    == {"trustProbe", "trustLock", "discover", "discoverLock", "merge", "model", "init",
                "bind", "start"}
Locked      == {"trustSafe", "trustState", "trustFinal", "discoverState", "discoverPeers",
                "mergeWrite", "modelWrite", "initWrite"}

Memories == [at : Unlocked \cup Locked, name : Names \cup {Nobody},
             address : Addresses \cup {Nobody}, verified : Addresses \cup {Nobody},
             st : Homes, peers : SUBSET Addresses]

\* What a command remembers fits what it does.
Remembers(m) ==
    /\ m \in Memories
    /\ m.at \in Trusting \cup Discovering \cup {"merge", "mergeWrite"} =>
          m.name \in Names /\ m.address \in Addresses /\ m.verified \in {Nobody, m.address}
    /\ m.at = "mergeWrite" =>
          m.name \in DOMAIN m.st.mates /\ m.st.mates[m.name].address = m.address
    /\ m.at \in Discovering /\ m.name \in DOMAIN m.st.mates =>
          m.st.mates[m.name].address = m.address

TrustTypes ==
    /\ home \in Homes
    /\ peers \subseteq Addresses /\ policed \in BOOLEAN /\ (peers # {} => policed)
    /\ lock \in Commands \cup {Nobody}
    /\ DOMAIN cmd = Commands
    /\ \A c \in Commands : cmd[c] = Resting \/ Remembers(cmd[c])
    /\ \A c \in Commands : lock = c <=> cmd[c].at \in Locked

LEMMA HomeParts ==
    ASSUME NEW h \in Homes
    PROVE  /\ DOMAIN h.mates \subseteq Names
           /\ \A n \in DOMAIN h.mates : /\ h.mates[n] \in Mates
                                        /\ h.mates[n].address \in Addresses
                                        /\ h.mates[n].endpoint \in {Nobody, h.mates[n].address}
           /\ Visible(h) \subseteq Addresses
           /\ h.settings \subseteq Settings
<1>1. PICK D \in SUBSET Names : h.mates \in [D -> Verified]
  BY DEF Homes
<1>2. DOMAIN h.mates = D
  BY <1>1
<1>3. \A n \in D : h.mates[n] \in Verified
  BY <1>1
<1> QED
  BY <1>2, <1>3 DEF Verified, Mates, Visible, Homes

\* A teammate is saved or replaced under one name.
LEMMA WithMateFacts ==
    ASSUME NEW m, m.st \in Homes, m.name \in Names, NEW mate \in Verified
    PROVE  /\ WithMate(m, mate) \in Homes
           /\ DOMAIN WithMate(m, mate).mates = DOMAIN m.st.mates \cup {m.name}
           /\ \A n \in DOMAIN m.st.mates \cup {m.name} :
                 WithMate(m, mate).mates[n] = IF n = m.name THEN mate ELSE m.st.mates[n]
<1> DEFINE D == DOMAIN m.st.mates \cup {m.name}
           f == [n \in D |-> IF n = m.name THEN mate ELSE m.st.mates[n]]
<1>1. WithMate(m, mate) = [mates |-> f, settings |-> m.st.settings]
  BY DEF WithMate, Homes
<1>2. PICK C \in SUBSET Names : m.st.mates \in [C -> Verified]
  BY DEF Homes
<1>3. D \in SUBSET Names /\ f \in [D -> Verified]
  BY <1>2
<1>4. f \in UNION {[E -> Verified] : E \in SUBSET Names}
  BY <1>3
<1>5. m.st.settings \in SUBSET Settings
  BY DEF Homes
<1> QED
  BY <1>1, <1>4, <1>5 DEF Homes

\* The teammate that trust or discover saves.
LEMMA MateFacts ==
    ASSUME NEW m, Remembers(m), m.at \in Trusting \cup Discovering
    PROVE  Mate(m) \in Verified /\ Mate(m).address = m.address
<1>1. m.st \in Homes /\ m.address \in Addresses /\ m.verified \in {Nobody, m.address}
  BY DEF Remembers, Memories
<1>2. CASE /\ m.verified = Nobody /\ m.name \in DOMAIN m.st.mates
           /\ m.st.mates[m.name].address = m.address
  <2>1. Mate(m) = [address |-> m.address, endpoint |-> m.st.mates[m.name].endpoint]
    BY <1>2 DEF Mate
  <2>2. m.st.mates[m.name].endpoint \in {Nobody, m.address}
    BY <1>1, <1>2, HomeParts
  <2> QED
    BY <1>1, <2>1, <2>2 DEF Verified, Mates
<1>3. CASE ~ (/\ m.verified = Nobody /\ m.name \in DOMAIN m.st.mates
              /\ m.st.mates[m.name].address = m.address)
  <2>1. Mate(m) = [address |-> m.address, endpoint |-> m.verified]
    BY <1>3 DEF Mate
  <2> QED
    BY <1>1, <2>1 DEF Verified, Mates
<1> QED
  BY <1>2, <1>3

\* What a command writes at the end of the simple changes.
LEMMA ChangedFacts ==
    ASSUME NEW m, Remembers(m), m.at \in {"mergeWrite", "modelWrite", "initWrite", "bind"}
    PROVE  Changed(m) \in Homes /\ Visible(Changed(m)) = Visible(m.st)
<1>1. m.st \in Homes
  BY DEF Remembers, Memories
<1>2. CASE m.at = "mergeWrite"
  <2> DEFINE mate == [m.st.mates[m.name] EXCEPT !.endpoint = m.verified]
  <2>1. /\ m.name \in Names /\ m.address \in Addresses /\ m.verified \in {Nobody, m.address}
        /\ m.name \in DOMAIN m.st.mates /\ m.st.mates[m.name].address = m.address
    BY <1>2 DEF Remembers
  <2>2. m.st.mates[m.name] \in Mates
    BY <1>1, <2>1, HomeParts
  <2>3. mate \in Verified /\ mate.address = m.address
    BY <2>1, <2>2 DEF Verified, Mates
  <2>4. Changed(m) = WithMate(m, mate)
    BY <1>2 DEF Changed
  <2> HIDE DEF mate
  <2>5. /\ WithMate(m, mate) \in Homes
        /\ DOMAIN WithMate(m, mate).mates = DOMAIN m.st.mates \cup {m.name}
        /\ \A n \in DOMAIN m.st.mates \cup {m.name} :
              WithMate(m, mate).mates[n] = IF n = m.name THEN mate ELSE m.st.mates[n]
    BY <1>1, <2>1, <2>3, WithMateFacts
  <2>6. \A n \in DOMAIN m.st.mates :
           n \in DOMAIN WithMate(m, mate).mates
              /\ WithMate(m, mate).mates[n].address = m.st.mates[n].address
    BY <2>1, <2>3, <2>5
  <2>7. DOMAIN WithMate(m, mate).mates = DOMAIN m.st.mates
    BY <2>1, <2>5
  <2> QED
    BY <2>4, <2>5, <2>6, <2>7 DEF Visible
<1>3. ASSUME NEW s \in Settings, Changed(m) = [m.st EXCEPT !.settings = @ \cup {s}]
      PROVE  Changed(m) \in Homes /\ Visible(Changed(m)) = Visible(m.st)
  <2>1. Changed(m) \in Homes /\ Changed(m).mates = m.st.mates
    BY <1>1, <1>3 DEF Homes
  <2> QED
    BY <2>1 DEF Visible
<1>4. CASE m.at = "modelWrite"
  BY <1>3, <1>4 DEF Changed, Settings
<1>5. CASE m.at = "initWrite"
  BY <1>3, <1>5 DEF Changed, Settings
<1>6. CASE m.at = "bind"
  BY <1>3, <1>6 DEF Changed, Settings
<1> QED
  BY <1>2, <1>4, <1>5, <1>6


\* A step of one command, which takes, keeps or gives back the lock.
LEMMA CommandStep ==
    ASSUME TrustTypes, NEW c \in Commands, NEW new, cmd' = [cmd EXCEPT ![c] = new],
           new = Resting \/ Remembers(new),
           home' \in Homes, peers' \subseteq Addresses, policed' \in BOOLEAN,
           peers' # {} => policed',
           \/ lock' = lock /\ (lock = c <=> new.at \in Locked)
           \/ lock = Nobody /\ lock' = c /\ new.at \in Locked
           \/ lock = c /\ lock' = Nobody /\ new.at \notin Locked
    PROVE  TrustTypes'
<1>1. DOMAIN cmd' = Commands /\ cmd'[c] = new /\ \A d \in Commands \ {c} : cmd'[d] = cmd[d]
  BY DEF TrustTypes
<1>2. lock' \in Commands \cup {Nobody}
  BY DEF TrustTypes
<1>3. \A d \in Commands : cmd'[d] = Resting \/ Remembers(cmd'[d])
  BY <1>1 DEF TrustTypes
<1>4. \A d \in Commands : lock' = d <=> cmd'[d].at \in Locked
  <2>1. c # Nobody
    BY NobodyElse
  <2>2. \A d \in Commands : d # Nobody
    BY NobodyElse
  <2>3. lock' = c <=> new.at \in Locked
    BY <2>1 DEF TrustTypes
  <2>4. \A d \in Commands \ {c} : lock' = d <=> lock = d
    BY <2>2
  <2> QED
    BY <1>1, <2>3, <2>4 DEF TrustTypes
<1>5. /\ home' \in Homes
      /\ peers' \subseteq Addresses /\ policed' \in BOOLEAN /\ (peers' # {} => policed')
      /\ lock' \in Commands \cup {Nobody}
      /\ DOMAIN cmd' = Commands
      /\ \A d \in Commands : cmd'[d] = Resting \/ Remembers(cmd'[d])
      /\ \A d \in Commands : lock' = d <=> cmd'[d].at \in Locked
  BY <1>1, <1>2, <1>3, <1>4
<1> QED
  BY <1>5 DEF TrustTypes

\* A command that begins remembers the files as they are.
LEMMA BeginFacts ==
    ASSUME TrustTypes, NEW c \in Commands, NEW stage \in Unlocked,
           NEW name \in Names \cup {Nobody}, NEW address \in Addresses \cup {Nobody},
           NEW verified \in Addresses \cup {Nobody},
           stage \in {"trustProbe", "merge"} =>
              name \in Names /\ address \in Addresses /\ verified \in {Nobody, address},
           stage \in {"trustProbe", "discover", "merge", "model", "init", "bind", "start"},
           Begins(c, stage, name, address, verified)
    PROVE  TrustTypes'
<1> DEFINE new == [at |-> stage, name |-> name, address |-> address, verified |-> verified,
                   st |-> home, peers |-> peers]
<1>1. /\ cmd' = [cmd EXCEPT ![c] = new] /\ cmd[c] = Resting
      /\ UNCHANGED <<home, peers, policed, lock>>
  BY DEF Begins, Becomes
<1>2. new \in Memories
  BY DEF Memories, TrustTypes
<1>3. Remembers(new)
  BY <1>2 DEF Remembers, Trusting, Discovering
<1>4. lock # c
  BY <1>1 DEF TrustTypes, Resting, Locked
<1>5. new.at \notin Locked
  BY DEF Locked
<1>6. TrustTypes'
  <2> HIDE DEF new
  <2>1. home' \in Homes /\ peers' \subseteq Addresses /\ policed' \in BOOLEAN
        /\ (peers' # {} => policed')
    BY <1>1 DEF TrustTypes
  <2> QED
    BY <1>1, <1>3, <1>4, <1>5, <2>1, CommandStep
<1> QED
  BY <1>6

\* A command that ends, with or without the lock.
LEMMA EndFacts ==
    ASSUME TrustTypes, NEW c \in Commands, Ends(c),
           home' \in Homes, peers' \subseteq Addresses, policed' \in BOOLEAN,
           peers' # {} => policed',
           \/ lock # c /\ lock' = lock
           \/ lock = c /\ lock' = Nobody
    PROVE  TrustTypes'
<1>1. cmd' = [cmd EXCEPT ![c] = Resting] /\ Resting.at \notin Locked
  BY DEF Ends, Becomes, Resting, Locked
<1> QED
  BY <1>1, CommandStep

\* A command that goes on to the next stage, with what it remembers.
LEMMA GoFacts ==
    ASSUME TrustTypes, NEW c \in Commands, NEW stage, Goes(c, stage), cmd[c] # Resting,
           \/ cmd[c].at \in Trusting /\ stage \in Trusting
           \/ cmd[c].at \in Discovering /\ stage \in Discovering
    PROVE  /\ cmd' = [cmd EXCEPT ![c] = [cmd[c] EXCEPT !.at = stage]]
           /\ Remembers([cmd[c] EXCEPT !.at = stage])
           /\ [cmd[c] EXCEPT !.at = stage].at = stage
<1> DEFINE m == cmd[c]
           new == [m EXCEPT !.at = stage]
<1>1. Remembers(m)
  BY DEF TrustTypes
<1>2. cmd' = [cmd EXCEPT ![c] = new]
  BY DEF Goes
<1>3. stage \in Unlocked \cup Locked
  BY DEF Trusting, Discovering, Unlocked, Locked
<1>4. new \in Memories
  BY <1>1, <1>3 DEF Remembers, Memories
<1>5. /\ new.at = stage /\ new.name = m.name /\ new.address = m.address
      /\ new.verified = m.verified /\ new.st = m.st
  BY <1>1 DEF Remembers, Memories
<1>6. Remembers(new)
  <2> HIDE DEF new
  <2> QED
    BY <1>1, <1>4, <1>5 DEF Remembers, Trusting, Discovering
<1> QED
  BY <1>2, <1>5, <1>6

LEMMA LockFacts ==
    ASSUME TrustTypes, NEW c \in Commands, NEW stage, LockedUnchanged(c, stage),
           \/ cmd[c].at = "trustLock" /\ stage = "trustSafe"
           \/ cmd[c].at = "discoverLock" /\ stage = "discoverState"
    PROVE  TrustTypes'
<1>1. cmd[c] # Resting /\ lock # c
  BY DEF TrustTypes, Resting, Locked
<1>2. /\ home' = home /\ peers' = peers /\ policed' = policed
      /\ home' \in Homes /\ peers' \subseteq Addresses /\ policed' \in BOOLEAN
      /\ (peers' # {} => policed')
  BY DEF LockedUnchanged, TrustTypes
<1>3. CASE home = cmd[c].st /\ peers = cmd[c].peers
  <2>1. lock = Nobody /\ lock' = c /\ Goes(c, stage)
    BY <1>3 DEF LockedUnchanged
  <2>2. \/ cmd[c].at \in Trusting /\ stage \in Trusting
        \/ cmd[c].at \in Discovering /\ stage \in Discovering
    BY DEF Trusting, Discovering
  <2>3. stage \in Locked
    BY DEF Locked
  <2> QED
    <3> DEFINE new == [cmd[c] EXCEPT !.at = stage]
    <3>1. cmd' = [cmd EXCEPT ![c] = new] /\ Remembers(new) /\ new.at = stage
      BY <1>1, <2>1, <2>2, GoFacts
    <3> HIDE DEF new
    <3> QED
      BY <1>1, <1>2, <2>1, <2>3, <3>1, CommandStep
<1>4. CASE ~ (home = cmd[c].st /\ peers = cmd[c].peers)
  <2>1. Ends(c) /\ lock' = lock
    BY <1>4 DEF LockedUnchanged
  <2> QED
    BY <1>1, <1>2, <2>1, EndFacts
<1> QED
  BY <1>3, <1>4


\* The commands that trust an invite.
LEMMA TrustStepTypes ==
    ASSUME TrustTypes, NEW c \in Commands,
           \/ \E n \in Names, a \in Addresses : TrustBegin(c, n, a)
           \/ \E url \in BOOLEAN : TrustProbe(c, url)
           \/ TrustLock(c) \/ TrustSafe(c) \/ TrustState(c) \/ TrustStateFails(c) \/ TrustFinal(c)
    PROVE  TrustTypes'
<1> DEFINE m == cmd[c]
<1>0. /\ home \in Homes /\ peers \subseteq Addresses /\ policed \in BOOLEAN
      /\ (peers # {} => policed)
      /\ (m = Resting \/ Remembers(m)) /\ Resting.at = "rest"
      /\ (lock = c <=> m.at \in Locked)
  BY DEF TrustTypes, Resting
<1>1. ASSUME NEW n \in Names, NEW a \in Addresses, TrustBegin(c, n, a) PROVE TrustTypes'
  BY <1>1, BeginFacts DEF TrustBegin, Unlocked
<1>2. ASSUME NEW url \in BOOLEAN, TrustProbe(c, url) PROVE TrustTypes'
  <2> DEFINE new == [m EXCEPT !.at = "trustLock", !.peers = peers,
                              !.verified = IF url THEN m.address ELSE Nobody]
  <2>1. m.at = "trustProbe" /\ Remembers(m) /\ lock # c
    BY <1>0, <1>2 DEF TrustProbe, Locked
  <2>2. m \in Memories /\ m.name \in Names /\ m.address \in Addresses
    BY <2>1 DEF Remembers, Trusting
  <2>3. new \in Memories /\ new.at = "trustLock" /\ new.name = m.name /\ new.address = m.address
        /\ new.verified \in {Nobody, m.address}
    BY <1>0, <2>2 DEF Memories, Unlocked
  <2> HIDE DEF new
  <2>4. Remembers(new) /\ new.at \notin Locked
    BY <2>2, <2>3 DEF Remembers, Locked, Discovering
  <2>5. UNCHANGED <<home, peers, policed, lock>>
    BY <1>2 DEF TrustProbe
  <2>6. Becomes(c, new) \/ Ends(c)
    BY <1>2 DEF TrustProbe, new
  <2>7. CASE Becomes(c, new)
    BY <1>0, <2>1, <2>4, <2>5, <2>7, CommandStep DEF Becomes
  <2>8. CASE Ends(c)
    BY <1>0, <2>1, <2>5, <2>8, EndFacts
  <2> QED
    BY <2>6, <2>7, <2>8
<1>3. ASSUME TrustLock(c) PROVE TrustTypes'
  BY <1>3, LockFacts DEF TrustLock
<1>4. ASSUME m.at \in Trusting PROVE Remembers(m) /\ m \in Memories /\ m.address \in Addresses
                                     /\ m.name \in Names /\ m.st \in Homes
                                     /\ m.peers \subseteq Addresses
                                     /\ SafePeers(m) \subseteq Addresses
                                     /\ FinalPeers(m) \subseteq Addresses
  <2>1. Remembers(m)
    BY <1>0, <1>4 DEF Trusting
  <2>2. m \in Memories /\ m.address \in Addresses /\ m.name \in Names
    BY <1>4, <2>1 DEF Remembers
  <2>3. m.peers \subseteq Addresses /\ m.st \in Homes
    BY <2>2 DEF Memories
  <2> QED
    BY <2>1, <2>2, <2>3 DEF SafePeers, FinalPeers
<1>5. ASSUME TrustSafe(c) PROVE TrustTypes'
  <2> DEFINE new == [m EXCEPT !.at = "trustState"]
  <2>1. m.at = "trustSafe" /\ m.at \in Trusting /\ m # Resting /\ lock = c
    BY <1>0, <1>5 DEF TrustSafe, Trusting, Locked
  <2>2. cmd' = [cmd EXCEPT ![c] = new] /\ Remembers(new) /\ new.at = "trustState"
    BY <1>5, <2>1, GoFacts DEF TrustSafe, Trusting
  <2>3. /\ home' \in Homes /\ lock' = lock
        /\ peers' \subseteq Addresses /\ policed' \in BOOLEAN /\ (peers' # {} => policed')
    BY <1>0, <1>4, <1>5, <2>1 DEF TrustSafe, WritePeers
  <2>4. new.at \in Locked
    BY <2>2 DEF Locked
  <2> HIDE DEF new
  <2> QED
    BY <2>1, <2>2, <2>3, <2>4, CommandStep
<1>6. ASSUME TrustState(c) PROVE TrustTypes'
  <2> DEFINE new == [m EXCEPT !.at = "trustFinal"]
  <2>1. m.at = "trustState" /\ m.at \in Trusting /\ m # Resting /\ lock = c
    BY <1>0, <1>6 DEF TrustState, Trusting, Locked
  <2>2. cmd' = [cmd EXCEPT ![c] = new] /\ Remembers(new) /\ new.at = "trustFinal"
    BY <1>6, <2>1, GoFacts DEF TrustState, Trusting
  <2>3. Mate(m) \in Verified
    BY <1>4, <2>1, MateFacts
  <2>4. home' \in Homes
    BY <1>4, <1>6, <2>1, <2>3, WithMateFacts DEF TrustState
  <2>5. UNCHANGED <<peers, policed, lock>>
    BY <1>6 DEF TrustState
  <2>6. new.at \in Locked
    BY <2>2 DEF Locked
  <2> HIDE DEF new
  <2> QED
    BY <1>0, <2>1, <2>2, <2>4, <2>5, <2>6, CommandStep
<1>7. ASSUME TrustStateFails(c) \/ TrustFinal(c) PROVE TrustTypes'
  <2>1. m.at \in Trusting /\ lock = c
    BY <1>0, <1>7 DEF TrustStateFails, TrustFinal, Trusting, Locked
  <2>2. /\ home' \in Homes /\ Ends(c) /\ lock' = Nobody
        /\ peers' \subseteq Addresses /\ policed' \in BOOLEAN /\ (peers' # {} => policed')
    BY <1>0, <1>4, <1>7, <2>1 DEF TrustStateFails, TrustFinal, WritePeers, Release
  <2> QED
    BY <2>1, <2>2, EndFacts
<1> QED
  BY <1>1, <1>2, <1>3, <1>5, <1>6, <1>7

\* discover.
LEMMA DiscoverStepTypes ==
    ASSUME TrustTypes, NEW c \in Commands,
           \/ DiscoverBegin(c) \/ DiscoverLock(c) \/ DiscoverState(c) \/ DiscoverPeers(c)
           \/ DiscoverEnds(c)
           \/ \E n \in Names, a \in Addresses : DiscoverFound(c, n, a)
    PROVE  TrustTypes'
<1> DEFINE m == cmd[c]
<1>0. /\ home \in Homes /\ peers \subseteq Addresses /\ policed \in BOOLEAN
      /\ (peers # {} => policed)
      /\ (m = Resting \/ Remembers(m)) /\ Resting.at = "rest"
      /\ (lock = c <=> m.at \in Locked)
  BY DEF TrustTypes, Resting
<1>1. ASSUME DiscoverBegin(c) PROVE TrustTypes'
  BY <1>1, BeginFacts DEF DiscoverBegin, Unlocked
<1>2. ASSUME NEW n \in Names, NEW a \in Addresses, DiscoverFound(c, n, a) PROVE TrustTypes'
  <2> DEFINE new == [m EXCEPT !.at = "discoverLock", !.name = n, !.address = a, !.verified = a]
  <2>1. m.at = "discover" /\ Remembers(m) /\ lock # c
    BY <1>0, <1>2 DEF DiscoverFound, Locked
  <2>2. new \in Memories /\ new.at = "discoverLock" /\ new.name = n /\ new.address = a
        /\ new.verified = a /\ new.st = m.st
    BY <2>1 DEF Remembers, Memories, Unlocked
  <2> HIDE DEF new
  <2>3. n \in DOMAIN m.st.mates => m.st.mates[n].address = a
    BY <1>2 DEF DiscoverFound
  <2>4. Remembers(new) /\ new.at \notin Locked
    BY <2>2, <2>3 DEF Remembers, Locked
  <2>5. UNCHANGED <<home, peers, policed, lock>> /\ cmd' = [cmd EXCEPT ![c] = new]
    BY <1>2 DEF DiscoverFound, Becomes, new
  <2> QED
    BY <1>0, <2>1, <2>4, <2>5, CommandStep
<1>3. ASSUME DiscoverLock(c) PROVE TrustTypes'
  BY <1>3, LockFacts DEF DiscoverLock
<1>4. ASSUME m.at \in Discovering
      PROVE  /\ Remembers(m) /\ m \in Memories /\ m.address \in Addresses /\ m.name \in Names
             /\ m.st \in Homes /\ m.peers \subseteq Addresses
             /\ WithMate(m, Mate(m)) \in Homes
  <2>1. Remembers(m)
    BY <1>0, <1>4 DEF Discovering
  <2>2. m \in Memories /\ m.address \in Addresses /\ m.name \in Names
    BY <1>4, <2>1 DEF Remembers
  <2>3. m.peers \subseteq Addresses /\ m.st \in Homes
    BY <2>2 DEF Memories
  <2>4. Mate(m) \in Verified
    BY <1>4, <2>1, MateFacts
  <2> QED
    BY <2>1, <2>2, <2>3, <2>4, WithMateFacts
<1>5. ASSUME DiscoverState(c) PROVE TrustTypes'
  <2> DEFINE new == [m EXCEPT !.at = "discoverPeers"]
  <2>1. m.at = "discoverState" /\ m.at \in Discovering /\ m # Resting /\ lock = c
    BY <1>0, <1>5 DEF DiscoverState, Discovering, Locked
  <2>2. cmd' = [cmd EXCEPT ![c] = new] /\ Remembers(new) /\ new.at = "discoverPeers"
    BY <1>5, <2>1, GoFacts DEF DiscoverState, Discovering
  <2>3. home' \in Homes /\ UNCHANGED <<peers, policed, lock>>
    BY <1>4, <1>5, <2>1 DEF DiscoverState
  <2>4. new.at \in Locked
    BY <2>2 DEF Locked
  <2> HIDE DEF new
  <2> QED
    BY <1>0, <2>1, <2>2, <2>3, <2>4, CommandStep
<1>6. ASSUME DiscoverPeers(c) PROVE TrustTypes'
  <2> DEFINE more == m.peers \cup {m.address}
             new == [m EXCEPT !.at = "discover", !.peers = more, !.st = WithMate(m, Mate(m))]
  <2>1. m.at \in Discovering /\ lock = c
    BY <1>0, <1>6 DEF DiscoverPeers, Discovering, Locked
  <2>2. new \in Memories /\ new.at = "discover"
    BY <1>4, <2>1 DEF Memories, Unlocked
  <2>3. cmd' = [cmd EXCEPT ![c] = new] /\ home' = home /\ lock' = Nobody
        /\ peers' = more /\ policed' = TRUE
    BY <1>6 DEF DiscoverPeers, WritePeers, Becomes
  <2>4. more \subseteq Addresses
    BY <1>4, <2>1
  <2> HIDE DEF new, more
  <2>5. Remembers(new) /\ new.at \notin Locked
    BY <2>2 DEF Remembers, Locked, Trusting, Discovering
  <2> QED
    BY <1>0, <2>1, <2>3, <2>4, <2>5, CommandStep
<1>7. ASSUME DiscoverEnds(c) PROVE TrustTypes'
  <2>1. lock # c /\ Ends(c) /\ UNCHANGED <<home, peers, policed, lock>>
    BY <1>0, <1>7 DEF DiscoverEnds, Locked
  <2> QED
    BY <1>0, <2>1, EndFacts
<1> QED
  BY <1>1, <1>2, <1>3, <1>5, <1>6, <1>7

\* The other writers.
LEMMA ChangeStepTypes ==
    ASSUME TrustTypes, NEW c \in Commands,
           \/ \E n \in Names : MergeBegin(c, n)
           \/ ModelBegin(c) \/ InitBegin(c) \/ ChangeRead(c) \/ ChangeWrite(c)
           \/ BindBegin(c) \/ BindWrite(c) \/ StartBegin(c) \/ StartWrite(c)
           \/ Killed(c)
    PROVE  TrustTypes'
<1> DEFINE m == cmd[c]
<1>0. /\ home \in Homes /\ peers \subseteq Addresses /\ policed \in BOOLEAN
      /\ (peers # {} => policed)
      /\ (m = Resting \/ Remembers(m)) /\ Resting.at = "rest"
      /\ (lock = c <=> m.at \in Locked)
  BY DEF TrustTypes, Resting
<1>1. ASSUME NEW n \in Names, MergeBegin(c, n) PROVE TrustTypes'
  <2>1. home.mates[n].address \in Addresses
    BY <1>0, <1>1, HomeParts DEF MergeBegin
  <2> QED
    BY <1>1, <2>1, BeginFacts DEF MergeBegin, Unlocked
<1>2. ASSUME ModelBegin(c) \/ InitBegin(c) \/ BindBegin(c) \/ StartBegin(c) PROVE TrustTypes'
  BY <1>2, BeginFacts DEF ModelBegin, InitBegin, BindBegin, StartBegin, Unlocked
<1>3. ASSUME ChangeRead(c) PROVE TrustTypes'
  <2>1. m.at \in {"merge", "model", "init"} /\ lock = Nobody /\ lock # c /\ home' = home
    BY <1>0, <1>3 DEF ChangeRead, Locked
  <2>2. peers' \subseteq Addresses /\ policed' \in BOOLEAN /\ (peers' # {} => policed')
    BY <1>0, <1>3 DEF ChangeRead, WritePeers
  <2>3. CASE MayChange(m)
    <3> DEFINE new == [m EXCEPT !.at = Writing[@], !.st = home]
    <3>1. m \in Memories /\ Remembers(m)
      BY <1>0, <2>1 DEF Remembers
    <3>2. /\ Writing[m.at] \in {"mergeWrite", "modelWrite", "initWrite"}
          /\ Writing[m.at] = "mergeWrite" <=> m.at = "merge"
      BY <2>1 DEF Writing
    <3>3. /\ new \in Memories /\ new.at = Writing[m.at] /\ new.st = home
          /\ new.name = m.name /\ new.address = m.address /\ new.verified = m.verified
      BY <1>0, <3>1, <3>2 DEF Memories, Locked
    <3>4. cmd' = [cmd EXCEPT ![c] = new] /\ lock' = c
      BY <1>3, <2>3 DEF ChangeRead, Becomes
    <3>5. m.at = "merge" => m.name \in DOMAIN home.mates /\ home.mates[m.name].address = m.address
      BY <2>3 DEF MayChange
    <3> HIDE DEF new
    <3>6. Remembers(new) /\ new.at \in Locked
      BY <3>1, <3>2, <3>3, <3>5 DEF Remembers, Locked, Trusting, Discovering
    <3> QED
      BY <1>0, <2>1, <2>2, <3>4, <3>6, CommandStep
  <2>4. CASE ~ MayChange(m)
    <3>1. Ends(c) /\ lock' = lock
      BY <1>3, <2>4 DEF ChangeRead
    <3> QED
      BY <1>0, <2>1, <2>2, <3>1, EndFacts
  <2> QED
    BY <2>3, <2>4
<1>4. ASSUME ChangeWrite(c) PROVE TrustTypes'
  <2>1. m.at \in {"mergeWrite", "modelWrite", "initWrite"} /\ lock = c
    BY <1>0, <1>4 DEF ChangeWrite, Locked
  <2>2. Remembers(m)
    BY <1>0, <2>1
  <2>3. home' \in Homes
    BY <1>4, <2>1, <2>2, ChangedFacts DEF ChangeWrite
  <2>4. Ends(c) /\ lock' = Nobody /\ UNCHANGED <<peers, policed>>
    BY <1>4 DEF ChangeWrite, Release
  <2> QED
    BY <1>0, <2>1, <2>3, <2>4, EndFacts
<1>5. ASSUME BindWrite(c) PROVE TrustTypes'
  <2>1. m.at = "bind" /\ lock # c
    BY <1>0, <1>5 DEF BindWrite, Locked
  <2>2. Remembers(m)
    BY <1>0, <2>1
  <2>3. home' \in Homes
    BY <1>5, <2>1, <2>2, ChangedFacts DEF BindWrite
  <2>4. Ends(c) /\ UNCHANGED <<peers, policed, lock>>
    BY <1>5 DEF BindWrite
  <2> QED
    BY <1>0, <2>1, <2>3, <2>4, EndFacts
<1>6. ASSUME StartWrite(c) PROVE TrustTypes'
  <2>1. m.at = "start" /\ lock # c
    BY <1>0, <1>6 DEF StartWrite, Locked
  <2>2. Ends(c) /\ UNCHANGED <<home, lock>> /\ peers' = {} /\ policed' = TRUE
    BY <1>6 DEF StartWrite, WritePeers
  <2> QED
    BY <1>0, <2>1, <2>2, EndFacts
<1>7. ASSUME Killed(c) PROVE TrustTypes'
  <2>1. Ends(c) /\ UNCHANGED <<home, peers, policed>>
        /\ lock' = IF lock = c THEN Nobody ELSE lock
    BY <1>7 DEF Killed
  <2> QED
    BY <1>0, <2>1, EndFacts
<1> QED
  BY <1>1, <1>2, <1>3, <1>4, <1>5, <1>6, <1>7

LEMMA TrustTypesKept ==
    ASSUME TrustTypes, [TrustNext]_trustVars
    PROVE  TrustTypes'
<1>1. ASSUME NEW c \in Commands,
             \/ \E n \in Names, a \in Addresses : TrustBegin(c, n, a) \/ DiscoverFound(c, n, a)
             \/ \E url \in BOOLEAN : TrustProbe(c, url)
             \/ TrustLock(c) \/ TrustSafe(c) \/ TrustState(c) \/ TrustStateFails(c)
             \/ TrustFinal(c) \/ DiscoverBegin(c) \/ DiscoverLock(c) \/ DiscoverState(c)
             \/ DiscoverPeers(c) \/ DiscoverEnds(c)
             \/ \E n \in Names : MergeBegin(c, n)
             \/ ModelBegin(c) \/ InitBegin(c) \/ ChangeRead(c) \/ ChangeWrite(c)
             \/ BindBegin(c) \/ BindWrite(c) \/ StartBegin(c) \/ StartWrite(c)
             \/ Killed(c)
      PROVE  TrustTypes'
  BY <1>1, TrustStepTypes, DiscoverStepTypes, ChangeStepTypes
<1>2. CASE UNCHANGED trustVars
  BY <1>2 DEF trustVars, TrustTypes
<1> QED
  BY <1>1, <1>2 DEF TrustNext


-----------------------------------------------------------------------------
\* The trust files: who is let in is shown.

\* What the command that holds the lock may rely on, for the files h and p.
AsHolder(m, h, p) ==
    /\ m.at \in {"trustSafe", "trustState", "discoverState", "mergeWrite", "modelWrite",
                 "initWrite"} => h = m.st
    /\ m.at \in {"trustFinal", "discoverPeers"} => h = WithMate(m, Mate(m))
    /\ m.at \in {"trustSafe", "trustState", "trustFinal", "discoverState", "discoverPeers"} =>
          m.peers \subseteq Visible(m.st)
    /\ m.at = "trustSafe" => p \subseteq m.peers
    /\ m.at = "trustState" => p \subseteq SafePeers(m)

LockInv ==
    /\ NoHiddenPeer
    /\ \A c \in Commands : lock = c => AsHolder(cmd[c], home, peers)
    /\ \A c \in Commands : cmd[c].at = "bind" =>
          cmd[c].st = home /\ \A d \in Commands \ {c} : cmd[d] = Resting

\* The teammates that a saved one leaves visible, and who may be let in before
\* and after it is saved.
LEMMA ShownFacts ==
    ASSUME NEW m, Remembers(m), m.at \in Trusting \cup Discovering,
           m.peers \subseteq Visible(m.st)
    PROVE  /\ SafePeers(m) \subseteq m.peers
           /\ SafePeers(m) \subseteq Visible(WithMate(m, Mate(m)))
           /\ FinalPeers(m) \subseteq Visible(WithMate(m, Mate(m)))
           /\ m.at \in Discovering =>
                 m.peers \cup {m.address} \subseteq Visible(WithMate(m, Mate(m)))
<1> DEFINE new == WithMate(m, Mate(m))
           D == DOMAIN m.st.mates \cup {m.name}
<1>1. m.st \in Homes /\ m.name \in Names
  BY DEF Remembers, Memories
<1>2. Mate(m) \in Verified /\ Mate(m).address = m.address
  BY MateFacts
<1>3. DOMAIN new.mates = D /\ \A n \in D : new.mates[n] = IF n = m.name THEN Mate(m) ELSE m.st.mates[n]
  BY <1>1, <1>2, WithMateFacts
<1> HIDE DEF new
<1>4. m.address \in Visible(new)
  BY <1>2, <1>3 DEF Visible
<1>5. \A n \in DOMAIN m.st.mates \ {m.name} : m.st.mates[n].address \in Visible(new)
  BY <1>3 DEF Visible
<1>6. ASSUME NEW a \in m.peers, a \notin Replaced(m) PROVE a \in Visible(new)
  <2>1. PICK n \in DOMAIN m.st.mates : m.st.mates[n].address = a
    BY <1>6 DEF Visible
  <2>2. CASE n # m.name
    BY <2>1, <2>2, <1>5
  <2>3. CASE n = m.name
    <3>1. a \in {m.address} \cup {m.st.mates[k].address : k \in DOMAIN m.st.mates \ {m.name}}
      BY <1>6, <2>1, <2>3 DEF Replaced
    <3> QED
      BY <3>1, <1>4, <1>5
  <2> QED
    BY <2>2, <2>3
<1>7. SafePeers(m) \subseteq m.peers \ Replaced(m)
  BY DEF SafePeers
<1>8. FinalPeers(m) \subseteq Visible(new)
  BY <1>4, <1>6 DEF FinalPeers
<1>9. ASSUME m.at \in Discovering, NEW a \in m.peers PROVE a \in Visible(new)
  <2>1. PICK n \in DOMAIN m.st.mates : m.st.mates[n].address = a
    BY <1>9 DEF Visible
  <2>2. CASE n # m.name
    BY <2>1, <2>2, <1>5
  <2>3. CASE n = m.name
    BY <1>9, <2>1, <2>3, <1>4 DEF Remembers
  <2> QED
    BY <2>2, <2>3
<1> QED
  BY <1>4, <1>6, <1>7, <1>8, <1>9 DEF new

\* A step of one command; only the holder of the lock, or raven-bind while it is
\* alone, changes state.json or lets anyone in.
LEMMA HolderStep ==
    ASSUME TrustTypes, LockInv, NEW c \in Commands, NEW new, cmd' = [cmd EXCEPT ![c] = new],
           peers' \subseteq Visible(home'),
           cmd[c] # Resting \/ \A d \in Commands : cmd[d].at # "bind",
           new.at = "bind" => new.st = home' /\ \A d \in Commands \ {c} : cmd[d] = Resting,
           \A d \in Commands \ {c} : lock' = d =>
              lock = d /\ home' = home /\ peers' \subseteq peers,
           lock' = c => AsHolder(new, home', peers')
    PROVE  LockInv'
<1>1. cmd'[c] = new /\ \A d \in Commands \ {c} : cmd'[d] = cmd[d]
  BY DEF TrustTypes
<1>2. ASSUME NEW d \in Commands, lock' = d PROVE AsHolder(cmd'[d], home', peers')
  <2>1. CASE d = c
    BY <1>1, <1>2, <2>1
  <2>2. CASE d # c
    <3>1. lock = d /\ home' = home /\ peers' \subseteq peers /\ cmd'[d] = cmd[d]
      BY <1>1, <1>2, <2>2
    <3>2. AsHolder(cmd[d], home, peers)
      BY <3>1 DEF LockInv
    <3> QED
      BY <3>1, <3>2 DEF AsHolder
  <2> QED
    BY <2>1, <2>2
<1>3. ASSUME NEW d \in Commands, cmd'[d].at = "bind"
      PROVE  cmd'[d].st = home' /\ \A e \in Commands \ {d} : cmd'[e] = Resting
  <2>1. CASE d = c
    BY <1>1, <1>3, <2>1
  <2>2. CASE d # c
    <3>1. cmd[d].at = "bind" /\ cmd[c] = Resting
      BY <1>1, <1>3, <2>2 DEF LockInv
    <3> QED
      BY <3>1
  <2> QED
    BY <2>1, <2>2
<1>4. /\ peers' \subseteq Visible(home')
      /\ \A d \in Commands : lock' = d => AsHolder(cmd'[d], home', peers')
      /\ \A d \in Commands : cmd'[d].at = "bind" =>
            cmd'[d].st = home' /\ \A e \in Commands \ {d} : cmd'[e] = Resting
  BY <1>2, <1>3
<1> QED
  BY <1>4 DEF LockInv, NoHiddenPeer, AsHolder, WithMate, Mate, SafePeers, Replaced, Visible


\* A step that changes neither file for the better or the worse: it lets nobody
\* in, and may give up the lock or take it.
LEMMA QuietStep ==
    ASSUME TrustTypes, LockInv, NEW c \in Commands, NEW new, cmd' = [cmd EXCEPT ![c] = new],
           home' = home, peers' \subseteq peers,
           cmd[c] # Resting \/ \A d \in Commands : cmd[d].at # "bind",
           new.at = "bind" => new.st = home /\ \A d \in Commands \ {c} : cmd[d] = Resting,
           lock' \in {lock, Nobody, c},
           lock' = c => AsHolder(new, home', peers')
    PROVE  LockInv'
<1>1. peers' \subseteq Visible(home')
  BY DEF LockInv, NoHiddenPeer
<1>2. \A d \in Commands \ {c} : lock' = d => lock = d /\ home' = home /\ peers' \subseteq peers
  BY NobodyElse
<1> QED
  BY <1>1, <1>2, HolderStep

LEMMA BeginQuiet ==
    ASSUME TrustTypes, LockInv, BindAlone = TRUE, NEW c \in Commands, NEW stage \in Unlocked,
           NEW name, NEW address, NEW verified,
           stage = "bind" => \A d \in Commands : cmd[d] = Resting,
           Begins(c, stage, name, address, verified)
    PROVE  LockInv'
<1> DEFINE new == [at |-> stage, name |-> name, address |-> address, verified |-> verified,
                   st |-> home, peers |-> peers]
<1>1. /\ cmd' = [cmd EXCEPT ![c] = new] /\ cmd[c] = Resting
      /\ UNCHANGED <<home, peers, lock>>
  BY DEF Begins, Becomes
<1>2. \A d \in Commands : cmd[d].at # "bind"
  BY DEF Begins, Resting
<1>3. new.at = stage /\ new.st = home
  OBVIOUS
<1>4. lock # c
  BY <1>1 DEF TrustTypes, Resting, Locked
<1> HIDE DEF new
<1> QED
  BY <1>1, <1>2, <1>3, <1>4, QuietStep

LEMMA EndQuiet ==
    ASSUME TrustTypes, LockInv, NEW c \in Commands, Ends(c), cmd[c] # Resting,
           home' = home, peers' \subseteq peers, lock' \in {lock, Nobody}, lock' # c
    PROVE  LockInv'
<1>1. cmd' = [cmd EXCEPT ![c] = Resting] /\ Resting.at # "bind"
  BY DEF Ends, Becomes, Resting
<1> QED
  BY <1>1, QuietStep

\* The lock is taken when nothing has changed since the decision.
LEMMA LockQuiet ==
    ASSUME TrustTypes, LockInv, NEW c \in Commands, NEW stage, LockedUnchanged(c, stage),
           \/ cmd[c].at = "trustLock" /\ stage = "trustSafe"
           \/ cmd[c].at = "discoverLock" /\ stage = "discoverState"
    PROVE  LockInv'
<1> DEFINE m == cmd[c]
           new == [m EXCEPT !.at = stage]
<1>1. m # Resting /\ lock # c /\ c # Nobody
  BY NobodyElse DEF TrustTypes, Resting, Locked
<1>2. UNCHANGED <<home, peers>>
  BY DEF LockedUnchanged
<1>3. CASE home = m.st /\ peers = m.peers
  <2>1. lock = Nobody /\ lock' = c /\ Goes(c, stage)
    BY <1>3 DEF LockedUnchanged
  <2>2. Remembers(m)
    BY <1>1 DEF TrustTypes
  <2>3. cmd' = [cmd EXCEPT ![c] = new]
    BY <2>1 DEF Goes
  <2>4. new.at = stage /\ new.st = m.st /\ new.peers = m.peers
    BY <2>2 DEF Remembers, Memories
  <2>5. m.peers \subseteq Visible(m.st)
    BY <1>3 DEF LockInv, NoHiddenPeer
  <2> HIDE DEF new
  <2>6. AsHolder(new, home', peers')
    BY <1>2, <1>3, <2>4, <2>5 DEF AsHolder
  <2> QED
    BY <1>1, <1>2, <2>1, <2>3, <2>4, <2>6, QuietStep
<1>4. CASE ~ (home = m.st /\ peers = m.peers)
  <2>1. Ends(c) /\ lock' = lock
    BY <1>4 DEF LockedUnchanged
  <2> QED
    BY <1>1, <1>2, <2>1, EndQuiet
<1> QED
  BY <1>3, <1>4

\* trust.
LEMMA TrustStepShown ==
    ASSUME TrustTypes, LockInv, BindAlone = TRUE, NEW c \in Commands,
           \/ \E n \in Names, a \in Addresses : TrustBegin(c, n, a)
           \/ \E url \in BOOLEAN : TrustProbe(c, url)
           \/ TrustLock(c) \/ TrustSafe(c) \/ TrustState(c) \/ TrustStateFails(c) \/ TrustFinal(c)
    PROVE  LockInv'
<1> DEFINE m == cmd[c]
<1>0. /\ c # Nobody /\ (m = Resting \/ Remembers(m)) /\ Resting.at = "rest"
      /\ (lock = c <=> m.at \in Locked) /\ (lock = c => AsHolder(m, home, peers))
      /\ peers \subseteq Visible(home)
  BY NobodyElse DEF TrustTypes, LockInv, Resting, NoHiddenPeer
<1>1. ASSUME NEW n \in Names, NEW a \in Addresses, TrustBegin(c, n, a) PROVE LockInv'
  BY <1>1, BeginQuiet DEF TrustBegin, Unlocked
<1>2. ASSUME NEW url \in BOOLEAN, TrustProbe(c, url) PROVE LockInv'
  <2> DEFINE new == [m EXCEPT !.at = "trustLock", !.peers = peers,
                              !.verified = IF url THEN m.address ELSE Nobody]
  <2>1. m.at = "trustProbe" /\ m # Resting /\ lock # c /\ Remembers(m)
        /\ UNCHANGED <<home, peers, lock>>
    BY <1>0, <1>2 DEF TrustProbe, Locked
  <2>2. new.at = "trustLock"
    BY <2>1 DEF Remembers, Memories
  <2>3. Becomes(c, new) \/ Ends(c)
    BY <1>2 DEF TrustProbe
  <2> HIDE DEF new
  <2>4. CASE Becomes(c, new)
    BY <2>1, <2>2, <2>4, QuietStep DEF Becomes
  <2>5. CASE Ends(c)
    BY <2>1, <2>5, EndQuiet
  <2> QED
    BY <2>3, <2>4, <2>5
<1>3. ASSUME TrustLock(c) PROVE LockInv'
  BY <1>3, LockQuiet DEF TrustLock
<1>4. ASSUME m.at \in Trusting, lock = c
      PROVE  /\ Remembers(m) /\ m \in Memories /\ m # Resting
             /\ AsHolder(m, home, peers)
             /\ m.at \in {"trustSafe", "trustState", "trustFinal"} =>
                   /\ m.peers \subseteq Visible(m.st)
                   /\ SafePeers(m) \subseteq m.peers
                   /\ SafePeers(m) \subseteq Visible(WithMate(m, Mate(m)))
                   /\ FinalPeers(m) \subseteq Visible(WithMate(m, Mate(m)))
  <2>1. Remembers(m) /\ m \in Memories /\ m # Resting /\ AsHolder(m, home, peers)
    BY <1>0, <1>4 DEF Trusting, Remembers
  <2>2. m.at \in {"trustSafe", "trustState", "trustFinal"} => m.peers \subseteq Visible(m.st)
    BY <2>1 DEF AsHolder
  <2> QED
    BY <1>4, <2>1, <2>2, ShownFacts
<1>5. ASSUME TrustSafe(c) PROVE LockInv'
  <2> DEFINE new == [m EXCEPT !.at = "trustState"]
  <2>1. m.at = "trustSafe" /\ m.at \in Trusting /\ lock = c
    BY <1>0, <1>5 DEF TrustSafe, Trusting, Locked
  <2>2. /\ cmd' = [cmd EXCEPT ![c] = new] /\ home' = home /\ lock' = lock
        /\ (peers' = SafePeers(m) \/ (peers' = peers /\ SafePeers(m) = m.peers))
    BY <1>5 DEF TrustSafe, Goes, WritePeers
  <2>3. home = m.st /\ peers \subseteq m.peers
    BY <1>4, <2>1 DEF AsHolder
  <2>4. new.at = "trustState" /\ new.st = m.st /\ new.peers = m.peers
        /\ new.address = m.address /\ new.name = m.name
    BY <1>4, <2>1 DEF Memories
  <2>5. SafePeers(new) = SafePeers(m)
    BY <2>4 DEF SafePeers, Replaced
  <2> HIDE DEF new
  <2>6. peers' \subseteq SafePeers(m) /\ peers' \subseteq Visible(home')
    BY <1>4, <2>1, <2>2, <2>3
  <2>7. AsHolder(new, home', peers')
    BY <1>4, <2>1, <2>2, <2>3, <2>4, <2>5, <2>6 DEF AsHolder
  <2>8. \A d \in Commands \ {c} : lock' # d
    BY <2>1, <2>2
  <2> QED
    BY <1>4, <2>1, <2>2, <2>4, <2>6, <2>7, <2>8, HolderStep
<1>6. ASSUME TrustState(c) PROVE LockInv'
  <2> DEFINE new == [m EXCEPT !.at = "trustFinal"]
  <2>1. m.at = "trustState" /\ m.at \in Trusting /\ lock = c
    BY <1>0, <1>6 DEF TrustState, Trusting, Locked
  <2>2. /\ cmd' = [cmd EXCEPT ![c] = new] /\ home' = WithMate(m, Mate(m))
        /\ lock' = lock /\ peers' = peers
    BY <1>6 DEF TrustState, Goes
  <2>3. peers \subseteq SafePeers(m)
    BY <1>4, <2>1 DEF AsHolder
  <2>4. new.at = "trustFinal" /\ new.st = m.st /\ new.peers = m.peers
        /\ new.address = m.address /\ new.name = m.name /\ new.verified = m.verified
    BY <1>4, <2>1 DEF Memories
  <2>5. WithMate(new, Mate(new)) = WithMate(m, Mate(m))
    BY <2>4 DEF WithMate, Mate
  <2> HIDE DEF new
  <2>6. AsHolder(new, home', peers')
    BY <1>4, <2>1, <2>2, <2>4, <2>5 DEF AsHolder
  <2>7. peers' \subseteq Visible(home')
    BY <1>4, <2>1, <2>2, <2>3
  <2>8. \A d \in Commands \ {c} : lock' # d
    BY <2>1, <2>2
  <2> QED
    BY <1>4, <2>1, <2>2, <2>4, <2>6, <2>7, <2>8, HolderStep
<1>7. ASSUME TrustStateFails(c) \/ TrustFinal(c) PROVE LockInv'
  <2>1. m.at \in {"trustState", "trustFinal"} /\ m.at \in Trusting /\ lock = c
    BY <1>0, <1>7 DEF TrustStateFails, TrustFinal, Trusting, Locked
  <2>2. /\ home' = home /\ lock' = Nobody /\ cmd' = [cmd EXCEPT ![c] = Resting]
        /\ Resting.at # "bind"
    BY <1>0, <1>7 DEF TrustStateFails, TrustFinal, Release, Ends, Becomes
  <2>3. CASE TrustStateFails(c)
    <3>1. home = m.st /\ (peers' = peers \/ peers' = m.peers)
      BY <1>4, <2>1, <2>3 DEF AsHolder, TrustStateFails, WritePeers
    <3>2. peers' \subseteq Visible(home')
      BY <1>0, <1>4, <2>1, <2>2, <3>1
    <3> QED
      BY <1>0, <1>4, <2>1, <2>2, <3>2, NobodyElse, HolderStep
  <2>4. CASE TrustFinal(c)
    <3>1. home = WithMate(m, Mate(m)) /\ peers' = FinalPeers(m)
      BY <1>4, <2>1, <2>4 DEF AsHolder, TrustFinal, WritePeers
    <3>2. peers' \subseteq Visible(home')
      BY <1>4, <2>1, <2>2, <3>1
    <3> QED
      BY <1>0, <1>4, <2>1, <2>2, <3>2, NobodyElse, HolderStep
  <2> QED
    BY <1>7, <2>3, <2>4
<1> QED
  BY <1>1, <1>2, <1>3, <1>5, <1>6, <1>7

\* discover.
LEMMA DiscoverStepShown ==
    ASSUME TrustTypes, LockInv, BindAlone = TRUE, NEW c \in Commands,
           \/ DiscoverBegin(c) \/ DiscoverLock(c) \/ DiscoverState(c) \/ DiscoverPeers(c)
           \/ DiscoverEnds(c)
           \/ \E n \in Names, a \in Addresses : DiscoverFound(c, n, a)
    PROVE  LockInv'
<1> DEFINE m == cmd[c]
<1>0. /\ c # Nobody /\ (m = Resting \/ Remembers(m)) /\ Resting.at = "rest"
      /\ (lock = c <=> m.at \in Locked) /\ (lock = c => AsHolder(m, home, peers))
      /\ peers \subseteq Visible(home)
  BY NobodyElse DEF TrustTypes, LockInv, Resting, NoHiddenPeer
<1>1. ASSUME DiscoverBegin(c) PROVE LockInv'
  BY <1>1, BeginQuiet DEF DiscoverBegin, Unlocked
<1>2. ASSUME NEW n \in Names, NEW a \in Addresses, DiscoverFound(c, n, a) PROVE LockInv'
  <2> DEFINE new == [m EXCEPT !.at = "discoverLock", !.name = n, !.address = a, !.verified = a]
  <2>1. m.at = "discover" /\ m # Resting /\ Remembers(m) /\ lock # c
        /\ UNCHANGED <<home, peers, lock>>
    BY <1>0, <1>2 DEF DiscoverFound, Locked
  <2>2. new.at = "discoverLock"
    BY <2>1 DEF Remembers, Memories
  <2>3. cmd' = [cmd EXCEPT ![c] = new]
    BY <1>2 DEF DiscoverFound, Becomes
  <2> HIDE DEF new
  <2> QED
    BY <2>1, <2>2, <2>3, QuietStep
<1>3. ASSUME DiscoverLock(c) PROVE LockInv'
  BY <1>3, LockQuiet DEF DiscoverLock
<1>4. ASSUME m.at \in {"discoverState", "discoverPeers"}, lock = c
      PROVE  /\ m \in Memories /\ m # Resting /\ AsHolder(m, home, peers)
             /\ m.peers \subseteq Visible(m.st)
             /\ m.peers \cup {m.address} \subseteq Visible(WithMate(m, Mate(m)))
  <2>1. Remembers(m) /\ m \in Memories /\ m # Resting /\ AsHolder(m, home, peers)
    BY <1>0, <1>4 DEF Remembers
  <2>2. m.peers \subseteq Visible(m.st) /\ m.at \in Discovering
    BY <1>4, <2>1 DEF AsHolder, Discovering
  <2> QED
    BY <2>1, <2>2, ShownFacts
<1>5. ASSUME DiscoverState(c) PROVE LockInv'
  <2> DEFINE new == [m EXCEPT !.at = "discoverPeers"]
  <2>1. m.at = "discoverState" /\ lock = c
    BY <1>0, <1>5 DEF DiscoverState, Locked
  <2>2. /\ cmd' = [cmd EXCEPT ![c] = new] /\ home' = WithMate(m, Mate(m))
        /\ lock' = lock /\ peers' = peers
    BY <1>5 DEF DiscoverState, Goes
  <2>3. new.at = "discoverPeers" /\ new.st = m.st /\ new.peers = m.peers
        /\ new.address = m.address /\ new.name = m.name /\ new.verified = m.verified
    BY <1>4, <2>1 DEF Memories
  <2>4. WithMate(new, Mate(new)) = WithMate(m, Mate(m))
    BY <2>3 DEF WithMate, Mate
  <2> HIDE DEF new
  <2>5. AsHolder(new, home', peers')
    BY <1>4, <2>1, <2>2, <2>3, <2>4 DEF AsHolder
  <2>6. peers' \subseteq Visible(home')
    <3>1. home = m.st
      BY <1>4, <2>1 DEF AsHolder
    <3>2. Remembers(m) /\ m.at \in Discovering
      BY <1>0, <2>1 DEF Discovering
    <3>3. \A n \in DOMAIN m.st.mates :
              /\ n \in DOMAIN WithMate(m, Mate(m)).mates
              /\ WithMate(m, Mate(m)).mates[n].address = m.st.mates[n].address
      <4>1. m.st \in Homes /\ m.name \in Names
        BY <3>2 DEF Remembers, Memories
      <4>2. Mate(m) \in Verified /\ Mate(m).address = m.address
        BY <3>2, MateFacts
      <4> QED
        BY <3>2, <4>1, <4>2, WithMateFacts DEF Remembers
    <3> QED
      BY <1>0, <2>2, <3>1, <3>3 DEF Visible
  <2>7. \A d \in Commands \ {c} : lock' # d
    BY <2>1, <2>2
  <2> QED
    BY <1>4, <2>1, <2>2, <2>3, <2>5, <2>6, <2>7, HolderStep
<1>6. ASSUME DiscoverPeers(c) PROVE LockInv'
  <2> DEFINE more == m.peers \cup {m.address}
             new == [m EXCEPT !.at = "discover", !.peers = more, !.st = WithMate(m, Mate(m))]
  <2>1. m.at = "discoverPeers" /\ lock = c
    BY <1>0, <1>6 DEF DiscoverPeers, Locked
  <2>2. new.at = "discover"
    BY <1>4, <2>1 DEF Memories
  <2>3. cmd' = [cmd EXCEPT ![c] = new] /\ home' = home /\ lock' = Nobody /\ peers' = more
    BY <1>6 DEF DiscoverPeers, WritePeers, Becomes
  <2>4. peers' \subseteq Visible(home')
    BY <1>4, <2>1, <2>3 DEF AsHolder
  <2> HIDE DEF new, more
  <2> QED
    BY <1>0, <1>4, <2>1, <2>2, <2>3, <2>4, NobodyElse, HolderStep
<1>7. ASSUME DiscoverEnds(c) PROVE LockInv'
  <2>1. lock # c /\ m # Resting /\ Ends(c) /\ UNCHANGED <<home, peers, lock>>
    BY <1>0, <1>7 DEF DiscoverEnds, Locked
  <2> QED
    BY <2>1, EndQuiet
<1> QED
  BY <1>1, <1>2, <1>3, <1>5, <1>6, <1>7


\* The other writers, raven-bind alone among them.
LEMMA ChangeStepShown ==
    ASSUME TrustTypes, LockInv, BindAlone = TRUE, NEW c \in Commands,
           \/ \E n \in Names : MergeBegin(c, n)
           \/ ModelBegin(c) \/ InitBegin(c) \/ ChangeRead(c) \/ ChangeWrite(c)
           \/ BindBegin(c) \/ BindWrite(c) \/ StartBegin(c) \/ StartWrite(c)
           \/ Killed(c)
    PROVE  LockInv'
<1> DEFINE m == cmd[c]
<1>0. /\ c # Nobody /\ (m = Resting \/ Remembers(m)) /\ Resting.at = "rest"
      /\ (lock = c <=> m.at \in Locked) /\ (lock = c => AsHolder(m, home, peers))
      /\ peers \subseteq Visible(home)
  BY NobodyElse DEF TrustTypes, LockInv, Resting, NoHiddenPeer
<1>1. ASSUME NEW n \in Names, MergeBegin(c, n) PROVE LockInv'
  BY <1>1, BeginQuiet DEF MergeBegin, Unlocked
<1>2. ASSUME ModelBegin(c) \/ InitBegin(c) \/ BindBegin(c) \/ StartBegin(c) PROVE LockInv'
  BY <1>2, BeginQuiet DEF ModelBegin, InitBegin, BindBegin, StartBegin, Unlocked
<1>3. ASSUME ChangeRead(c) PROVE LockInv'
  <2>1. m.at \in {"merge", "model", "init"} /\ m # Resting /\ lock = Nobody /\ lock # c
        /\ home' = home /\ peers' \subseteq peers
    BY <1>0, <1>3 DEF ChangeRead, Locked, WritePeers
  <2>2. CASE MayChange(m)
    <3> DEFINE new == [m EXCEPT !.at = Writing[@], !.st = home]
    <3>1. cmd' = [cmd EXCEPT ![c] = new] /\ lock' = c
      BY <1>3, <2>2 DEF ChangeRead, Becomes
    <3>2. m \in Memories
      BY <1>0, <2>1 DEF Remembers
    <3>3. new.at \in {"mergeWrite", "modelWrite", "initWrite"} /\ new.st = home
      BY <2>1, <3>2 DEF Memories, Writing
    <3> HIDE DEF new
    <3>4. AsHolder(new, home', peers')
      BY <2>1, <3>3 DEF AsHolder
    <3> QED
      BY <2>1, <3>1, <3>3, <3>4, QuietStep
  <2>3. CASE ~ MayChange(m)
    <3>1. Ends(c) /\ lock' = lock
      BY <1>3, <2>3 DEF ChangeRead
    <3> QED
      BY <2>1, <3>1, EndQuiet
  <2> QED
    BY <2>2, <2>3
<1>4. ASSUME ChangeWrite(c) PROVE LockInv'
  <2>1. m.at \in {"mergeWrite", "modelWrite", "initWrite"} /\ lock = c /\ m # Resting
    BY <1>0, <1>4 DEF ChangeWrite, Locked
  <2>2. Remembers(m) /\ home = m.st
    BY <1>0, <2>1 DEF AsHolder
  <2>3. Visible(home') = Visible(home)
    BY <1>4, <2>1, <2>2, ChangedFacts DEF ChangeWrite
  <2>4. cmd' = [cmd EXCEPT ![c] = Resting] /\ lock' = Nobody /\ peers' = peers
    BY <1>4 DEF ChangeWrite, Release, Ends, Becomes
  <2> QED
    BY <1>0, <2>1, <2>3, <2>4, NobodyElse, HolderStep
<1>5. ASSUME BindWrite(c) PROVE LockInv'
  <2>1. m.at = "bind" /\ m # Resting
    BY <1>0, <1>5 DEF BindWrite
  <2>2. m.st = home /\ \A d \in Commands \ {c} : cmd[d] = Resting
    BY <2>1 DEF LockInv
  <2>3. Visible(home') = Visible(home)
    BY <1>0, <1>5, <2>1, <2>2, ChangedFacts DEF BindWrite
  <2>4. cmd' = [cmd EXCEPT ![c] = Resting] /\ peers' = peers /\ lock' = lock
    BY <1>5 DEF BindWrite, Ends, Becomes
  <2>5. \A d \in Commands : lock # d
    BY <1>0, <2>1, <2>2 DEF TrustTypes, Locked
  <2> QED
    BY <1>0, <2>1, <2>3, <2>4, <2>5, HolderStep
<1>6. ASSUME StartWrite(c) PROVE LockInv'
  <2>1. m.at = "start" /\ m # Resting /\ lock # c
    BY <1>0, <1>6 DEF StartWrite, Locked
  <2>2. Ends(c) /\ UNCHANGED <<home, lock>> /\ peers' = {}
    BY <1>6 DEF StartWrite, WritePeers
  <2> QED
    BY <2>1, <2>2, EndQuiet
<1>7. ASSUME Killed(c) PROVE LockInv'
  <2>1. m # Resting /\ Ends(c) /\ UNCHANGED <<home, peers>>
        /\ lock' = IF lock = c THEN Nobody ELSE lock
    BY <1>7 DEF Killed
  <2> QED
    BY <1>0, <2>1, EndQuiet
<1> QED
  BY <1>1, <1>2, <1>3, <1>4, <1>5, <1>6, <1>7

LEMMA TrustInit0 ==
    ASSUME TrustInit
    PROVE  TrustTypes /\ LockInv
<1>1. home.mates = <<>> /\ home.settings \subseteq Settings
  BY DEF TrustInit, Settings
<1>2. home \in Homes
  <2> DEFINE M == UNION {[D -> Verified] : D \in SUBSET Names}
  <2>1. <<>> \in [{} -> Verified] /\ {} \in SUBSET Names
    OBVIOUS
  <2>2. <<>> \in M
    BY <2>1
  <2>3. {} \in SUBSET Settings /\ {"name"} \in SUBSET Settings
    BY DEF Settings
  <2>4. Homes = [mates : M, settings : SUBSET Settings]
    BY DEF Homes
  <2> HIDE DEF M
  <2>5. CASE home = [mates |-> <<>>, settings |-> {}]
    BY <2>2, <2>3, <2>4, <2>5
  <2>6. CASE home = [mates |-> <<>>, settings |-> {"name"}]
    BY <2>2, <2>3, <2>4, <2>6
  <2> QED
    BY <2>5, <2>6 DEF TrustInit
<1>3. \A c \in Commands : cmd[c] = Resting /\ cmd[c].at = "rest" /\ lock # c
  BY NobodyElse DEF TrustInit, Resting
<1>4. TrustTypes
  BY <1>2, <1>3 DEF TrustInit, TrustTypes, Locked
<1>5. LockInv
  BY <1>3 DEF TrustInit, LockInv, NoHiddenPeer
<1> QED
  BY <1>4, <1>5

\* Both files keep their shape, and the lock one holder that is at work.
THEOREM TrustFilesTyped ==
    TrustSpec => []TrustTypeOK
<1>1. TrustInit => TrustTypes
  BY TrustInit0
<1>2. TrustTypes /\ [TrustNext]_trustVars => TrustTypes'
  BY TrustTypesKept
<1>3. TrustTypes => TrustTypeOK
  <2> SUFFICES ASSUME TrustTypes PROVE TrustTypeOK
    OBVIOUS
  <2>1. home \in Homes
    BY DEF TrustTypes
  <2>2. /\ DOMAIN home.mates \subseteq Names
        /\ \A n \in DOMAIN home.mates : home.mates[n] \in Mates
        /\ home.settings \subseteq Settings
    BY <2>1, HomeParts
  <2>3. \A c \in Commands : lock = c => cmd[c] # Resting
    BY DEF TrustTypes, Resting, Locked
  <2> QED
    BY <2>2, <2>3 DEF TrustTypes, TrustTypeOK
<1> QED
  BY <1>1, <1>2, <1>3, PTL DEF TrustSpec

\* A saved url or mailbox was verified against the saved identity, also when
\* raven-bind writes back an old list and whatever other commands do meanwhile.
THEOREM EndpointsStayVerified ==
    TrustSpec => []EndpointsVerified
<1>1. TrustInit => TrustTypes
  BY TrustInit0
<1>2. TrustTypes /\ [TrustNext]_trustVars => TrustTypes'
  BY TrustTypesKept
<1>3. TrustTypes => EndpointsVerified
  <2> SUFFICES ASSUME TrustTypes PROVE EndpointsVerified
    OBVIOUS
  <2>1. home \in Homes
    BY DEF TrustTypes
  <2> QED
    BY <2>1, HomeParts DEF EndpointsVerified
<1> QED
  BY <1>1, <1>2, <1>3, PTL DEF TrustSpec

\* Whoever peers.json lets in is a teammate that state.json shows, provided that
\* raven-bind, which takes no lock, is not run beside another command.
THEOREM PeersAreShown ==
    ASSUME BindAlone = TRUE
    PROVE  TrustSpec => []NoHiddenPeer
<1> DEFINE Inv == TrustTypes /\ LockInv
<1>1. TrustInit => Inv
  BY TrustInit0
<1>2. Inv /\ [TrustNext]_trustVars => Inv'
  <2> SUFFICES ASSUME Inv, [TrustNext]_trustVars PROVE Inv'
    OBVIOUS
  <2>1. TrustTypes'
    BY TrustTypesKept
  <2>2. ASSUME NEW c \in Commands,
               \/ \E n \in Names, a \in Addresses : TrustBegin(c, n, a) \/ DiscoverFound(c, n, a)
               \/ \E url \in BOOLEAN : TrustProbe(c, url)
               \/ TrustLock(c) \/ TrustSafe(c) \/ TrustState(c) \/ TrustStateFails(c)
               \/ TrustFinal(c) \/ DiscoverBegin(c) \/ DiscoverLock(c) \/ DiscoverState(c)
               \/ DiscoverPeers(c) \/ DiscoverEnds(c)
               \/ \E n \in Names : MergeBegin(c, n)
               \/ ModelBegin(c) \/ InitBegin(c) \/ ChangeRead(c) \/ ChangeWrite(c)
               \/ BindBegin(c) \/ BindWrite(c) \/ StartBegin(c) \/ StartWrite(c)
               \/ Killed(c)
        PROVE  LockInv'
    BY <2>2, TrustStepShown, DiscoverStepShown, ChangeStepShown
  <2>3. ASSUME UNCHANGED trustVars PROVE LockInv'
    <3>1. home' = home /\ peers' = peers /\ lock' = lock /\ cmd' = cmd
      BY <2>3 DEF trustVars
    <3>2. /\ peers' \subseteq Visible(home')
          /\ \A c \in Commands : lock' = c => AsHolder(cmd'[c], home', peers')
          /\ \A c \in Commands : cmd'[c].at = "bind" =>
                cmd'[c].st = home' /\ \A d \in Commands \ {c} : cmd'[d] = Resting
      BY <3>1 DEF LockInv, NoHiddenPeer
    <3> QED
      BY <3>2 DEF LockInv, NoHiddenPeer, AsHolder, WithMate, Mate, SafePeers, Replaced, Visible
  <2> QED
    BY <2>1, <2>2, <2>3 DEF TrustNext
<1>3. Inv => NoHiddenPeer
  BY DEF LockInv
<1> QED
  BY <1>1, <1>2, <1>3, PTL DEF TrustSpec

-----------------------------------------------------------------------------
\* Delivery: a teammate has nothing of the attempt until its ladder ends, and what
\* was told when it ended fits what it then had.  What earlier attempts delivered
\* is at most what their reports left in doubt.
DeliveryFits(r, g, t, s) ==
    /\ r \in Rungs /\ g \in {0, 1} /\ t \in Reports /\ s \subseteq Answers
    /\ r # "end" => t = "" /\ g = 0
    /\ t \in {"answer", "queued"} => g = 1
    /\ t \in Undelivered => g = 0
    /\ t = "answer" => s # {}
    /\ \A a \in s : a.genuine
    /\ \A a, b \in s : a.signature = b.signature => a = b

PastFits ==
    /\ earlier \in [Teammates -> Nat] /\ doubts \in [Teammates -> Nat]
    /\ \A m \in Teammates : earlier[m] <= doubts[m]

DeliveryInv ==
    /\ rung \in [Teammates -> Rungs] /\ got \in [Teammates -> {0, 1}]
    /\ told \in [Teammates -> Reports] /\ DOMAIN shown = Teammates
    /\ exited \in BOOLEAN /\ tries \in 0 .. MaxTries
    /\ \A m \in Teammates : DeliveryFits(rung[m], got[m], told[m], shown[m])
    /\ PastFits

\* A step concerns one teammate.
LEMMA OneTeammate ==
    ASSUME DeliveryInv, NEW m \in Teammates,
           rung' \in [Teammates -> Rungs], got' \in [Teammates -> {0, 1}],
           told' \in [Teammates -> Reports], DOMAIN shown' = Teammates,
           exited' \in BOOLEAN, tries' \in 0 .. MaxTries,
           \A n \in Teammates \ {m} : /\ rung'[n] = rung[n] /\ got'[n] = got[n]
                                      /\ told'[n] = told[n] /\ shown'[n] = shown[n],
           DeliveryFits(rung'[m], got'[m], told'[m], shown'[m]),
           PastFits'
    PROVE  DeliveryInv'
<1>1. \A n \in Teammates : DeliveryFits(rung'[n], got'[n], told'[n], shown'[n])
  BY DEF DeliveryInv
<1> QED
  BY <1>1 DEF DeliveryInv, DeliveryFits

\* Going on to the next rung.
LEMMA Climbing ==
    ASSUME DeliveryInv, NEW m \in Teammates, rung[m] # "end",
           NEW r \in Rungs \ {"end"}, Climbs(m, r),
           UNCHANGED <<exited, got, told, shown, pastAttempts, tries>>
    PROVE  DeliveryInv'
<1>1. rung' = [rung EXCEPT ![m] = r]
  BY DEF Climbs
<1>2. /\ rung' \in [Teammates -> Rungs] /\ rung'[m] = r
      /\ \A n \in Teammates \ {m} : rung'[n] = rung[n]
  BY <1>1 DEF DeliveryInv
<1>3. DeliveryFits(rung[m], got[m], told[m], shown[m])
  BY DEF DeliveryInv
<1>4. DeliveryFits(rung'[m], got'[m], told'[m], shown'[m])
  BY <1>2, <1>3 DEF DeliveryFits
<1>5. /\ got' \in [Teammates -> {0, 1}] /\ told' \in [Teammates -> Reports]
      /\ DOMAIN shown' = Teammates /\ exited' \in BOOLEAN /\ tries' \in 0 .. MaxTries
      /\ \A n \in Teammates : got'[n] = got[n] /\ told'[n] = told[n] /\ shown'[n] = shown[n]
  BY DEF DeliveryInv
<1>6. PastFits'
  BY DEF DeliveryInv, PastFits, pastAttempts
<1> QED
  BY <1>2, <1>4, <1>5, <1>6, OneTeammate

\* Telling ends the ladder.
LEMMA Telling ==
    ASSUME DeliveryInv, NEW m \in Teammates, rung[m] # "end",
           NEW t \in Reports, Tells(m, t), tries' = tries, UNCHANGED pastAttempts,
           got' = got \/ Arrives(m),
           shown' = shown \/ \E new : shown' = [shown EXCEPT ![m] = new],
           DeliveryFits("end", got'[m], t, shown'[m])
    PROVE  DeliveryInv'
<1>1. rung' = [rung EXCEPT ![m] = "end"] /\ told' = [told EXCEPT ![m] = t]
      /\ exited' \in BOOLEAN
  BY DEF Tells, Climbs
<1>2. /\ rung' \in [Teammates -> Rungs] /\ rung'[m] = "end"
      /\ told' \in [Teammates -> Reports] /\ told'[m] = t
      /\ \A n \in Teammates \ {m} : rung'[n] = rung[n] /\ told'[n] = told[n]
  BY <1>1 DEF DeliveryInv, Rungs
<1>3. got \in [Teammates -> {0, 1}] /\ got[m] = 0
  BY DEF DeliveryInv, DeliveryFits
<1>4. got' \in [Teammates -> {0, 1}] /\ \A n \in Teammates \ {m} : got'[n] = got[n]
  BY <1>3 DEF Arrives
<1>5. DOMAIN shown' = Teammates /\ \A n \in Teammates \ {m} : shown'[n] = shown[n]
  BY DEF DeliveryInv
<1>6. DeliveryFits(rung'[m], got'[m], told'[m], shown'[m])
  BY <1>2
<1>7. tries' \in 0 .. MaxTries
  BY DEF DeliveryInv
<1>8. PastFits'
  BY DEF DeliveryInv, PastFits, pastAttempts
<1> QED
  BY <1>1, <1>2, <1>4, <1>5, <1>6, <1>7, <1>8, OneTeammate

\* What a teammate has when nothing of the task has arrived, or it has.
LEMMA Arriving ==
    ASSUME DeliveryInv, NEW m \in Teammates, rung[m] # "end"
    PROVE  /\ got[m] = 0 /\ told[m] = "" /\ DeliveryFits(rung[m], 0, "", shown[m])
           /\ Arrives(m) => got'[m] = 1
           /\ got' = got => got'[m] = 0
<1>1. got \in [Teammates -> {0, 1}] /\ DeliveryFits(rung[m], got[m], told[m], shown[m])
  BY DEF DeliveryInv
<1>2. got[m] = 0 /\ told[m] = ""
  BY <1>1 DEF DeliveryFits
<1>3. DeliveryFits(rung[m], 0, "", shown[m])
  BY <1>1, <1>2 DEF DeliveryFits
<1>4. ASSUME Arrives(m) PROVE got'[m] = 1
  <2>1. got' = [got EXCEPT ![m] = got[m] + 1] /\ m \in DOMAIN got
    BY <1>1, <1>4 DEF Arrives
  <2>2. got'[m] = got[m] + 1
    BY <2>1
  <2>3. got[m] = 0
    BY <1>2
  <2> QED
    BY <2>2, <2>3
<1>5. got' = got => got'[m] = 0
  BY <1>2
<1> QED
  BY <1>2, <1>3, <1>4, <1>5

\* The artifacts that are shown are genuine and each signature is there once.
LEMMA CollectFacts ==
    ASSUME NEW arts \in SeqOf(Answers, 2), Collect(arts).ok
    PROVE  /\ Collect(arts).texts # {} /\ Collect(arts).texts \subseteq Answers
           /\ \A a \in Collect(arts).texts : a.genuine
           /\ \A a, b \in Collect(arts).texts : a.signature = b.signature => a = b
           /\ \E i \in DOMAIN arts : arts[i].genuine
<1> DEFINE T == {arts[i] : i \in Firsts(arts)}
<1>1. PICK n \in 0 .. 2 : arts \in [1 .. n -> Answers]
  BY DEF SeqOf
<1>2. Collect(arts).texts = T /\ T # {} /\ \A a \in T : a.genuine
  BY DEF Collect
<1>3. Firsts(arts) \subseteq 1 .. n /\ T \subseteq Answers
  BY <1>1 DEF Firsts
<1>4. ASSUME NEW i \in Firsts(arts), NEW j \in Firsts(arts),
             arts[i].signature = arts[j].signature
      PROVE  i = j
  <2>1. i \in 1 .. n /\ j \in 1 .. n
    BY <1>3
  <2>2. ~(i < j) /\ ~(j < i)
    BY <1>1, <1>4, <2>1 DEF Firsts
  <2> QED
    BY <2>1, <2>2
<1>5. \E i \in DOMAIN arts : arts[i].genuine
  BY <1>1, <1>2, <1>3
<1> QED
  BY <1>2, <1>3, <1>4, <1>5

\* The steps that only go on, or only tell.
LEMMA LadderSteps ==
    ASSUME DeliveryInv, NEW m \in Teammates,
           DeliveryStart(m) \/ DeliveryProbe(m) \/ DeliveryCard(m)
    PROVE  DeliveryInv'
<1>0. AfterDirect(m) \in Rungs \ {"end"}
  BY DEF AfterDirect, Rungs
<1>1. ASSUME DeliveryStart(m) PROVE DeliveryInv'
  <2> DEFINE next == IF options.kind = "do" THEN "card"
                     ELSE IF ~options.relay /\ "url" \in known[m] THEN "probe" ELSE AfterDirect(m)
  <2>1. rung[m] = "wait" /\ UNCHANGED <<exited, got, told, shown, pastAttempts, tries>>
    BY <1>1 DEF DeliveryStart
  <2>2. next \in Rungs \ {"end"}
    BY <1>0 DEF Rungs
  <2>3. Climbs(m, next)
    BY <1>1 DEF DeliveryStart, Climbs
  <2> HIDE DEF next
  <2> QED
    BY <2>1, <2>2, <2>3, Climbing
<1>2. ASSUME DeliveryProbe(m) PROVE DeliveryInv'
  <2>1. rung[m] # "end" /\ UNCHANGED <<got, shown, pastAttempts, tries>>
    BY <1>2 DEF DeliveryProbe
  <2>2. ASSUME NEW r \in Rungs \ {"end"}, Climbs(m, r), UNCHANGED <<told, exited>>
        PROVE  DeliveryInv'
    BY <2>1, <2>2, Climbing
  <2>3. ASSUME Tells(m, "notsent") PROVE DeliveryInv'
    <3>1. DeliveryFits("end", got'[m], "notsent", shown'[m])
      BY <2>1, Arriving DEF DeliveryFits, Rungs, Reports, Undelivered
    <3> QED
      BY <2>1, <2>3, <3>1, Telling DEF Reports
  <2>4. "card" \in Rungs \ {"end"}
    BY DEF Rungs
  <2> QED
    BY <1>0, <1>2, <2>2, <2>3, <2>4 DEF DeliveryProbe
<1>3. ASSUME DeliveryCard(m) PROVE DeliveryInv'
  <2>1. rung[m] # "end" /\ UNCHANGED <<got, shown, pastAttempts, tries>>
    BY <1>3 DEF DeliveryCard
  <2>2. ASSUME NEW why \in {"rejected", "failed", "refused", "timeout"}, Tells(m, Direct(why))
        PROVE  DeliveryInv'
    <3> DEFINE t == Direct(why)
    <3>1. t \in {"rejected", "failed", "refused", "timeout", "ambiguous"}
      BY DEF Direct
    <3> HIDE DEF t
    <3>2. t \in Reports /\ DeliveryFits("end", got'[m], t, shown'[m])
      BY <2>1, <3>1, Arriving DEF DeliveryFits, Rungs, Reports, Undelivered
    <3>3. Tells(m, t)
      BY <2>2 DEF t
    <3> QED
      BY <2>1, <3>2, <3>3, Telling
  <2>3. ASSUME Climbs(m, "send"), UNCHANGED <<told, exited>> PROVE DeliveryInv'
    <3>1. "send" \in Rungs \ {"end"}
      BY DEF Rungs
    <3> QED
      BY <2>1, <2>3, <3>1, Climbing
  <2> QED
    BY <1>3, <2>2, <2>3 DEF DeliveryCard, TellsDirect
<1> QED
  BY <1>1, <1>2, <1>3

\* The request, whose answer may be anything.
LEMMA SendStep ==
    ASSUME DeliveryInv, NEW m \in Teammates, DeliverySend(m)
    PROVE  DeliveryInv'
<1>1. rung[m] = "send" /\ UNCHANGED <<options, known, pastAttempts, tries>>
  BY DEF DeliverySend
<1>2. /\ got[m] = 0 /\ DeliveryFits(rung[m], 0, "", shown[m])
      /\ (Arrives(m) => got'[m] = 1) /\ (got' = got => got'[m] = 0)
  BY <1>1, Arriving
<1>3. ASSUME NEW why \in {"failed", "refused"}, TellsDirect(m, why), UNCHANGED <<got, shown>>
      PROVE  DeliveryInv'
  <2> DEFINE t == Direct(why)
  <2>1. t \in {"failed", "refused", "ambiguous"}
    BY DEF Direct
  <2>2. Tells(m, t)
    BY <1>3 DEF TellsDirect
  <2> HIDE DEF t
  <2>3. t \in Reports /\ DeliveryFits("end", got'[m], t, shown'[m])
    BY <1>2, <1>3, <2>1 DEF DeliveryFits, Rungs, Reports, Undelivered
  <2> QED
    BY <1>1, <1>3, <2>2, <2>3, Telling
<1>4. ASSUME NEW why \in {"timeout", "rejected"}, TellsDirect(m, why), UNCHANGED shown,
             Arrives(m) \/ UNCHANGED got
      PROVE  DeliveryInv'
  <2> DEFINE t == Direct(why)
  <2>1. t \in {"timeout", "rejected", "ambiguous"}
    BY DEF Direct
  <2>2. Tells(m, t)
    BY <1>4 DEF TellsDirect
  <2> HIDE DEF t
  <2>3. t \in Reports /\ DeliveryFits("end", got'[m], t, shown'[m])
    BY <1>2, <1>4, <2>1 DEF DeliveryFits, Rungs, Reports, Undelivered
  <2> QED
    BY <1>1, <1>4, <2>2, <2>3, Telling
<1>5. ASSUME NEW arts \in SeqOf(Answers, 2), Collect(arts).ok, Tells(m, "answer"),
             Arrives(m) \/ ((\A i \in DOMAIN arts : ~arts[i].genuine) /\ UNCHANGED got),
             shown' = [shown EXCEPT ![m] = Collect(arts).texts]
      PROVE  DeliveryInv'
  <2> DEFINE T == Collect(arts).texts
  <2>1. /\ T # {} /\ T \subseteq Answers /\ \A a \in T : a.genuine
        /\ \A a, b \in T : a.signature = b.signature => a = b
        /\ \E i \in DOMAIN arts : arts[i].genuine
    BY <1>5, CollectFacts
  <2>2. shown' = [shown EXCEPT ![m] = T]
    BY <1>5
  <2> HIDE DEF T
  <2>3. Arrives(m) /\ got'[m] = 1
    BY <1>2, <1>5, <2>1
  <2>4. shown'[m] = T
    BY <2>2 DEF DeliveryInv
  <2>5. "answer" \in Reports /\ DeliveryFits("end", got'[m], "answer", shown'[m])
    BY <2>1, <2>3, <2>4 DEF DeliveryFits, Rungs, Reports, Undelivered
  <2> QED
    BY <1>1, <1>5, <2>2, <2>3, <2>5, Telling
<1>6. ASSUME NEW arts \in SeqOf(Answers, 2),
             Arrives(m) \/ ((\A i \in DOMAIN arts : ~arts[i].genuine) /\ UNCHANGED got),
             IF Collect(arts).ok
             THEN shown' = [shown EXCEPT ![m] = Collect(arts).texts] /\ Tells(m, "answer")
             ELSE TellsDirect(m, "rejected") /\ UNCHANGED shown
      PROVE  DeliveryInv'
  BY <1>4, <1>5, <1>6
<1>7. \/ \E why \in {"failed", "refused"} : TellsDirect(m, why) /\ UNCHANGED <<got, shown>>
      \/ (Arrives(m) \/ UNCHANGED got) /\ TellsDirect(m, "timeout") /\ UNCHANGED shown
      \/ \E arts \in SeqOf(Answers, 2) :
            /\ Arrives(m) \/ ((\A i \in DOMAIN arts : ~arts[i].genuine) /\ UNCHANGED got)
            /\ IF Collect(arts).ok
               THEN shown' = [shown EXCEPT ![m] = Collect(arts).texts] /\ Tells(m, "answer")
               ELSE TellsDirect(m, "rejected") /\ UNCHANGED shown
  BY DEF DeliverySend
<1> QED
  BY <1>3, <1>4, <1>6, <1>7

\* The mailbox and the Git relay, and a user who tries again.
LEMMA FallbackSteps ==
    ASSUME DeliveryInv, NEW m \in Teammates,
           DeliveryMailbox(m) \/ DeliveryGit(m) \/ DeliveryRetry(m)
    PROVE  DeliveryInv'
<1>1. ASSUME NEW t \in {"queued", "ambiguous", "notqueued", "notsent"}, rung[m] # "end",
             UNCHANGED <<shown, pastAttempts, tries>>, Tells(m, t),
             t = "queued" => Arrives(m), t = "notsent" => UNCHANGED got,
             Arrives(m) \/ UNCHANGED got
      PROVE  DeliveryInv'
  <2>1. /\ got[m] = 0 /\ DeliveryFits(rung[m], 0, "", shown[m])
        /\ (Arrives(m) => got'[m] = 1) /\ (got' = got => got'[m] = 0)
    BY <1>1, Arriving
  <2>2. t \in Reports /\ DeliveryFits("end", got'[m], t, shown'[m])
    BY <1>1, <2>1 DEF DeliveryFits, Rungs, Reports, Undelivered
  <2> QED
    BY <1>1, <2>2, Telling
<1>2. ASSUME DeliveryMailbox(m) PROVE DeliveryInv'
  <2>1. rung[m] # "end" /\ UNCHANGED <<shown, pastAttempts, tries>>
    BY <1>2 DEF DeliveryMailbox
  <2>2. \/ Arrives(m) /\ Tells(m, "queued")
        \/ (Arrives(m) \/ UNCHANGED got) /\ Tells(m, "ambiguous")
    BY <1>2 DEF DeliveryMailbox
  <2> QED
    BY <1>1, <2>1, <2>2
<1>3. ASSUME DeliveryGit(m) PROVE DeliveryInv'
  <2>1. rung[m] # "end" /\ UNCHANGED <<shown, pastAttempts, tries>>
    BY <1>3 DEF DeliveryGit
  <2>2. \/ Arrives(m) /\ Tells(m, "queued")
        \/ (Arrives(m) \/ UNCHANGED got) /\ Tells(m, "notqueued")
        \/ Tells(m, "notsent") /\ UNCHANGED got
    BY <1>3 DEF DeliveryGit
  <2> QED
    BY <1>1, <2>1, <2>2
<1>4. ASSUME DeliveryRetry(m) PROVE DeliveryInv'
  <2>1. /\ rung' = [rung EXCEPT ![m] = "wait"] /\ told' = [told EXCEPT ![m] = ""]
        /\ got' = [got EXCEPT ![m] = 0] /\ shown' = [shown EXCEPT ![m] = {}]
        /\ exited' = FALSE /\ tries < MaxTries /\ tries' = tries + 1
        /\ earlier' = [earlier EXCEPT ![m] = @ + got[m]]
        /\ doubts' = [doubts EXCEPT ![m] = @ + (IF told[m] \in Undelivered THEN 0 ELSE 1)]
    BY <1>4 DEF DeliveryRetry, Climbs
  <2>2. /\ rung' \in [Teammates -> Rungs] /\ rung'[m] = "wait"
        /\ told' \in [Teammates -> Reports] /\ told'[m] = ""
        /\ got' \in [Teammates -> {0, 1}] /\ got'[m] = 0
        /\ DOMAIN shown' = Teammates /\ shown'[m] = {}
        /\ \A n \in Teammates \ {m} : /\ rung'[n] = rung[n] /\ got'[n] = got[n]
                                      /\ told'[n] = told[n] /\ shown'[n] = shown[n]
    BY <2>1 DEF DeliveryInv, Rungs, Reports
  <2>3. DeliveryFits(rung'[m], got'[m], told'[m], shown'[m])
    BY <2>2 DEF DeliveryFits, Rungs, Reports, Undelivered
  <2>4. PastFits'
    <3> DEFINE doubt == IF told[m] \in Undelivered THEN 0 ELSE 1
    <3>1. got[m] \in {0, 1} /\ got[m] <= doubt
      <4>1. got[m] \in {0, 1} /\ (told[m] \in Undelivered => got[m] = 0)
        BY DEF DeliveryInv, DeliveryFits
      <4>2. CASE told[m] \in Undelivered
        BY <4>1, <4>2
      <4>3. CASE told[m] \notin Undelivered
        BY <4>1, <4>3
      <4> QED
        BY <4>2, <4>3
    <3>2. doubt \in {0, 1}
      OBVIOUS
    <3>3. earlier' = [earlier EXCEPT ![m] = @ + got[m]]
          /\ doubts' = [doubts EXCEPT ![m] = @ + doubt]
      BY <2>1
    <3> HIDE DEF doubt
    <3> QED
      <4>1. /\ earlier \in [Teammates -> Nat] /\ doubts \in [Teammates -> Nat]
            /\ \A n \in Teammates : earlier[n] <= doubts[n]
        BY DEF DeliveryInv, PastFits
      <4>2. earlier[m] + got[m] \in Nat /\ doubts[m] + doubt \in Nat
            /\ earlier[m] + got[m] <= doubts[m] + doubt
        BY <3>1, <3>2, <4>1
      <4>3. /\ earlier' \in [Teammates -> Nat] /\ doubts' \in [Teammates -> Nat]
            /\ earlier'[m] = earlier[m] + got[m] /\ doubts'[m] = doubts[m] + doubt
            /\ \A n \in Teammates \ {m} : earlier'[n] = earlier[n] /\ doubts'[n] = doubts[n]
        BY <3>3, <4>1, <4>2
      <4> QED
        BY <4>1, <4>2, <4>3 DEF PastFits
  <2>5. exited' \in BOOLEAN
    BY <2>1
  <2>6. tries' \in 0 .. MaxTries
    <3>1. tries \in 0 .. MaxTries
      BY DEF DeliveryInv
    <3>2. tries < MaxTries /\ tries' = tries + 1
      BY <2>1
    <3> QED
      BY <3>1, <3>2, RepeatsAfterReports
  <2> QED
    BY <2>2, <2>3, <2>4, <2>5, <2>6, OneTeammate
<1> QED
  BY <1>2, <1>3, <1>4

\* An attempt gives a teammate the task once at most over all its transports, what
\* the user is told or shown is so, and repetitions deliver again only what the
\* reports before them left in doubt.
THEOREM TasksDeliveredAsTold ==
    DeliverySpec => [](DeliveryTypeOK /\ DeliveredAsTold)
<1>1. DeliveryInit => DeliveryInv
  <2> SUFFICES ASSUME DeliveryInit PROVE DeliveryInv
    OBVIOUS
  <2>1. /\ rung = [m \in Teammates |-> "wait"] /\ got = [m \in Teammates |-> 0]
        /\ told = [m \in Teammates |-> ""] /\ shown = [m \in Teammates |-> {}]
        /\ exited = FALSE /\ tries = 0
        /\ earlier = [m \in Teammates |-> 0] /\ doubts = [m \in Teammates |-> 0]
    BY DEF DeliveryInit
  <2>2. \A m \in Teammates : DeliveryFits(rung[m], got[m], told[m], shown[m])
    BY <2>1 DEF DeliveryFits, Rungs, Reports, Undelivered
  <2>3. rung \in [Teammates -> Rungs] /\ told \in [Teammates -> Reports]
    BY <2>1 DEF Rungs, Reports
  <2>4. got \in [Teammates -> {0, 1}] /\ DOMAIN shown = Teammates
    BY <2>1
  <2>5. exited \in BOOLEAN /\ tries = 0
    BY <2>1
  <2>6. tries \in 0 .. MaxTries
    BY <2>5, RepeatsAfterReports
  <2>7. PastFits
    <3>1. /\ earlier \in [Teammates -> Nat] /\ doubts \in [Teammates -> Nat]
          /\ \A m \in Teammates : earlier[m] = 0 /\ doubts[m] = 0
      BY <2>1
    <3> QED
      BY <3>1 DEF PastFits
  <2> QED
    BY <2>2, <2>3, <2>4, <2>5, <2>6, <2>7 DEF DeliveryInv
<1>2. DeliveryInv /\ [DeliveryNext]_deliveryVars => DeliveryInv'
  <2> SUFFICES ASSUME DeliveryInv, [DeliveryNext]_deliveryVars PROVE DeliveryInv'
    OBVIOUS
  <2>1. ASSUME UNCHANGED deliveryVars PROVE DeliveryInv'
    BY <2>1 DEF deliveryVars, DeliveryInv, DeliveryFits, PastFits
  <2> QED
    BY <2>1, LadderSteps, SendStep, FallbackSteps DEF DeliveryNext
<1>3. DeliveryInv => DeliveryTypeOK /\ DeliveredAsTold
  <2> SUFFICES ASSUME DeliveryInv PROVE DeliveryTypeOK /\ DeliveredAsTold
    OBVIOUS
  <2>1. \A m \in Teammates : DeliveryFits(rung[m], got[m], told[m], shown[m])
    BY DEF DeliveryInv
  <2>2. ASSUME NEW m \in Teammates PROVE got[m] <= 1
    <3>1. got[m] \in {0, 1}
      BY <2>1 DEF DeliveryFits
    <3> QED
      BY <3>1
  <2>3. \A m \in Teammates : earlier[m] <= doubts[m]
    BY DEF DeliveryInv, PastFits
  <2>4. DeliveredAsTold
    BY <2>1, <2>2, <2>3 DEF DeliveredAsTold, DeliveryFits
  <2> QED
    BY <2>1, <2>4 DEF DeliveryInv, DeliveryTypeOK, DeliveryFits
<1> QED
  BY <1>1, <1>2, <1>3, PTL DEF DeliverySpec

-----------------------------------------------------------------------------
\* The mailbox: a task that has not expired and has no row was never run, the row
\* comes before the run, and a list of handled objects holds only such as need
\* nothing more.
NeedsNothing(o, ref, rep) == Carries[o] = Garbage \/ o \in ref \/ Carries[o] \in rep

ListSound(seen, ref, rep) ==
    \E S : seen \in Seq(S) /\ \A o \in S : NeedsNothing(o, ref, rep)

MeshInv ==
    /\ DOMAIN drain = {"at", "todo", "seen", "cursor", "again"}
    /\ valid \subseteq Tasks /\ ran \in [Tasks -> {0, 1}]
    /\ \A t \in valid : t \notin DOMAIN table => ran[t] = 0
    /\ drain.at \in {"claim", "run", "complete", "reply"} => Carries[Head(drain.todo)] \in Tasks
    /\ drain.at \in {"run", "complete"} => Carries[Head(drain.todo)] \in DOMAIN table
    /\ drain.at = "run" /\ Carries[Head(drain.todo)] \in valid => ran[Carries[Head(drain.todo)]] = 0
    /\ IsFiniteSet(DOMAIN table) /\ Cardinality(DOMAIN table) <= MaxRows
    /\ ListSound(drain.seen, refused, replyFile) /\ ListSound(seenFile, refused, replyFile)

\* What one element more or less makes of a finite set.
LEMMA OneMore ==
    ASSUME NEW S, IsFiniteSet(S), NEW e
    PROVE  /\ IsFiniteSet(S \cup {e})
           /\ Cardinality(S) \in Nat /\ Cardinality(S \cup {e}) \in Nat
           /\ Cardinality(S \cup {e}) <= Cardinality(S) + 1
           /\ e \notin S => Cardinality(S \cup {e}) = Cardinality(S) + 1
<1>1. IsFiniteSet(S \cup {e}) /\ Cardinality(S \cup {e}) =
          IF e \in S THEN Cardinality(S) ELSE Cardinality(S) + 1
  BY FS_AddElement
<1>2. Cardinality(S) \in Nat
  BY FS_CardinalityType
<1> QED
  BY <1>1, <1>2

\* The lists stay sound while more is refused and answered, when an object that
\* needs nothing more is appended, and when they are cut.
LEMMA ListGrows ==
    ASSUME NEW seen, NEW ref, NEW rep, NEW ref2, NEW rep2, ref \subseteq ref2,
           rep \subseteq rep2, ListSound(seen, ref, rep)
    PROVE  ListSound(seen, ref2, rep2)
BY DEF ListSound, NeedsNothing

LEMMA ListAppends ==
    ASSUME NEW seen, NEW ref, NEW rep, NEW o, ListSound(seen, ref, rep),
           NeedsNothing(o, ref, rep)
    PROVE  ListSound(Append(seen, o), ref, rep)
<1>1. PICK S : seen \in Seq(S) /\ \A p \in S : NeedsNothing(p, ref, rep)
  BY DEF ListSound
<1>2. seen \in Seq(S \cup {o})
  BY <1>1
<1>3. Append(seen, o) \in Seq(S \cup {o})
  BY <1>2
<1> QED
  BY <1>1, <1>3 DEF ListSound

LEMMA MinOfTwo ==
    ASSUME NEW m \in Nat, NEW n \in Nat
    PROVE  Min({m, n}) \in Nat /\ Min({m, n}) <= m /\ Min({m, n}) <= n
<1>1. \E x \in {m, n} : \A y \in {m, n} : x <= y
  OBVIOUS
<1>2. Min({m, n}) \in {m, n} /\ \A y \in {m, n} : Min({m, n}) <= y
  BY <1>1 DEF Min
<1> QED
  BY <1>2

LEMMA ListCut ==
    ASSUME NEW seen, NEW ref, NEW rep, NEW n \in Nat, n <= Len(seen),
           ListSound(seen, ref, rep)
    PROVE  ListSound([i \in 1 .. n |-> seen[Len(seen) - n + i]], ref, rep)
<1>1. PICK S : seen \in Seq(S) /\ \A p \in S : NeedsNothing(p, ref, rep)
  BY DEF ListSound
<1>2. ASSUME NEW i \in 1 .. n PROVE seen[Len(seen) - n + i] \in S
  <2>1. Len(seen) - n + i \in 1 .. Len(seen)
    BY <1>1
  <2> QED
    BY <1>1, <2>1
<1>3. [i \in 1 .. n |-> seen[Len(seen) - n + i]] \in Seq(S)
  BY <1>2
<1> QED
  BY <1>1, <1>3 DEF ListSound

LEMMA ListEmpty == ASSUME NEW ref, NEW rep PROVE ListSound(<<>>, ref, rep)
<1> DEFINE S == {}
<1>1. <<>> \in Seq(S) /\ \A o \in S : NeedsNothing(o, ref, rep)
  OBVIOUS
<1> HIDE DEF S
<1> QED
  BY <1>1 DEF ListSound

\* The worker moves between objects, the outcome table and the runs rest.
LEMMA BetweenObjects ==
    ASSUME MeshInv, drain'.at \in {"idle", "page", "object"},
           DOMAIN drain' = {"at", "todo", "seen", "cursor", "again"},
           UNCHANGED <<table, ran>>, valid' \subseteq valid,
           refused \subseteq refused', replyFile \subseteq replyFile',
           ListSound(drain'.seen, refused', replyFile'), ListSound(seenFile', refused', replyFile')
    PROVE  MeshInv'
<1>1. /\ DOMAIN drain' = {"at", "todo", "seen", "cursor", "again"}
      /\ valid' \subseteq Tasks /\ ran' \in [Tasks -> {0, 1}]
      /\ \A t \in valid' : t \notin DOMAIN table' => ran'[t] = 0
      /\ drain'.at \notin {"claim", "run", "complete", "reply"}
      /\ IsFiniteSet(DOMAIN table') /\ Cardinality(DOMAIN table') <= MaxRows
      /\ ListSound(drain'.seen, refused', replyFile') /\ ListSound(seenFile', refused', replyFile')
  BY DEF MeshInv
<1> QED
  BY <1>1 DEF MeshInv, ListSound, NeedsNothing

\* The store and the world.
LEMMA WorldSteps ==
    ASSUME MeshInv, (\E o \in Objects : MeshPut(o)) \/ WorldChanges \/ MeshFails
    PROVE  MeshInv'
<1>1. ASSUME valid' \subseteq valid,
             UNCHANGED <<seenFile, drain, table, replyFile, ran, refused>>
      PROVE  MeshInv'
  <2>1. seenFile' = seenFile /\ drain' = drain /\ table' = table /\ replyFile' = replyFile
        /\ ran' = ran /\ refused' = refused
    BY <1>1
  <2>2. /\ DOMAIN drain' = {"at", "todo", "seen", "cursor", "again"}
        /\ valid' \subseteq Tasks /\ ran' \in [Tasks -> {0, 1}]
        /\ \A t \in valid' : t \notin DOMAIN table' => ran'[t] = 0
        /\ drain'.at \in {"claim", "run", "complete", "reply"} =>
              Carries[Head(drain'.todo)] \in Tasks
        /\ drain'.at \in {"run", "complete"} => Carries[Head(drain'.todo)] \in DOMAIN table'
        /\ drain'.at = "run" /\ Carries[Head(drain'.todo)] \in valid' =>
              ran'[Carries[Head(drain'.todo)]] = 0
        /\ IsFiniteSet(DOMAIN table') /\ Cardinality(DOMAIN table') <= MaxRows
        /\ ListSound(drain'.seen, refused', replyFile')
        /\ ListSound(seenFile', refused', replyFile')
    BY <1>1, <2>1 DEF MeshInv
  <2> QED
    BY <2>2 DEF MeshInv, ListSound, NeedsNothing
<1>2. ASSUME NEW o \in Objects, MeshPut(o) PROVE MeshInv'
  BY <1>1, <1>2 DEF MeshPut
<1>3. ASSUME WorldChanges PROVE MeshInv'
  BY <1>1, <1>3 DEF WorldChanges
<1>4. ASSUME MeshFails PROVE MeshInv'
  <2>1. /\ drain' = NoDrain /\ UNCHANGED <<seenFile, table, replyFile, ran, valid, refused>>
    BY <1>4 DEF MeshFails
  <2>2. ListSound(drain'.seen, refused', replyFile') /\ ListSound(seenFile', refused', replyFile')
    BY <2>1, ListEmpty DEF MeshInv, NoDrain
  <2> QED
    BY <2>1, <2>2, BetweenObjects DEF NoDrain
<1> QED
  BY <1>2, <1>3, <1>4

\* The steps of a drain that leave the outcome table alone and begin no run.
LEMMA DrainSteps ==
    ASSUME MeshInv,
           MeshGet \/ MeshPage \/ MeshRestart \/ MeshPass \/ MeshReply \/ MeshSave
    PROVE  MeshInv'
<1>0. /\ DOMAIN drain = {"at", "todo", "seen", "cursor", "again"}
      /\ ListSound(drain.seen, refused, replyFile) /\ ListSound(seenFile, refused, replyFile)
      /\ ListSound(<<>>, refused, replyFile)
  BY ListEmpty DEF MeshInv
<1>1. ASSUME MeshGet PROVE MeshInv'
  <2>1. /\ drain' = [NoDrain EXCEPT !.at = "page", !.seen = seenFile]
        /\ UNCHANGED <<seenFile, table, replyFile, ran, valid, refused>>
    BY <1>1 DEF MeshGet
  <2>2. /\ drain'.at = "page" /\ drain'.seen = seenFile
        /\ DOMAIN drain' = {"at", "todo", "seen", "cursor", "again"}
    BY <2>1 DEF NoDrain
  <2>3. ListSound(drain'.seen, refused', replyFile') /\ ListSound(seenFile', refused', replyFile')
    BY <1>0, <2>1, <2>2
  <2> QED
    BY <2>1, <2>2, <2>3, BetweenObjects
<1>2. ASSUME UNCHANGED <<seenFile, table, replyFile, ran, valid, refused>>,
             drain' = NoDrain \/ /\ DOMAIN drain' = DOMAIN drain /\ drain'.seen = drain.seen
                                 /\ drain'.at \in {"page", "object"}
      PROVE  MeshInv'
  <2>1. /\ DOMAIN drain' = {"at", "todo", "seen", "cursor", "again"}
        /\ drain'.at \in {"idle", "page", "object"} /\ drain'.seen \in {<<>>, drain.seen}
    BY <1>0, <1>2 DEF NoDrain
  <2>2. ListSound(drain'.seen, refused', replyFile') /\ ListSound(seenFile', refused', replyFile')
    BY <1>0, <1>2, <2>1
  <2> QED
    BY <1>2, <2>1, <2>2, BetweenObjects
<1>3. ASSUME MeshPage PROVE MeshInv'
  <2>1. /\ drain.at = "page" /\ UNCHANGED <<seenFile, table, replyFile, ran, valid, refused>>
        /\ \/ drain' = NoDrain
           \/ \E objs : drain' = [drain EXCEPT !.at = "object", !.todo = objs]
           \/ \E objs, cursor : drain' = [drain EXCEPT !.todo = objs, !.cursor = cursor]
    BY <1>3 DEF MeshPage
  <2>2. drain' = NoDrain \/ (/\ DOMAIN drain' = DOMAIN drain /\ drain'.seen = drain.seen
                             /\ drain'.at \in {"page", "object"})
    BY <1>0, <2>1
  <2> QED
    BY <1>2, <2>1, <2>2
<1>4. ASSUME MeshRestart PROVE MeshInv'
  <2>1. /\ drain.at = "page" /\ UNCHANGED <<seenFile, table, replyFile, ran, valid, refused>>
        /\ \/ drain' = NoDrain
           \/ drain' = [drain EXCEPT !.todo = <<>>, !.cursor = 0, !.again = TRUE]
    BY <1>4 DEF MeshRestart
  <2>2. drain' = NoDrain \/ (/\ DOMAIN drain' = DOMAIN drain /\ drain'.seen = drain.seen
                             /\ drain'.at \in {"page", "object"})
    BY <1>0, <2>1
  <2> QED
    BY <1>2, <2>1, <2>2
<1>5. ASSUME MeshPass PROVE MeshInv'
  <2>1. drain.at = "object" /\ UNCHANGED <<seenFile, table, replyFile, ran, valid, refused>>
    BY <1>5 DEF MeshPass, DrainAt
  <2>2. CASE drain' = [drain EXCEPT !.todo = Tail(@)]
    <3>1. /\ DOMAIN drain' = DOMAIN drain /\ drain'.seen = drain.seen
          /\ drain'.at \in {"page", "object"}
      BY <1>0, <2>1, <2>2
    <3> QED
      BY <1>2, <2>1, <3>1
  <2>3. CASE Task = Garbage /\ Handled
    <3>1. /\ DOMAIN drain' = {"at", "todo", "seen", "cursor", "again"} /\ drain'.at = "object"
          /\ drain'.seen = Append(drain.seen, Head(drain.todo))
      BY <1>0, <2>3 DEF Handled
    <3>2. NeedsNothing(Head(drain.todo), refused, replyFile)
      BY <2>3 DEF Task, NeedsNothing
    <3>3. ListSound(drain'.seen, refused, replyFile)
      BY <1>0, <3>1, <3>2, ListAppends
    <3>4. ListSound(drain'.seen, refused', replyFile')
          /\ ListSound(seenFile', refused', replyFile')
      BY <1>0, <2>1, <3>3
    <3> QED
      BY <2>1, <3>1, <3>4, BetweenObjects
  <2> QED
    BY <1>5, <2>2, <2>3 DEF MeshPass
<1>6. ASSUME MeshReply PROVE MeshInv'
  <2>1. /\ replyFile' = replyFile \cup {Carries[Head(drain.todo)]} /\ Handled
        /\ UNCHANGED <<seenFile, table, ran, valid, refused>>
    BY <1>6 DEF MeshReply, Task
  <2>2. /\ DOMAIN drain' = {"at", "todo", "seen", "cursor", "again"} /\ drain'.at = "object"
        /\ drain'.seen = Append(drain.seen, Head(drain.todo))
    BY <1>0, <2>1 DEF Handled
  <2>3. NeedsNothing(Head(drain.todo), refused, replyFile')
    BY <2>1 DEF NeedsNothing
  <2>4. ListSound(drain.seen, refused, replyFile') /\ ListSound(seenFile, refused, replyFile')
    BY <1>0, <2>1, ListGrows
  <2>5. ListSound(drain'.seen, refused, replyFile')
    BY <2>2, <2>3, <2>4, ListAppends
  <2>6. ListSound(drain'.seen, refused', replyFile') /\ ListSound(seenFile', refused', replyFile')
    BY <2>1, <2>4, <2>5
  <2> QED
    BY <2>1, <2>2, <2>6, BetweenObjects
<1>7. ASSUME MeshSave PROVE MeshInv'
  <2> DEFINE n == Min({MaxSeen, Len(drain.seen)})
  <2>1. /\ seenFile' = [i \in 1 .. n |-> drain.seen[Len(drain.seen) - n + i]]
        /\ drain' = NoDrain /\ UNCHANGED <<table, replyFile, ran, valid, refused>>
    BY <1>7 DEF MeshSave
  <2>2. Len(drain.seen) \in Nat
    BY <1>0 DEF ListSound
  <2>3. n \in Nat /\ n <= Len(drain.seen)
    BY <2>2, MeshLimits, MinOfTwo
  <2> HIDE DEF n
  <2>4. ListSound([i \in 1 .. n |-> drain.seen[Len(drain.seen) - n + i]], refused, replyFile)
    BY <1>0, <2>3, ListCut
  <2>5. ListSound(drain'.seen, refused', replyFile') /\ ListSound(seenFile', refused', replyFile')
    BY <1>0, <2>1, <2>4 DEF NoDrain
  <2> QED
    BY <2>1, <2>5, BetweenObjects DEF NoDrain
<1> QED
  BY <1>1, <1>3, <1>4, <1>5, <1>6, <1>7

\* The steps of a task: no row of a valid task is given up, and only a task that
\* had none is run.
LEMMA WorkSteps ==
    ASSUME MeshInv, MeshVerify \/ MeshClaim \/ MeshRun \/ MeshComplete
    PROVE  MeshInv'
<1> DEFINE t == Carries[Head(drain.todo)]
           ToStage(stage) == drain' = [drain EXCEPT !.at = stage]
<1>0. /\ DOMAIN drain = {"at", "todo", "seen", "cursor", "again"} /\ valid \subseteq Tasks
      /\ ran \in [Tasks -> {0, 1}] /\ \A u \in valid : u \notin DOMAIN table => ran[u] = 0
      /\ ListSound(drain.seen, refused, replyFile) /\ ListSound(seenFile, refused, replyFile)
      /\ IsFiniteSet(DOMAIN table) /\ Cardinality(DOMAIN table) <= MaxRows
      /\ drain.at \in {"claim", "run", "complete", "reply"} => t \in Tasks
      /\ drain.at \in {"run", "complete"} => t \in DOMAIN table
      /\ drain.at = "run" /\ t \in valid => ran[t] = 0
  BY DEF MeshInv
<1>1. ASSUME NEW stage, ToStage(stage)
      PROVE  /\ DOMAIN drain' = {"at", "todo", "seen", "cursor", "again"}
             /\ drain'.at = stage /\ drain'.todo = drain.todo /\ drain'.seen = drain.seen
             /\ Carries[Head(drain'.todo)] = t
  BY <1>0, <1>1
<1>2. Task = t
  BY DEF Task
<1> HIDE DEF t, ToStage
<1>3. ASSUME NEW stage \in {"claim", "run", "complete", "reply"}, ToStage(stage),
             UNCHANGED <<seenFile, replyFile, refused, valid>>,
             t \in Tasks, ran' \in [Tasks -> {0, 1}],
             \A u \in valid : u \notin DOMAIN table' => ran'[u] = 0,
             stage \in {"run", "complete"} => t \in DOMAIN table',
             stage = "run" /\ t \in valid => ran'[t] = 0,
             IsFiniteSet(DOMAIN table'), Cardinality(DOMAIN table') <= MaxRows
      PROVE  MeshInv'
  <2>1. /\ DOMAIN drain' = {"at", "todo", "seen", "cursor", "again"}
        /\ drain'.at = stage /\ drain'.seen = drain.seen /\ Carries[Head(drain'.todo)] = t
    BY <1>1, <1>3
  <2>2. /\ valid' \subseteq Tasks /\ ran' \in [Tasks -> {0, 1}]
        /\ \A u \in valid' : u \notin DOMAIN table' => ran'[u] = 0
        /\ drain'.at \in {"claim", "run", "complete", "reply"} =>
              Carries[Head(drain'.todo)] \in Tasks
        /\ drain'.at \in {"run", "complete"} => Carries[Head(drain'.todo)] \in DOMAIN table'
        /\ drain'.at = "run" /\ Carries[Head(drain'.todo)] \in valid' =>
              ran'[Carries[Head(drain'.todo)]] = 0
        /\ IsFiniteSet(DOMAIN table') /\ Cardinality(DOMAIN table') <= MaxRows
    BY <1>0, <1>3, <2>1
  <2>3. ListSound(drain'.seen, refused', replyFile') /\ ListSound(seenFile', refused', replyFile')
    BY <1>0, <1>3, <2>1
  <2> QED
    BY <2>1, <2>2, <2>3 DEF MeshInv, ListSound, NeedsNothing
<1>4. ASSUME MeshVerify PROVE MeshInv'
  <2>1. UNCHANGED <<seenFile, table, replyFile, ran, valid>>
    BY <1>4 DEF MeshVerify
  <2>2. CASE t \in valid \cap admitted
    <3>1. ToStage("claim") /\ UNCHANGED refused
      BY <1>2, <1>4, <2>2 DEF MeshVerify, DrainTo, ToStage
    <3>2. t \in Tasks
      BY <1>0, <2>2
    <3> QED
      BY <1>0, <1>3, <2>1, <3>1, <3>2
  <2>3. CASE t \notin valid \cap admitted
    <3>1. Handled /\ refused' = refused \cup {Head(drain.todo)}
      BY <1>2, <1>4, <2>3 DEF MeshVerify
    <3>2. /\ DOMAIN drain' = {"at", "todo", "seen", "cursor", "again"} /\ drain'.at = "object"
          /\ drain'.seen = Append(drain.seen, Head(drain.todo))
      BY <1>0, <3>1 DEF Handled
    <3>3. NeedsNothing(Head(drain.todo), refused', replyFile)
      BY <3>1 DEF NeedsNothing
    <3>4. ListSound(drain.seen, refused', replyFile) /\ ListSound(seenFile, refused', replyFile)
      BY <1>0, <3>1, ListGrows
    <3>5. ListSound(drain'.seen, refused', replyFile)
      BY <3>2, <3>3, <3>4, ListAppends
    <3>6. ListSound(drain'.seen, refused', replyFile')
          /\ ListSound(seenFile', refused', replyFile')
      BY <2>1, <3>4, <3>5
    <3> QED
      BY <2>1, <3>1, <3>2, <3>6, BetweenObjects
  <2> QED
    BY <2>2, <2>3
<1>5. /\ DOMAIN LiveTable = DOMAIN table \cap valid
      /\ \A state : DOMAIN Entered(state) = (DOMAIN table \cap valid) \cup {t}
  BY <1>2 DEF LiveTable, Entered
<1>6. /\ IsFiniteSet(DOMAIN table \cap valid)
      /\ Cardinality(DOMAIN table \cap valid) <= MaxRows
      /\ Cardinality(DOMAIN table \cap valid) \in Nat
  <2>1. DOMAIN table \cap valid \in SUBSET DOMAIN table
    OBVIOUS
  <2>2. /\ IsFiniteSet(DOMAIN table \cap valid)
        /\ Cardinality(DOMAIN table \cap valid) <= Cardinality(DOMAIN table)
    BY <1>0, <2>1, FS_Subset
  <2>3. Cardinality(DOMAIN table \cap valid) \in Nat /\ Cardinality(DOMAIN table) \in Nat
    BY <1>0, <2>2, FS_CardinalityType
  <2> QED
    BY <1>0, <2>2, <2>3, MeshLimits
<1>7. ASSUME MeshClaim PROVE MeshInv'
  <2>1. /\ drain.at = "claim" /\ t \in Tasks
        /\ UNCHANGED <<seenFile, replyFile, ran, valid, refused>>
    BY <1>0, <1>7 DEF MeshClaim, DrainAt
  <2>2. CASE t \in DOMAIN table \cap valid
    <3>1. table' = LiveTable /\ (ToStage("reply") \/ ToStage("complete"))
      BY <1>2, <1>5, <1>7, <2>2 DEF MeshClaim, DrainTo, ToStage
    <3>2. /\ DOMAIN table' = DOMAIN table \cap valid
          /\ \A u \in valid : u \notin DOMAIN table' => ran'[u] = 0
      BY <1>0, <1>5, <2>1, <3>1
    <3>3. IsFiniteSet(DOMAIN table') /\ Cardinality(DOMAIN table') <= MaxRows
      BY <1>6, <3>2
    <3> QED
      BY <1>0, <1>3, <2>1, <2>2, <3>1, <3>2, <3>3
  <2>3. CASE t \notin DOMAIN table \cap valid
             /\ Cardinality(DOMAIN table \cap valid) < MaxRows
    <3>1. table' = Entered("running") /\ ToStage("run")
      BY <1>2, <1>5, <1>7, <2>3 DEF MeshClaim, DrainTo, ToStage
    <3>2. DOMAIN table' = (DOMAIN table \cap valid) \cup {t}
      BY <1>5, <3>1
    <3>3. IsFiniteSet(DOMAIN table') /\ Cardinality(DOMAIN table') <= MaxRows
      <4>1. /\ IsFiniteSet((DOMAIN table \cap valid) \cup {t})
            /\ Cardinality((DOMAIN table \cap valid) \cup {t})
                 <= Cardinality(DOMAIN table \cap valid) + 1
            /\ Cardinality((DOMAIN table \cap valid) \cup {t}) \in Nat
        BY <1>6, OneMore
      <4>2. Cardinality((DOMAIN table \cap valid) \cup {t}) <= MaxRows
        BY <1>6, <2>3, <4>1, MeshLimits
      <4> QED
        BY <3>2, <4>1, <4>2
    <3>4. \A u \in valid : u \notin DOMAIN table' => ran'[u] = 0
      BY <1>0, <2>1, <3>2
    <3>5. t \in valid => ran'[t] = 0
      BY <1>0, <2>1, <2>3
    <3>6. t \in DOMAIN table' /\ ran' \in [Tasks -> {0, 1}]
      BY <1>0, <2>1, <3>2
    <3> QED
      BY <1>3, <2>1, <3>1, <3>3, <3>4, <3>5, <3>6
  <2>4. CASE t \notin DOMAIN table \cap valid
             /\ ~(Cardinality(DOMAIN table \cap valid) < MaxRows)
    <3>1. drain' = NoDrain /\ UNCHANGED table
      BY <1>2, <1>5, <1>7, <2>4 DEF MeshClaim
    <3>2. ListSound(drain'.seen, refused', replyFile')
          /\ ListSound(seenFile', refused', replyFile')
      BY <1>0, <2>1, <3>1, ListEmpty DEF NoDrain
    <3> QED
      BY <2>1, <3>1, <3>2, BetweenObjects DEF NoDrain
  <2> QED
    BY <2>2, <2>3, <2>4
<1>8. ASSUME MeshRun PROVE MeshInv'
  <2>1. /\ t \in Tasks /\ t \in DOMAIN table /\ (t \in valid => ran[t] = 0)
        /\ ToStage("complete") /\ UNCHANGED <<seenFile, table, replyFile, valid, refused>>
        /\ ran' = [ran EXCEPT ![t] = ran[t] + IF t \in valid THEN 1 ELSE 0]
    BY <1>0, <1>2, <1>8 DEF MeshRun, DrainAt, DrainTo, ToStage
  <2>2. ran[t] + (IF t \in valid THEN 1 ELSE 0) \in {0, 1}
    <3>1. CASE t \in valid
      <4>1. ran[t] = 0
        BY <2>1, <3>1
      <4> QED
        BY <3>1, <4>1
    <3>2. CASE t \notin valid
      <4>1. ran[t] \in {0, 1}
        BY <1>0, <2>1
      <4> QED
        BY <3>2, <4>1
    <3> QED
      BY <3>1, <3>2
  <2>3. ran' \in [Tasks -> {0, 1}] /\ \A u \in Tasks \ {t} : ran'[u] = ran[u]
    BY <1>0, <2>1, <2>2
  <2>4. \A u \in valid : u \notin DOMAIN table' => ran'[u] = 0
    BY <1>0, <2>1, <2>3
  <2>5. t \in DOMAIN table' /\ IsFiniteSet(DOMAIN table') /\ Cardinality(DOMAIN table') <= MaxRows
    BY <1>0, <2>1
  <2> QED
    BY <1>3, <2>1, <2>3, <2>4, <2>5
<1>9. ASSUME MeshComplete PROVE MeshInv'
  <2>1. /\ t \in Tasks /\ t \in DOMAIN table /\ ToStage("reply")
        /\ UNCHANGED <<seenFile, replyFile, ran, valid, refused>> /\ table' = Entered("completed")
    BY <1>0, <1>9 DEF MeshComplete, DrainAt, DrainTo, ToStage
  <2>2. DOMAIN table' = (DOMAIN table \cap valid) \cup {t}
    BY <1>5, <2>1
  <2>3. DOMAIN table' \in SUBSET DOMAIN table
    BY <2>1, <2>2
  <2>4. IsFiniteSet(DOMAIN table') /\ Cardinality(DOMAIN table') <= Cardinality(DOMAIN table)
    BY <1>0, <2>3, FS_Subset
  <2>5. Cardinality(DOMAIN table') <= MaxRows
    <3>1. Cardinality(DOMAIN table') \in Nat /\ Cardinality(DOMAIN table) \in Nat
      BY <1>0, <2>4, FS_CardinalityType
    <3> QED
      BY <1>0, <2>4, <3>1, MeshLimits
  <2>6. /\ ran' \in [Tasks -> {0, 1}] /\ \A u \in valid : u \notin DOMAIN table' => ran'[u] = 0
    BY <1>0, <2>1, <2>2
  <2> QED
    BY <1>3, <2>1, <2>4, <2>5, <2>6
<1> QED
  BY <1>4, <1>7, <1>8, <1>9

\* However often the list of handled objects is lost, cut or out of date, and
\* however many objects carry a task, it is run at most once while it is valid,
\* the outcome table keeps its bound, and a listed object needs nothing more.
THEOREM MailboxRunsOnce ==
    MeshSpec => []MeshSound
<1>1. MeshInit => MeshInv
  <2> SUFFICES ASSUME MeshInit PROVE MeshInv
    OBVIOUS
  <2>1. /\ drain = NoDrain /\ valid = Tasks /\ ran = [t \in Tasks |-> 0] /\ table = <<>>
        /\ seenFile = <<>>
    BY DEF MeshInit
  <2>2. DOMAIN table = {}
    BY <2>1
  <2>3. IsFiniteSet({}) /\ Cardinality({}) <= MaxRows
    BY FS_EmptySet, MeshLimits
  <2>4. ListSound(drain.seen, refused, replyFile) /\ ListSound(seenFile, refused, replyFile)
    BY <2>1, ListEmpty DEF NoDrain
  <2>5. ran \in [Tasks -> {0, 1}] /\ \A t \in valid : ran[t] = 0
    BY <2>1
  <2>6. DOMAIN drain = {"at", "todo", "seen", "cursor", "again"} /\ drain.at = "idle"
    BY <2>1 DEF NoDrain
  <2> QED
    BY <2>1, <2>2, <2>3, <2>4, <2>5, <2>6 DEF MeshInv
<1>2. MeshInv /\ [MeshNext]_meshVars => MeshInv'
  <2> SUFFICES ASSUME MeshInv, [MeshNext]_meshVars PROVE MeshInv'
    OBVIOUS
  <2>1. ASSUME UNCHANGED meshVars PROVE MeshInv'
    BY <2>1 DEF meshVars, MeshInv, ListSound, NeedsNothing
  <2> QED
    BY <2>1, WorldSteps, DrainSteps, WorkSteps DEF MeshNext
<1>3. MeshInv => MeshSound
  <2> SUFFICES ASSUME MeshInv PROVE MeshSound
    OBVIOUS
  <2>1. ASSUME NEW t \in Tasks PROVE ran[t] <= 1
    <3>1. ran[t] \in {0, 1}
      BY DEF MeshInv
    <3> QED
      BY <3>1
  <2>2. ASSUME NEW o \in Range(seenFile)
        PROVE  Carries[o] = Garbage \/ o \in refused \/ Carries[o] \in replyFile
    <3>1. PICK S : seenFile \in Seq(S) /\ \A p \in S : NeedsNothing(p, refused, replyFile)
      BY DEF MeshInv, ListSound
    <3>2. o \in S
      BY <2>2, <3>1 DEF Range
    <3> QED
      BY <3>1, <3>2 DEF NeedsNothing
  <2> QED
    BY <2>1, <2>2 DEF MeshInv, MeshSound
<1> QED
  BY <1>1, <1>2, <1>3, PTL DEF MeshSpec

-----------------------------------------------------------------------------
\* The bridge to raven-node: what a call was told fits what the daemon did for it.

Stages   == {"new", "connect", "write", "header", "body", "done"}
Outcomes == {"none", "sealed", "IPC_FRAME", "LINEAGE_REVOKED", "SESSION_REQUIRED", "refused",
             "toolarge", "IPC_CONNECT", "lost", "timeout"}
Ipcs     == [at : Stages, fit : {"fits", "toolarge"}, left : 0 .. IpcTimeout, spent : Nat,
             attempts : 0 .. PipeAttempts - 1, outcome : Outcomes, envelope : Nat]
Conns    == {"none", "open", "asked", "answered", "closed"}
SealAnswers == [ok : {"none", "sealed", "error", "badlength", "other"},
                code : {"none", "LINEAGE_REVOKED", "SESSION_REQUIRED"}, envelope : Nat]

SealTypes ==
    /\ lineage \in {"none", "usable", "revoked"}
    /\ seals \in Seq(SealCalls)
    /\ ipc \in [SealCalls -> Ipcs]
    /\ thread \in [SealCalls -> BOOLEAN]
    /\ conn \in [SealCalls -> Conns]
    /\ answer \in [SealCalls -> SealAnswers]
    /\ nuisances \in 0 .. MaxNuisances

\* A call c whose caller is i, with the answer a and the connection k, under the
\* lineage ln and after the seals ss.
SealFits(c, i, a, k, ln, ss) ==
    /\ k \in {"none", "open", "asked"} => a = NoAnswer /\ c \notin ToSet(ss)
    /\ c \in ToSet(ss) => a.ok = "sealed"
    /\ a.envelope # 0 => a.envelope \in 1 .. Len(ss) /\ ss[a.envelope] = c
    /\ a.ok = "error" => a.code # "none"
    /\ a.code = "LINEAGE_REVOKED" => ln = "revoked"
    /\ i.at \in {"new", "connect"} => k = "none"
    /\ i.at # "done" => i.outcome = "none"
    /\ i.outcome = "sealed" => i.envelope \in 1 .. Len(ss) /\ ss[i.envelope] = c
    /\ i.outcome \in {"LINEAGE_REVOKED", "SESSION_REQUIRED"} =>
          a.ok = "error" /\ a.code = i.outcome /\ k = "closed"
    /\ i.outcome \in {"IPC_CONNECT", "refused", "toolarge"} =>
          k \in {"none", "closed"} /\ c \notin ToSet(ss)
    /\ Transport[c] = "pipe" => i.spent + i.left = IpcTimeout

SealInv ==
    /\ SealTypes
    /\ \A c \in SealCalls : SealFits(c, ipc[c], answer[c], conn[c], lineage, seals)

\* The other calls stand still.
Apart(c) == \A d \in SealCalls \ {c} :
    ipc'[d] = ipc[d] /\ answer'[d] = answer[d] /\ conn'[d] = conn[d]

LEMMA OneCall ==
    ASSUME SealInv, NEW c \in SealCalls, SealTypes', Apart(c),
           lineage' = lineage, seals' = seals,
           SealFits(c, ipc'[c], answer'[c], conn'[c], lineage, seals)
    PROVE  SealInv'
<1>1. \A d \in SealCalls : SealFits(d, ipc'[d], answer'[d], conn'[d], lineage', seals')
  BY DEF SealInv, Apart
<1> QED
  BY <1>1 DEF SealInv, SealFits

LEMMA SealEndFacts ==
    ASSUME SealTypes, NEW c \in SealCalls, NEW o \in Outcomes, NEW e \in Nat, SealEnds(c, o, e)
    PROVE  /\ ipc' \in [SealCalls -> Ipcs]
           /\ \A d \in SealCalls \ {c} : ipc'[d] = ipc[d]
           /\ ipc'[c] = [ipc[c] EXCEPT !.at = "done", !.outcome = o, !.envelope = e]
           /\ ipc'[c].at = "done" /\ ipc'[c].outcome = o /\ ipc'[c].envelope = e
           /\ ipc'[c].spent = ipc[c].spent /\ ipc'[c].left = ipc[c].left
<1> DEFINE new == [ipc[c] EXCEPT !.at = "done", !.outcome = o, !.envelope = e]
<1>1. ipc[c] \in Ipcs
  BY DEF SealTypes
<1>2. /\ new \in Ipcs /\ new.at = "done" /\ new.outcome = o /\ new.envelope = e
      /\ new.spent = ipc[c].spent /\ new.left = ipc[c].left
  BY <1>1 DEF Ipcs, Stages
<1>3. ipc' = [ipc EXCEPT ![c] = new]
  BY DEF SealEnds, SealTypes
<1> HIDE DEF new
<1>4. /\ ipc' \in [SealCalls -> Ipcs] /\ ipc'[c] = new
      /\ \A d \in SealCalls \ {c} : ipc'[d] = ipc[d]
  BY <1>2, <1>3 DEF SealTypes
<1> QED
  BY <1>2, <1>4 DEF new

LEMMA OperationFacts ==
    ASSUME SealTypes, NEW c \in SealCalls, NEW next \in Stages, Operation(c, next)
    PROVE  /\ ipc' \in [SealCalls -> Ipcs]
           /\ \A d \in SealCalls \ {c} : ipc'[d] = ipc[d]
           /\ ipc'[c].at = next /\ ipc'[c].outcome = ipc[c].outcome
           /\ ipc'[c].envelope = ipc[c].envelope /\ ipc'[c].spent = ipc[c].spent
           /\ Transport[c] = "pipe" => ipc'[c].left = ipc[c].left
<1> DEFINE time == IF Transport[c] = "unix" THEN IpcTimeout ELSE ipc[c].left
           new  == [ipc[c] EXCEPT !.at = next, !.left = time]
<1>1. ipc[c] \in Ipcs
  BY DEF SealTypes
<1>2. time \in 0 .. IpcTimeout /\ (Transport[c] = "pipe" => time = ipc[c].left)
  BY <1>1, SealLimits DEF Ipcs
<1>3. ipc' = [ipc EXCEPT ![c] = new]
  BY DEF Operation, SealTypes
<1> HIDE DEF time
<1>5. /\ new \in Ipcs /\ new.at = next /\ new.outcome = ipc[c].outcome
      /\ new.envelope = ipc[c].envelope /\ new.spent = ipc[c].spent /\ new.left = time
  BY <1>1, <1>2 DEF Ipcs
<1> HIDE DEF new
<1>4. /\ ipc' \in [SealCalls -> Ipcs] /\ ipc'[c] = new
      /\ \A d \in SealCalls \ {c} : ipc'[d] = ipc[d]
  BY <1>3, <1>5 DEF SealTypes
<1> QED
  BY <1>2, <1>4, <1>5

LEMMA SealStarts ==
    ASSUME SealInit
    PROVE  SealInv
<1> DEFINE i0 == [at |-> "new", fit |-> "fits", left |-> IpcTimeout, spent |-> 0,
                  attempts |-> 0, outcome |-> "none", envelope |-> 0]
<1>1. i0 \in Ipcs /\ i0.at = "new" /\ i0.outcome = "none" /\ i0.spent = 0 /\ i0.left = IpcTimeout
  BY SealLimits DEF Ipcs, Stages, Outcomes
<1>2. /\ NoAnswer \in SealAnswers /\ NoAnswer.envelope = 0 /\ NoAnswer.ok = "none"
      /\ NoAnswer.code = "none"
  BY DEF NoAnswer, SealAnswers
<1>3. ipc = [c \in SealCalls |-> i0] /\ answer = [c \in SealCalls |-> NoAnswer]
      /\ conn = [c \in SealCalls |-> "none"] /\ thread = [c \in SealCalls |-> FALSE]
      /\ lineage = "none" /\ seals = <<>> /\ nuisances = 0
  BY DEF SealInit
<1> HIDE DEF i0
<1>4. SealTypes
  BY <1>1, <1>2, <1>3, SealLimits DEF SealTypes, Conns
<1>5. ToSet(seals) = {}
  BY <1>3 DEF ToSet
<1>6. IpcTimeout \in Nat /\ 0 + IpcTimeout = IpcTimeout
  BY SealLimits
<1>7. ASSUME NEW c \in SealCalls
      PROVE  SealFits(c, ipc[c], answer[c], conn[c], lineage, seals)
  BY <1>1, <1>2, <1>3, <1>5, <1>6 DEF SealFits
<1> QED
  BY <1>4, <1>7 DEF SealInv


\* The steps of a caller before it has an answer.
LEMMA RequestSteps ==
    ASSUME SealInv, NEW c \in SealCalls,
           StartSeal(c) \/ Connect(c) \/ CannotConnect(c) \/ WriteRequest(c)
    PROVE  SealInv'
<1>0. /\ SealTypes /\ ipc[c] \in Ipcs /\ conn[c] \in Conns /\ answer[c] \in SealAnswers
      /\ SealFits(c, ipc[c], answer[c], conn[c], lineage, seals)
      /\ ipc[c].left \in 0 .. IpcTimeout /\ ipc[c].spent \in Nat
  BY DEF SealInv, SealTypes, Ipcs
<1>1. ASSUME StartSeal(c) PROVE SealInv'
  <2>1. ipc[c].at = "new" /\ UNCHANGED <<lineage, seals, conn, answer, nuisances>>
    BY <1>1 DEF StartSeal
  <2>2. CASE SealEnds(c, "refused", 0) /\ UNCHANGED thread
    <3>1. /\ ipc' \in [SealCalls -> Ipcs] /\ \A d \in SealCalls \ {c} : ipc'[d] = ipc[d]
          /\ ipc'[c].at = "done" /\ ipc'[c].outcome = "refused"
          /\ ipc'[c].spent = ipc[c].spent /\ ipc'[c].left = ipc[c].left
      BY <1>0, <2>2, SealEndFacts DEF Outcomes
    <3>2. SealTypes' /\ Apart(c)
      BY <1>0, <2>1, <2>2, <3>1 DEF SealTypes, Apart
    <3>3. SealFits(c, ipc'[c], answer'[c], conn'[c], lineage, seals)
      BY <1>0, <2>1, <3>1 DEF SealFits
    <3> QED
      BY <2>1, <3>2, <3>3, OneCall
  <2>3. ASSUME NEW fit \in {"fits", "toolarge"},
               ipc' = [ipc EXCEPT ![c].at = "connect", ![c].fit = fit],
               thread' = [thread EXCEPT ![c] = TRUE]
        PROVE  SealInv'
    <3> DEFINE new == [ipc[c] EXCEPT !.at = "connect", !.fit = fit]
    <3>1. /\ new \in Ipcs /\ new.at = "connect" /\ new.outcome = ipc[c].outcome
          /\ new.spent = ipc[c].spent /\ new.left = ipc[c].left
      BY <1>0, <2>3 DEF Ipcs, Stages
    <3>2. ipc' = [ipc EXCEPT ![c] = new]
      BY <1>0, <2>3 DEF SealTypes
    <3> HIDE DEF new
    <3>3. /\ ipc' \in [SealCalls -> Ipcs] /\ \A d \in SealCalls \ {c} : ipc'[d] = ipc[d]
          /\ ipc'[c] = new
      BY <1>0, <3>1, <3>2 DEF SealTypes
    <3>4. SealTypes' /\ Apart(c)
      BY <1>0, <2>1, <2>3, <3>3 DEF SealTypes, Apart
    <3>5. SealFits(c, ipc'[c], answer'[c], conn'[c], lineage, seals)
      BY <1>0, <2>1, <3>1, <3>3 DEF SealFits
    <3> QED
      BY <2>1, <3>4, <3>5, OneCall
  <2> QED
    BY <1>1, <2>2, <2>3 DEF StartSeal, RefusesRequest
<1>2. ASSUME Connect(c) PROVE SealInv'
  <2>1. /\ ipc[c].at = "connect" /\ conn[c] = "none" /\ conn' = [conn EXCEPT ![c] = "open"]
        /\ Operation(c, "write") /\ UNCHANGED <<lineage, seals, thread, answer, nuisances>>
    BY <1>2 DEF Connect
  <2>2. /\ ipc' \in [SealCalls -> Ipcs] /\ \A d \in SealCalls \ {c} : ipc'[d] = ipc[d]
        /\ ipc'[c].at = "write" /\ ipc'[c].outcome = ipc[c].outcome
        /\ ipc'[c].spent = ipc[c].spent /\ (Transport[c] = "pipe" => ipc'[c].left = ipc[c].left)
    BY <1>0, <2>1, OperationFacts DEF Stages
  <2>3. conn'[c] = "open" /\ \A d \in SealCalls \ {c} : conn'[d] = conn[d]
    BY <1>0, <2>1 DEF SealTypes
  <2>4. SealTypes' /\ Apart(c)
    BY <1>0, <2>1, <2>2, <2>3 DEF SealTypes, Apart, Conns
  <2>5. SealFits(c, ipc'[c], answer'[c], conn'[c], lineage, seals)
    BY <1>0, <2>1, <2>2, <2>3 DEF SealFits
  <2> QED
    BY <2>1, <2>4, <2>5, OneCall
<1>3. ASSUME CannotConnect(c) PROVE SealInv'
  <2>1. /\ ipc[c].at = "connect" /\ conn[c] = "none"
        /\ UNCHANGED <<lineage, seals, conn, answer, nuisances>>
    BY <1>3 DEF CannotConnect
  <2>2. ASSUME ipc[c].attempts + 1 < PipeAttempts, UNCHANGED thread,
               ipc' = [ipc EXCEPT ![c].attempts = @ + 1]
        PROVE  SealInv'
    <3> DEFINE new == [ipc[c] EXCEPT !.attempts = @ + 1]
    <3>1. /\ new \in Ipcs /\ new.at = ipc[c].at /\ new.outcome = ipc[c].outcome
          /\ new.spent = ipc[c].spent /\ new.left = ipc[c].left
      BY <1>0, <2>2, SealLimits DEF Ipcs
    <3>2. ipc' = [ipc EXCEPT ![c] = new]
      BY <1>0, <2>2 DEF SealTypes
    <3> HIDE DEF new
    <3>3. /\ ipc' \in [SealCalls -> Ipcs] /\ \A d \in SealCalls \ {c} : ipc'[d] = ipc[d]
          /\ ipc'[c] = new
      BY <1>0, <3>1, <3>2 DEF SealTypes
    <3>4. SealTypes' /\ Apart(c)
      BY <1>0, <2>1, <2>2, <3>3 DEF SealTypes, Apart
    <3>5. SealFits(c, ipc'[c], answer'[c], conn'[c], lineage, seals)
      BY <1>0, <2>1, <3>1, <3>3 DEF SealFits
    <3> QED
      BY <2>1, <3>4, <3>5, OneCall
  <2>3. ASSUME SealEnds(c, "IPC_CONNECT", 0), thread' = [thread EXCEPT ![c] = FALSE]
        PROVE  SealInv'
    <3>1. /\ ipc' \in [SealCalls -> Ipcs] /\ \A d \in SealCalls \ {c} : ipc'[d] = ipc[d]
          /\ ipc'[c].at = "done" /\ ipc'[c].outcome = "IPC_CONNECT"
          /\ ipc'[c].spent = ipc[c].spent /\ ipc'[c].left = ipc[c].left
      BY <1>0, <2>3, SealEndFacts DEF Outcomes
    <3>2. SealTypes' /\ Apart(c)
      BY <1>0, <2>1, <2>3, <3>1 DEF SealTypes, Apart
    <3>3. SealFits(c, ipc'[c], answer'[c], conn'[c], lineage, seals)
      BY <1>0, <2>1, <3>1 DEF SealFits
    <3> QED
      BY <2>1, <3>2, <3>3, OneCall
  <2> QED
    BY <1>3, <2>2, <2>3 DEF CannotConnect
<1>4. ASSUME WriteRequest(c) PROVE SealInv'
  <2>1. /\ conn[c] = "open" /\ ipc[c].at \in {"write", "done"}
        /\ UNCHANGED <<lineage, seals, answer, nuisances>>
    BY <1>4 DEF WriteRequest
  <2>2. /\ conn' = [conn EXCEPT ![c] = IF ipc[c].fit = "toolarge" THEN "closed" ELSE "asked"]
        /\ thread' \in [SealCalls -> BOOLEAN]
    BY <1>0, <1>4 DEF WriteRequest, SealTypes
  <2>3. /\ conn' \in [SealCalls -> Conns] /\ \A d \in SealCalls \ {c} : conn'[d] = conn[d]
        /\ conn'[c] = IF ipc[c].fit = "toolarge" THEN "closed" ELSE "asked"
    BY <1>0, <2>2 DEF SealTypes, Conns
  <2>4. /\ ipc' \in [SealCalls -> Ipcs] /\ \A d \in SealCalls \ {c} : ipc'[d] = ipc[d]
        /\ ipc'[c].at \in {"header", "done"} /\ ipc'[c].spent = ipc[c].spent
        /\ Transport[c] = "pipe" => ipc'[c].left = ipc[c].left
        /\ \/ ipc'[c].outcome = ipc[c].outcome /\ ipc'[c].envelope = ipc[c].envelope
              /\ (ipc[c].at = "done" \/ ipc'[c].at # "done")
              /\ (ipc[c].at = "done" => ipc'[c].at = "done")
           \/ ipc'[c].outcome = "toolarge" /\ ipc'[c].at = "done" /\ conn'[c] = "closed"
    <3>1. CASE ipc[c].at = "done"
      <4>1. ipc' = ipc
        BY <1>4, <3>1 DEF WriteRequest
      <4> QED
        BY <1>0, <3>1, <4>1 DEF SealTypes
    <3>2. CASE ipc[c].at = "write" /\ ipc[c].fit = "toolarge"
      <4>1. SealEnds(c, "toolarge", 0)
        BY <1>4, <3>2 DEF WriteRequest
      <4> QED
        BY <1>0, <2>3, <3>2, <4>1, SealEndFacts DEF Outcomes
    <3>3. CASE ipc[c].at = "write" /\ ipc[c].fit # "toolarge"
      <4>1. Operation(c, "header")
        BY <1>4, <3>3 DEF WriteRequest
      <4> QED
        BY <1>0, <3>3, <4>1, OperationFacts DEF Stages
    <3> QED
      BY <2>1, <3>1, <3>2, <3>3
  <2>5. SealTypes' /\ Apart(c)
    BY <1>0, <2>1, <2>2, <2>3, <2>4 DEF SealTypes, Apart
  <2>6. SealFits(c, ipc'[c], answer'[c], conn'[c], lineage, seals)
    BY <1>0, <2>1, <2>3, <2>4 DEF SealFits
  <2> QED
    BY <2>1, <2>5, <2>6, OneCall
<1> QED
  BY <1>1, <1>2, <1>3, <1>4

\* The steps of a caller that reads, gives up or is left behind.
LEMMA ReplySteps ==
    ASSUME SealInv, NEW c \in SealCalls,
           \/ ReadHeader(c) \/ ReadBody(c) \/ Piece(c) \/ ConnectionLost(c)
           \/ SealTimesOut(c) \/ ThreadEnds(c)
    PROVE  SealInv'
<1>0. /\ SealTypes /\ ipc[c] \in Ipcs /\ conn[c] \in Conns /\ answer[c] \in SealAnswers
      /\ SealFits(c, ipc[c], answer[c], conn[c], lineage, seals)
      /\ ipc[c].left \in 0 .. IpcTimeout /\ ipc[c].spent \in Nat /\ ipc[c].at \in Stages
      /\ answer[c].envelope \in Nat
  BY DEF SealInv, SealTypes, Ipcs, SealAnswers
<1>1. ASSUME ReadHeader(c) PROVE SealInv'
  <2>1. /\ ipc[c].at = "header" /\ conn[c] = "answered"
        /\ UNCHANGED <<lineage, seals, answer, nuisances>>
    BY <1>1 DEF ReadHeader
  <2>2. ASSUME SealEnds(c, "IPC_FRAME", 0), conn' = [conn EXCEPT ![c] = "closed"],
               thread' = [thread EXCEPT ![c] = FALSE]
        PROVE  SealInv'
    <3>1. /\ ipc' \in [SealCalls -> Ipcs] /\ \A d \in SealCalls \ {c} : ipc'[d] = ipc[d]
          /\ ipc'[c].at = "done" /\ ipc'[c].outcome = "IPC_FRAME"
          /\ ipc'[c].spent = ipc[c].spent /\ ipc'[c].left = ipc[c].left
      BY <1>0, <2>2, SealEndFacts DEF Outcomes
    <3>2. SealTypes' /\ Apart(c) /\ conn'[c] = "closed"
      BY <1>0, <2>1, <2>2, <3>1 DEF SealTypes, Apart, Conns
    <3>3. SealFits(c, ipc'[c], answer'[c], conn'[c], lineage, seals)
      BY <1>0, <2>1, <3>1, <3>2 DEF SealFits
    <3> QED
      BY <2>1, <3>2, <3>3, OneCall
  <2>3. ASSUME Operation(c, "body"), UNCHANGED <<conn, thread>> PROVE SealInv'
    <3>1. /\ ipc' \in [SealCalls -> Ipcs] /\ \A d \in SealCalls \ {c} : ipc'[d] = ipc[d]
          /\ ipc'[c].at = "body" /\ ipc'[c].outcome = ipc[c].outcome
          /\ ipc'[c].spent = ipc[c].spent /\ (Transport[c] = "pipe" => ipc'[c].left = ipc[c].left)
      BY <1>0, <2>3, OperationFacts DEF Stages
    <3>2. SealTypes' /\ Apart(c)
      BY <1>0, <2>1, <2>3, <3>1 DEF SealTypes, Apart
    <3>3. SealFits(c, ipc'[c], answer'[c], conn'[c], lineage, seals)
      BY <1>0, <2>1, <2>3, <3>1 DEF SealFits
    <3> QED
      BY <2>1, <3>2, <3>3, OneCall
  <2> QED
    BY <1>1, <2>2, <2>3 DEF ReadHeader
<1>2. ASSUME ReadBody(c) PROVE SealInv'
  <2> DEFINE o == Outcome(answer[c])
  <2>1. /\ ipc[c].at = "body" /\ conn[c] = "answered" /\ SealEnds(c, o, answer[c].envelope)
        /\ conn' = [conn EXCEPT ![c] = "closed"] /\ thread' = [thread EXCEPT ![c] = FALSE]
        /\ UNCHANGED <<lineage, seals, answer, nuisances>>
    BY <1>2 DEF ReadBody
  <2>2. /\ o \in Outcomes
        /\ o = "sealed" => answer[c].envelope # 0
        /\ o \in {"LINEAGE_REVOKED", "SESSION_REQUIRED"} =>
              answer[c].ok = "error" /\ answer[c].code = o
        /\ o \notin {"IPC_CONNECT", "refused", "toolarge"}
    <3>1. CASE answer[c].ok = "sealed"
      BY <3>1 DEF Outcome, Outcomes
    <3>2. CASE answer[c].ok = "error"
      <4>1. answer[c].code \in {"LINEAGE_REVOKED", "SESSION_REQUIRED"}
        BY <1>0, <3>2 DEF SealFits, SealAnswers
      <4>2. o = answer[c].code
        BY <3>2 DEF Outcome, FailClosed
      <4> QED
        BY <3>2, <4>1, <4>2 DEF Outcomes
    <3>3. CASE answer[c].ok \notin {"sealed", "error"}
      <4>1. o = "IPC_FRAME"
        BY <3>3 DEF Outcome
      <4> QED
        BY <4>1 DEF Outcomes
    <3> QED
      BY <3>1, <3>2, <3>3
  <2> HIDE DEF o
  <2>3. /\ ipc' \in [SealCalls -> Ipcs] /\ \A d \in SealCalls \ {c} : ipc'[d] = ipc[d]
        /\ ipc'[c].at = "done" /\ ipc'[c].outcome = o /\ ipc'[c].envelope = answer[c].envelope
        /\ ipc'[c].spent = ipc[c].spent /\ ipc'[c].left = ipc[c].left
    <3> DEFINE e   == answer[c].envelope
               new == [ipc[c] EXCEPT !.at = "done", !.outcome = o, !.envelope = e]
    <3>1. e \in Nat
      BY <1>0
    <3>2. ipc' = [ipc EXCEPT ![c] = new]
      BY <1>0, <2>1 DEF SealEnds, SealTypes
    <3> HIDE DEF e
    <3>3. /\ new \in Ipcs /\ new.at = "done" /\ new.outcome = o /\ new.envelope = e
          /\ new.spent = ipc[c].spent /\ new.left = ipc[c].left
      BY <1>0, <2>2, <3>1 DEF Ipcs, Stages
    <3> HIDE DEF new
    <3>4. /\ ipc' \in [SealCalls -> Ipcs] /\ ipc'[c] = new
          /\ \A d \in SealCalls \ {c} : ipc'[d] = ipc[d]
      BY <1>0, <3>2, <3>3 DEF SealTypes
    <3> QED
      BY <3>3, <3>4 DEF e
  <2>4. SealTypes' /\ Apart(c) /\ conn'[c] = "closed"
    BY <1>0, <2>1, <2>3 DEF SealTypes, Apart, Conns
  <2>5. SealFits(c, ipc'[c], answer'[c], conn'[c], lineage, seals)
    BY <1>0, <2>1, <2>2, <2>3, <2>4 DEF SealFits
  <2> QED
    BY <2>1, <2>4, <2>5, OneCall
<1>3. ASSUME Piece(c) PROVE SealInv'
  <2>1. /\ ipc[c].at \in {"header", "body"} /\ Operation(c, ipc[c].at)
        /\ nuisances < MaxNuisances /\ nuisances' = nuisances + 1
        /\ UNCHANGED <<lineage, seals, thread, conn, answer>>
    BY <1>3 DEF Piece
  <2>2. /\ ipc' \in [SealCalls -> Ipcs] /\ \A d \in SealCalls \ {c} : ipc'[d] = ipc[d]
        /\ ipc'[c].at = ipc[c].at /\ ipc'[c].outcome = ipc[c].outcome
        /\ ipc'[c].spent = ipc[c].spent /\ (Transport[c] = "pipe" => ipc'[c].left = ipc[c].left)
    BY <1>0, <2>1, OperationFacts
  <2>3. SealTypes' /\ Apart(c)
    BY <1>0, <2>1, <2>2, SealLimits DEF SealTypes, Apart
  <2>4. SealFits(c, ipc'[c], answer'[c], conn'[c], lineage, seals)
    BY <1>0, <2>1, <2>2 DEF SealFits
  <2> QED
    BY <2>1, <2>3, <2>4, OneCall
<1>4. ASSUME ConnectionLost(c) PROVE SealInv'
  <2>1. /\ conn[c] = "closed" /\ SealEnds(c, "lost", 0) /\ thread' = [thread EXCEPT ![c] = FALSE]
        /\ UNCHANGED <<lineage, seals, conn, answer, nuisances>>
    BY <1>4 DEF ConnectionLost
  <2>2. /\ ipc' \in [SealCalls -> Ipcs] /\ \A d \in SealCalls \ {c} : ipc'[d] = ipc[d]
        /\ ipc'[c].at = "done" /\ ipc'[c].outcome = "lost"
        /\ ipc'[c].spent = ipc[c].spent /\ ipc'[c].left = ipc[c].left
    BY <1>0, <2>1, SealEndFacts DEF Outcomes
  <2>3. SealTypes' /\ Apart(c)
    BY <1>0, <2>1, <2>2 DEF SealTypes, Apart
  <2>4. SealFits(c, ipc'[c], answer'[c], conn'[c], lineage, seals)
    BY <1>0, <2>1, <2>2 DEF SealFits
  <2> QED
    BY <2>1, <2>3, <2>4, OneCall
<1>5. ASSUME SealTimesOut(c) PROVE SealInv'
  <2> DEFINE o == IF ipc[c].at = "connect" THEN "IPC_CONNECT" ELSE "timeout"
  <2>1. SealEnds(c, o, 0) /\ UNCHANGED <<lineage, seals, answer, nuisances>>
    BY <1>5 DEF SealTimesOut
  <2>2. o \in Outcomes /\ o # "sealed" /\ o \in {"IPC_CONNECT", "timeout"}
        /\ (o = "IPC_CONNECT" => ipc[c].at = "connect")
    BY DEF Outcomes
  <2> HIDE DEF o
  <2>3. /\ ipc' \in [SealCalls -> Ipcs] /\ \A d \in SealCalls \ {c} : ipc'[d] = ipc[d]
        /\ ipc'[c].at = "done" /\ ipc'[c].outcome = o
        /\ ipc'[c].spent = ipc[c].spent /\ ipc'[c].left = ipc[c].left
    BY <1>0, <2>1, <2>2, SealEndFacts
  <2>4. /\ conn' \in [SealCalls -> Conns] /\ thread' \in [SealCalls -> BOOLEAN]
        /\ \A d \in SealCalls \ {c} : conn'[d] = conn[d]
        /\ conn'[c] = conn[c] \/ (conn'[c] = "closed" /\ conn[c] # "asked")
    <3>1. CASE Transport[c] = "unix"
      <4>1. /\ thread' = [thread EXCEPT ![c] = FALSE]
            /\ conn' = [conn EXCEPT ![c] = IF conn[c] = "asked" THEN conn[c] ELSE "closed"]
        BY <1>5, <3>1 DEF SealTimesOut
      <4> QED
        BY <1>0, <4>1 DEF SealTypes, Conns
    <3>2. CASE Transport[c] # "unix"
      BY <1>0, <1>5, <3>2 DEF SealTimesOut, SealTypes
    <3> QED
      BY <3>1, <3>2
  <2>5. SealTypes' /\ Apart(c)
    BY <1>0, <2>1, <2>3, <2>4 DEF SealTypes, Apart
  <2>6. SealFits(c, ipc'[c], answer'[c], conn'[c], lineage, seals)
    BY <1>0, <2>1, <2>2, <2>3, <2>4 DEF SealFits
  <2> QED
    BY <2>1, <2>5, <2>6, OneCall
<1>6. ASSUME ThreadEnds(c) PROVE SealInv'
  <2>1. /\ ipc[c].at = "done" /\ UNCHANGED <<lineage, seals, ipc, answer, nuisances>>
        /\ thread' = [thread EXCEPT ![c] = FALSE]
        /\ conn' = [conn EXCEPT ![c] = IF conn[c] = "asked" THEN conn[c] ELSE "closed"]
    BY <1>6 DEF ThreadEnds
  <2>2. /\ conn' \in [SealCalls -> Conns] /\ thread' \in [SealCalls -> BOOLEAN]
        /\ \A d \in SealCalls \ {c} : conn'[d] = conn[d]
        /\ conn'[c] = conn[c] \/ (conn'[c] = "closed" /\ conn[c] # "asked")
    BY <1>0, <2>1 DEF SealTypes, Conns
  <2>3. SealTypes' /\ Apart(c)
    BY <1>0, <2>1, <2>2 DEF SealTypes, Apart
  <2>4. SealFits(c, ipc'[c], answer'[c], conn'[c], lineage, seals)
    BY <1>0, <2>1, <2>2 DEF SealFits
  <2> QED
    BY <2>1, <2>3, <2>4, OneCall
<1> QED
  BY <1>1, <1>2, <1>3, <1>4, <1>5, <1>6

\* The daemon appends a seal: only its own call learns of it.
LEMMA AppendFacts ==
    ASSUME NEW ss \in Seq(SealCalls), NEW c \in SealCalls
    PROVE  /\ Append(ss, c) \in Seq(SealCalls)
           /\ Len(Append(ss, c)) = Len(ss) + 1 /\ Len(ss) \in Nat
           /\ Append(ss, c)[Len(ss) + 1] = c
           /\ \A j \in 1 .. Len(ss) : Append(ss, c)[j] = ss[j]
           /\ ToSet(Append(ss, c)) = ToSet(ss) \cup {c}
<1>1. /\ Append(ss, c) \in Seq(SealCalls) /\ Len(Append(ss, c)) = Len(ss) + 1
      /\ Len(ss) \in Nat
      /\ Append(ss, c)[Len(ss) + 1] = c
      /\ \A j \in 1 .. Len(ss) : Append(ss, c)[j] = ss[j]
  OBVIOUS
<1>2. DOMAIN Append(ss, c) = 1 .. Len(ss) + 1 /\ DOMAIN ss = 1 .. Len(ss)
  BY <1>1
<1>3. ToSet(Append(ss, c)) = ToSet(ss) \cup {c}
  BY <1>1, <1>2 DEF ToSet
<1> QED
  BY <1>1, <1>3

LEMMA DaemonSteps ==
    ASSUME SealInv, NEW c \in SealCalls, DaemonAnswers(c) \/ DaemonAnswersNonsense(c)
    PROVE  SealInv'
<1>0. /\ SealTypes /\ ipc[c] \in Ipcs /\ SealFits(c, ipc[c], answer[c], conn[c], lineage, seals)
      /\ conn[c] = "asked" /\ answer[c] = NoAnswer /\ c \notin ToSet(seals)
      /\ conn' = [conn EXCEPT ![c] = "answered"]
  BY DEF SealInv, SealTypes, SealFits, DaemonAnswers, DaemonAnswersNonsense
<1>1. /\ conn' \in [SealCalls -> Conns] /\ conn'[c] = "answered"
      /\ \A d \in SealCalls \ {c} : conn'[d] = conn[d]
  BY <1>0 DEF SealTypes, Conns
<1>2. ASSUME DaemonAnswers(c), lineage = "usable" PROVE SealInv'
  <2> DEFINE new == [ok |-> "sealed", code |-> "none", envelope |-> Len(seals) + 1]
  <2>1. /\ seals' = Append(seals, c) /\ answer' = [answer EXCEPT ![c] = new]
        /\ UNCHANGED <<lineage, ipc, thread, nuisances>>
    BY <1>2 DEF DaemonAnswers
  <2>2. seals \in Seq(SealCalls) /\ Len(seals) \in Nat
    BY <1>0 DEF SealTypes
  <2>3. /\ new \in SealAnswers /\ new.ok = "sealed" /\ new.code = "none"
        /\ new.envelope = Len(seals) + 1
    BY <2>2 DEF SealAnswers
  <2> HIDE DEF new
  <2>4. /\ answer' \in [SealCalls -> SealAnswers] /\ answer'[c] = new
        /\ \A d \in SealCalls \ {c} : answer'[d] = answer[d]
    BY <1>0, <2>1, <2>3 DEF SealTypes
  <2>5. SealTypes'
    BY <1>0, <1>1, <2>1, <2>2, <2>4, AppendFacts DEF SealTypes
  <2>6. SealFits(c, ipc'[c], answer'[c], conn'[c], lineage', seals')
    <3>1. answer'[c].envelope \in 1 .. Len(seals') /\ seals'[answer'[c].envelope] = c
      BY <2>1, <2>2, <2>3, <2>4, AppendFacts
    <3>2. ipc[c].outcome \notin {"sealed", "LINEAGE_REVOKED", "SESSION_REQUIRED",
                                 "IPC_CONNECT", "refused", "toolarge"}
      <4>1. ~(c \in ToSet(seals)) /\ answer[c].ok = "none"
        BY <1>0 DEF NoAnswer
      <4>2. ipc[c].outcome # "sealed"
        BY <1>0, <4>1, <2>2 DEF SealFits, ToSet, SealTypes
      <4> QED
        BY <1>0, <4>1, <4>2 DEF SealFits
    <3> QED
      BY <1>0, <1>1, <2>1, <2>3, <2>4, <3>1, <3>2 DEF SealFits
  <2>7. ASSUME NEW d \in SealCalls, d # c
        PROVE  SealFits(d, ipc'[d], answer'[d], conn'[d], lineage', seals')
    <3>1. SealFits(d, ipc[d], answer[d], conn[d], lineage, seals)
      BY DEF SealInv
    <3>2. d \in ToSet(seals') <=> d \in ToSet(seals)
      BY <2>1, <2>2, <2>7, AppendFacts
    <3>3. \A j \in 1 .. Len(seals) : j \in 1 .. Len(seals') /\ seals'[j] = seals[j]
      BY <2>1, <2>2, AppendFacts
    <3>4. /\ ipc'[d] = ipc[d] /\ answer'[d] = answer[d] /\ conn'[d] = conn[d]
          /\ lineage' = lineage
      BY <1>1, <2>1, <2>4, <2>7
    <3> QED
      BY <3>1, <3>2, <3>3, <3>4 DEF SealFits
  <2>8. \A d \in SealCalls : SealFits(d, ipc'[d], answer'[d], conn'[d], lineage', seals')
    BY <2>6, <2>7
  <2> QED
    BY <2>5, <2>8 DEF SealInv, SealFits
<1>3. ASSUME NEW new \in SealAnswers, new.envelope = 0, answer' = [answer EXCEPT ![c] = new],
             new.ok = "error" => new.code # "none", new.code = "LINEAGE_REVOKED" => lineage = "revoked",
             nuisances' \in 0 .. MaxNuisances, UNCHANGED <<lineage, seals, ipc, thread>>
      PROVE  SealInv'
  <2>1. /\ answer' \in [SealCalls -> SealAnswers] /\ answer'[c] = new
        /\ \A d \in SealCalls \ {c} : answer'[d] = answer[d]
    BY <1>0, <1>3 DEF SealTypes
  <2>2. SealTypes' /\ Apart(c)
    BY <1>0, <1>1, <1>3, <2>1 DEF SealTypes, Apart
  <2>3. SealFits(c, ipc'[c], answer'[c], conn'[c], lineage, seals)
    <3>1. ipc[c].outcome \notin {"LINEAGE_REVOKED", "SESSION_REQUIRED",
                                 "IPC_CONNECT", "refused", "toolarge"}
      BY <1>0 DEF SealFits, NoAnswer
    <3> QED
      BY <1>0, <1>1, <1>3, <2>1, <3>1 DEF SealFits
  <2> QED
    BY <1>3, <2>2, <2>3, OneCall
<1>4. ASSUME DaemonAnswers(c), lineage # "usable" PROVE SealInv'
  <2> DEFINE code == IF lineage = "revoked" THEN "LINEAGE_REVOKED" ELSE "SESSION_REQUIRED"
             new  == [ok |-> "error", envelope |-> 0, code |-> code]
  <2>1. /\ answer' = [answer EXCEPT ![c] = new]
        /\ UNCHANGED <<lineage, seals, ipc, thread, nuisances>>
    BY <1>4 DEF DaemonAnswers
  <2>2. /\ code \in {"LINEAGE_REVOKED", "SESSION_REQUIRED"}
        /\ code = "LINEAGE_REVOKED" => lineage = "revoked"
    OBVIOUS
  <2> HIDE DEF code
  <2>3. /\ new \in SealAnswers /\ new.ok = "error" /\ new.envelope = 0 /\ new.code = code
        /\ new.code # "none"
    BY <2>2 DEF SealAnswers
  <2> HIDE DEF new
  <2>4. nuisances' \in 0 .. MaxNuisances
    BY <1>0, <2>1 DEF SealTypes
  <2> QED
    BY <1>3, <2>1, <2>2, <2>3, <2>4
<1>5. ASSUME DaemonAnswersNonsense(c) PROVE SealInv'
  <2>1. nuisances' \in 0 .. MaxNuisances /\ UNCHANGED <<lineage, seals, ipc, thread>>
    BY <1>0, <1>5, SealLimits DEF DaemonAnswersNonsense, SealTypes
  <2>2. PICK ok \in {"badlength", "sealed", "other"} :
            answer' = [answer EXCEPT ![c] = [NoAnswer EXCEPT !.ok = ok]]
    BY <1>5 DEF DaemonAnswersNonsense
  <2> DEFINE new == [NoAnswer EXCEPT !.ok = ok]
  <2>3. /\ new \in SealAnswers /\ new.ok # "error" /\ new.envelope = 0 /\ new.code = "none"
    BY DEF SealAnswers, NoAnswer
  <2>4. answer' = [answer EXCEPT ![c] = new]
    BY <2>2
  <2> HIDE DEF new
  <2> QED
    BY <1>3, <2>1, <2>3, <2>4
<1> QED
  BY <1>2, <1>4, <1>5

\* The steps that concern every call at once.
LEMMA SharedSteps ==
    ASSUME SealInv, DaemonGoesDown \/ LineageChanges \/ SealTick \/ UNCHANGED sealVars
    PROVE  SealInv'
<1>0. /\ SealTypes
      /\ \A c \in SealCalls : /\ SealFits(c, ipc[c], answer[c], conn[c], lineage, seals)
                              /\ ipc[c] \in Ipcs /\ conn[c] \in Conns
                              /\ ipc[c].left \in 0 .. IpcTimeout /\ ipc[c].spent \in Nat
  BY DEF SealInv, SealTypes, Ipcs
<1>1. ASSUME DaemonGoesDown PROVE SealInv'
  <2>1. /\ conn' = [c \in SealCalls |-> IF conn[c] = "none" THEN "none" ELSE "closed"]
        /\ UNCHANGED <<lineage, seals, ipc, thread, answer>> /\ nuisances' \in 0 .. MaxNuisances
    BY <1>0, <1>1, SealLimits DEF DaemonGoesDown, SealTypes
  <2>2. SealTypes'
    BY <1>0, <2>1 DEF SealTypes, Conns
  <2>3. ASSUME NEW c \in SealCalls
        PROVE  SealFits(c, ipc'[c], answer'[c], conn'[c], lineage', seals')
    <3>1. conn'[c] = IF conn[c] = "none" THEN "none" ELSE "closed"
      BY <2>1
    <3> QED
      BY <1>0, <2>1, <3>1 DEF SealFits
  <2> QED
    BY <2>2, <2>3 DEF SealInv, SealFits
<1>2. ASSUME LineageChanges PROVE SealInv'
  <2>1. /\ lineage' \in {"usable", "revoked"} /\ lineage # "revoked"
        /\ UNCHANGED <<seals, ipc, thread, conn, answer, nuisances>>
    BY <1>0, <1>2 DEF LineageChanges, SealTypes
  <2>2. SealTypes'
    BY <1>0, <2>1 DEF SealTypes
  <2>3. ASSUME NEW c \in SealCalls
        PROVE  SealFits(c, ipc'[c], answer'[c], conn'[c], lineage', seals')
    BY <1>0, <2>1 DEF SealFits
  <2> QED
    BY <2>2, <2>3 DEF SealInv, SealFits
<1>3. ASSUME SealTick PROVE SealInv'
  <2> DEFINE ticked(c) == [ipc[c] EXCEPT !.left = @ - 1, !.spent = @ + 1]
  <2>1. /\ ipc' = [c \in SealCalls |-> IF ipc[c].at \in Waiting THEN ticked(c) ELSE ipc[c]]
        /\ UNCHANGED <<lineage, seals, thread, conn, answer, nuisances>>
        /\ \A c \in SealCalls : ipc[c].at \in Waiting => ipc[c].left > 0
    BY <1>3 DEF SealTick
  <2>2. ASSUME NEW c \in SealCalls, ipc[c].at \in Waiting
        PROVE  /\ ticked(c) \in Ipcs /\ ticked(c).at = ipc[c].at
               /\ ticked(c).outcome = ipc[c].outcome /\ ticked(c).envelope = ipc[c].envelope
               /\ ticked(c).left = ipc[c].left - 1 /\ ticked(c).spent = ipc[c].spent + 1
    <3>1. ipc[c] \in Ipcs /\ ipc[c].left \in 0 .. IpcTimeout /\ ipc[c].spent \in Nat
      BY <1>0
    <3>2. ipc[c].left > 0
      BY <2>1, <2>2
    <3>3. ipc[c].left - 1 \in 0 .. IpcTimeout /\ ipc[c].spent + 1 \in Nat
      BY <3>1, <3>2, SealLimits
    <3> QED
      BY <3>1, <3>3 DEF Ipcs
  <2> HIDE DEF ticked
  <2>3. ASSUME NEW c \in SealCalls
        PROVE  /\ ipc'[c] \in Ipcs /\ ipc'[c].at = ipc[c].at
               /\ ipc'[c].outcome = ipc[c].outcome /\ ipc'[c].envelope = ipc[c].envelope
               /\ ipc'[c].spent + ipc'[c].left = ipc[c].spent + ipc[c].left
    <3>1. CASE ipc[c].at \in Waiting
      <4>1. ipc'[c] = ticked(c)
        BY <2>1, <3>1
      <4>2. (ipc[c].spent + 1) + (ipc[c].left - 1) = ipc[c].spent + ipc[c].left
        BY <1>0
      <4> QED
        BY <2>2, <3>1, <4>1, <4>2
    <3>2. CASE ipc[c].at \notin Waiting
      <4>1. ipc'[c] = ipc[c]
        BY <2>1, <3>2
      <4> QED
        BY <1>0, <4>1
    <3> QED
      BY <3>1, <3>2
  <2>4. SealTypes'
    BY <1>0, <2>1, <2>3 DEF SealTypes
  <2>5. ASSUME NEW c \in SealCalls
        PROVE  SealFits(c, ipc'[c], answer'[c], conn'[c], lineage', seals')
    <3>1. SealFits(c, ipc[c], answer[c], conn[c], lineage, seals)
      BY <1>0
    <3> QED
      BY <2>1, <2>3, <3>1 DEF SealFits
  <2> QED
    BY <2>4, <2>5 DEF SealInv, SealFits
<1>4. ASSUME UNCHANGED sealVars PROVE SealInv'
  <2>1. /\ lineage' = lineage /\ seals' = seals /\ ipc' = ipc /\ thread' = thread
        /\ conn' = conn /\ answer' = answer /\ nuisances' = nuisances
    BY <1>4 DEF sealVars
  <2>2. SealTypes'
    BY <1>0, <2>1 DEF SealTypes
  <2>3. \A c \in SealCalls : SealFits(c, ipc'[c], answer'[c], conn'[c], lineage', seals')
    BY <1>0, <2>1
  <2> QED
    BY <2>2, <2>3 DEF SealInv, SealFits
<1> QED
  BY <1>1, <1>2, <1>3, <1>4

\* A caller is given an envelope only if the daemon sealed it for its own request,
\* an outcome that says nothing was sealed is true for good, and a call over a pipe
\* is over in time.
THEOREM SealsAreOwned ==
    SealSpec => [](SealTypeOK /\ SealSound)
<1>1. SealInit => SealInv
  BY SealStarts
<1>2. SealInv /\ [SealNext]_sealVars => SealInv'
  BY RequestSteps, ReplySteps, DaemonSteps, SharedSteps DEF SealNext
<1>3. SealInv => SealTypeOK /\ SealSound
  <2> SUFFICES ASSUME SealInv PROVE SealTypeOK /\ SealSound
    OBVIOUS
  <2>1. ToSet(seals) \subseteq SealCalls /\ nuisances \in 0 .. MaxNuisances
    BY DEF SealInv, SealTypes, ToSet
  <2>2. ASSUME NEW c \in SealCalls
        PROVE  ipc[c].left \in 0 .. IpcTimeout /\ ipc[c].attempts < PipeAttempts
    BY SealLimits DEF SealInv, SealTypes, Ipcs
  <2>3. ASSUME NEW c \in SealCalls
        PROVE  /\ ipc[c].outcome = "sealed" => seals[ipc[c].envelope] = c
               /\ ipc[c].outcome = "LINEAGE_REVOKED" => lineage = "revoked"
               /\ ipc[c].outcome = "SESSION_REQUIRED" => answer[c].code = "SESSION_REQUIRED"
               /\ ipc[c].outcome \in {"IPC_CONNECT", "refused", "toolarge", "LINEAGE_REVOKED",
                                      "SESSION_REQUIRED"} => c \notin ToSet(seals)
               /\ Transport[c] = "pipe" => ipc[c].spent <= IpcTimeout
    <3>1. ipc[c] \in Ipcs /\ SealFits(c, ipc[c], answer[c], conn[c], lineage, seals)
      BY DEF SealInv, SealTypes
    <3>2. ipc[c].left \in 0 .. IpcTimeout /\ ipc[c].spent \in Nat
      BY <3>1 DEF Ipcs
    <3> QED
      BY <3>1, <3>2, SealLimits DEF SealFits
  <2> QED
    BY <2>1, <2>2, <2>3 DEF SealTypeOK, SealSound
<1> QED
  BY <1>1, <1>2, <1>3, PTL DEF SealSpec

-----------------------------------------------------------------------------
\* The events of a node: what a scan reports while files change under it.  After
\* the types the invariant has three parts.  HadNow keeps account of contents;
\* OpenFile ties the bytes read to the count of writes at the moment the name was
\* last seen to lead to the open file; and ScanComplete says where exactly a scan
\* is that nothing disturbs and no limit stops.

ScanStages == {"idle", "dirs", "names", "open", "before", "read", "after", "path", "done"}
FileStages == {"open", "before", "read", "after", "path"}
OpenStages == FileStages \ {"open"}
Metas      == [inode : Nat, size : Nat, writes : Nat]
LogFiles   == [data : Seq(Nat), writes : Nat]

\* The records of a scan, whatever its report is.
EventScans(events) ==
    [at : ScanStages, limit : Nat, base : Nat, dirs : SUBSET (LogDirs \cup Strays), dir : Nat,
     dirId : Nat, must : SUBSET LogNames, seen : SUBSET LogNames, entries : 0 .. MaxScanEntries,
     files : 0 .. MaxScanFiles, size : 0 .. MaxScanSize, name : Nat, fd : Nat,
     expected : Metas \cup {0}, opened : Metas \cup {0}, data : Seq(Nat),
     accepted : SUBSET [name : EventNames, data : Seq(Nat)], events : {events}]

EventTyped ==
    /\ inodes \in Seq(LogFiles)
    /\ DOMAIN logs \subseteq LogNames /\ IsFiniteSet(DOMAIN logs)
    /\ logs \in [DOMAIN logs -> DOMAIN inodes]
    /\ dirIds \in [LogDirs \cup {0} -> Nat]
    /\ scan \in EventScans(scan.events)
    /\ had = [f \in EventNames |-> had[f]]
    /\ quiet \in BOOLEAN /\ edits \in Nat
    /\ scan.at # "idle" => scan.limit >= 1
    /\ scan.at \in FileStages => /\ scan.name \in EventNames
                                 /\ scan.expected \in Metas
                                 /\ scan.expected.inode \in DOMAIN inodes
    /\ scan.at \in OpenStages => /\ scan.fd \in DOMAIN inodes
                                 /\ scan.opened \in Metas
    /\ scan.at = "read" => Len(scan.data) <= MaxScanSize - scan.size

\* Every content that the file under a name has is among those it has had.
HadNow == scan.at # "idle" => \A f \in DOMAIN logs \cap EventNames : Data(f) \in had[f]

\* The file that is open, while nobody has written it since.
AsOpened == /\ inodes[scan.fd].data \in had[scan.name]
            /\ Len(scan.data) <= Len(inodes[scan.fd].data)
            /\ \A i \in 1 .. Len(scan.data) : scan.data[i] = inodes[scan.fd].data[i]

\* What is known of a file between the looks at it.
OpenFile ==
    /\ scan.at \in FileStages => scan.expected.writes <= inodes[scan.expected.inode].writes
    /\ scan.at \in OpenStages => /\ scan.opened.inode = scan.fd
                                 /\ scan.opened.writes <= inodes[scan.fd].writes
    /\ scan.at = "before" /\ scan.expected.inode = scan.fd
          => scan.expected.writes <= scan.opened.writes
    /\ scan.at \in {"read", "after"} => 
          /\ scan.opened = scan.expected 
          /\ inodes[scan.fd].writes = scan.opened.writes => AsOpened
    /\ scan.at = "path" => scan.data \in had[scan.name]
    /\ \A r \in scan.accepted : r.data \in had[r.name]

\* Names the scan has come to, those of them it has yet to read and to report, and
\* what it reports of some names.
Passed == {f \in DOMAIN logs : /\ LogDir[f] \in scan.dirs
                               /\ LogDir[f] = scan.dir => f \in scan.seen}
Unread  == IF scan.at \in {"open", "before", "read"} THEN {scan.name} ELSE {}
Pending == IF scan.at \in FileStages THEN {scan.name} ELSE {}
Lengths == [f \in DOMAIN logs |-> Len(Data(f))]
Reported(S) == {[name |-> f, data |-> Data(f)] : f \in {e \in S \cap EventNames : IsEvent(Data(e))}}

\* All that was passed is counted, read and, if it is an event, accepted.
ScanExact ==
    /\ scan.base = dirIds[0]
    /\ scan.at # "dirs" => /\ scan.dir \in scan.dirs \cap LogDirs
                           /\ scan.dirId = dirIds[scan.dir]
    /\ scan.must = {f \in DOMAIN logs : LogDir[f] = scan.dir}
    /\ scan.seen \subseteq scan.must
    /\ scan.at = "dirs" => scan.seen = scan.must
    /\ scan.entries = Cardinality(scan.dirs) + Cardinality(Passed)
    /\ scan.files = Cardinality(Passed \cap EventNames)
    /\ scan.size = SumFunctionOnSet(Lengths, (Passed \cap EventNames) \ Unread)
    /\ scan.accepted = Reported(Passed \ Pending)
    /\ scan.at \in FileStages => /\ scan.name \in scan.seen
                                 /\ scan.expected = Meta(logs[scan.name])
    /\ scan.at \in OpenStages => /\ scan.fd = logs[scan.name]
                                 /\ scan.opened = scan.expected
    /\ scan.at = "read" => /\ Len(scan.data) <= Len(Data(scan.name))
                           /\ \A i \in 1 .. Len(scan.data) : scan.data[i] = Data(scan.name)[i]
    /\ scan.at \in {"after", "path"} => scan.data = Data(scan.name)

ScanDone == scan.accepted = Reported(DOMAIN logs) /\ scan.events = Sorted(scan.accepted)

ScanComplete ==
    quiet /\ ScanFits =>
      /\ scan.at \notin {"idle", "done"} => ScanExact
      /\ scan.at = "done" => ScanDone

-----------------------------------------------------------------------------
\* The order of the report.

LEMMA LesserOfTwo ==
    ASSUME NEW a \in Int, NEW b \in Int
    PROVE  Min({a, b}) = IF a <= b THEN a ELSE b
BY DEF Min

LEMMA GreaterOfTwo ==
    ASSUME NEW a \in Int, NEW b \in Int
    PROVE  Max({a, b}) = IF a >= b THEN a ELSE b
BY DEF Max

\* Entries with a version, at most one of a name.
EventRows(S) == /\ IsFiniteSet(S)
                /\ \A r \in S : r.name \in LogNames /\ r.data[1] \in Nat
                /\ \A r, s \in S : r.name = s.name => r = s
Rank(S, r) == Cardinality({s \in S : Later(s, r)})

LEMMA LaterIsTotal ==
    ASSUME NEW S, EventRows(S)
    PROVE  /\ \A r \in S : ~ Later(r, r)
           /\ \A r, s \in S : r # s => Later(r, s) \/ Later(s, r)
           /\ \A r, s, t \in S : Later(r, s) /\ Later(s, t) => Later(r, t)
<1>1. \A r \in S : r.name \in Nat /\ LogDir[r.name] \in Nat /\ r.data[1] \in Nat
  BY EventConstants DEF EventRows, LogNames
<1>2. \A r, s \in S : r.name = s.name => r = s
  BY DEF EventRows
<1>3. \A r \in S : ~ Later(r, r)
  BY <1>1 DEF Later
<1>4. \A r, s \in S : r # s => Later(r, s) \/ Later(s, r)
  BY <1>1, <1>2 DEF Later
<1>5. \A r, s, t \in S : Later(r, s) /\ Later(s, t) => Later(r, t)
  BY <1>1 DEF Later
<1> QED
  BY <1>3, <1>4, <1>5

LEMMA RanksGrow ==
    ASSUME NEW S, EventRows(S), NEW r \in S, NEW s \in S, Later(r, s)
    PROVE  Rank(S, r) \in Nat /\ Rank(S, s) \in Nat /\ Rank(S, r) < Rank(S, s)
<1> DEFINE A == {t \in S : Later(t, r)}
           B == {t \in S : Later(t, s)}
<1>1. A \subseteq B /\ r \in B /\ r \notin A
  BY LaterIsTotal
<1>2. IsFiniteSet(A) /\ IsFiniteSet(B)
  BY FS_Subset, A \in SUBSET S, B \in SUBSET S DEF EventRows
<1>3. Cardinality(A) \in Nat /\ Cardinality(B) \in Nat
  BY <1>2, FS_CardinalityType
<1>4. /\ Cardinality(A) <= Cardinality(B)
      /\ Cardinality(B) = Cardinality(A) => B = A
  BY <1>1, <1>2, FS_Subset, A \in SUBSET B
<1>5. A # B
  BY <1>1
<1>6. Rank(S, r) = Cardinality(A) /\ Rank(S, s) = Cardinality(B)
  BY DEF Rank
<1> HIDE DEF A, B
<1> QED
  BY <1>3, <1>4, <1>5, <1>6

\* Every place is taken by one entry.
LEMMA RanksAreAll ==
    ASSUME NEW S, EventRows(S)
    PROVE  /\ Cardinality(S) \in Nat
           /\ \A r \in S : Rank(S, r) \in 0 .. Cardinality(S) - 1
           /\ \A r, s \in S : Rank(S, r) = Rank(S, s) => r = s
           /\ \A i \in 1 .. Cardinality(S) : \E r \in S : Rank(S, r) = i - 1
<1> DEFINE n == Cardinality(S)
           T == 0 .. n - 1
           g == [r \in S |-> Rank(S, r)]
<1>1. IsFiniteSet(S) /\ n \in Nat
  BY FS_CardinalityType DEF EventRows
<1>2. ASSUME NEW r \in S
      PROVE  Rank(S, r) \in T
  <2> DEFINE A == {t \in S : Later(t, r)}
  <2>1. A \in SUBSET S /\ r \notin A
    BY LaterIsTotal
  <2>2. IsFiniteSet(A)
    BY <1>1, <2>1, FS_Subset
  <2>3. Cardinality(A) \in Nat
    BY <2>2, FS_CardinalityType
  <2>4. Cardinality(A) <= n /\ (n = Cardinality(A) => S = A)
    BY <1>1, <2>1, FS_Subset
  <2>5. Rank(S, r) = Cardinality(A) /\ S # A
    BY <2>1 DEF Rank
  <2> HIDE DEF A, n
  <2> QED
    BY <1>1, <2>3, <2>4, <2>5
<1>3. \A r, s \in S : Rank(S, r) = Rank(S, s) => r = s
  <2> SUFFICES ASSUME NEW r \in S, NEW s \in S, Rank(S, r) = Rank(S, s), r # s PROVE FALSE
    OBVIOUS
  <2>1. Later(r, s) \/ Later(s, r)
    BY LaterIsTotal
  <2> QED
    BY <2>1, RanksGrow
<1>4. IsFiniteSet(T) /\ Cardinality(T) = n
  <2>1. IsFiniteSet(0 .. n - 1) /\ Cardinality(0 .. n - 1) = IF 0 > n - 1 THEN 0 ELSE n - 1 - 0 + 1
    <3> HIDE DEF n
    <3> QED
      BY <1>1, FS_Interval
  <2> QED
    BY <1>1, <2>1
<1>5. g \in Injection(S, T)
  BY <1>2, <1>3 DEF Injection, IsInjective
<1>6. g \in Surjection(S, T)
  <2> HIDE DEF g, T, n
  <2> QED
    BY <1>4, <1>5, FS_Injection DEF n
<1>7. ASSUME NEW i \in 1 .. n
      PROVE  \E r \in S : Rank(S, r) = i - 1
  <2>1. i - 1 \in T
    BY <1>1
  <2> QED
    BY <1>6, <2>1 DEF Surjection
<1> QED
  BY <1>1, <1>2, <1>3, <1>7

LEMMA SortedFacts ==
    ASSUME NEW S, EventRows(S), scan.limit \in Nat
    PROVE  /\ Range(Sorted(S)) \subseteq S
           /\ Len(Sorted(S)) = Min({scan.limit, Cardinality(S)})
           /\ \A r \in Range(Sorted(S)), s \in S \ Range(Sorted(S)) : Later(r, s)
<1> DEFINE n == Min({scan.limit, Cardinality(S)})
           e == Sorted(S)
<1>1. Cardinality(S) \in Nat
  BY RanksAreAll
<1>2. n \in Nat /\ n <= Cardinality(S)
  BY <1>1, LesserOfTwo
<1>3. e = [i \in 1 .. n |-> CHOOSE r \in S : Rank(S, r) = i - 1]
  BY DEF Sorted, Rank
<1> HIDE DEF e, n
<1>4. DOMAIN e = 1 .. n /\ Len(e) = n
  BY <1>2, <1>3
<1>5. \A i \in 1 .. n : e[i] \in S /\ Rank(S, e[i]) = i - 1
  <2> TAKE i \in 1 .. n
  <2>1. \E r \in S : Rank(S, r) = i - 1
    BY <1>1, <1>2, RanksAreAll
  <2>2. e[i] = CHOOSE r \in S : Rank(S, r) = i - 1
    BY <1>3
  <2> QED
    BY <2>1, <2>2
<1>6. Range(e) = {e[i] : i \in 1 .. n}
  BY <1>4 DEF Range
<1>7. ASSUME NEW i \in 1 .. n, NEW s \in S \ Range(e)
      PROVE  Later(e[i], s)
  <2>1. Rank(S, s) \in 0 .. Cardinality(S) - 1
    BY RanksAreAll
  <2>2. ~ (Rank(S, s) < n)
    <3> SUFFICES ASSUME Rank(S, s) < n PROVE FALSE
      OBVIOUS
    <3> DEFINE k == Rank(S, s) + 1
    <3>1. k \in 1 .. n /\ k - 1 = Rank(S, s)
      BY <1>2, <2>1
    <3>2. e[k] \in S /\ Rank(S, e[k]) = Rank(S, s)
      BY <1>5, <3>1
    <3>3. e[k] = s
      BY <3>2, RanksAreAll
    <3> QED
      BY <1>6, <3>1, <3>3
  <2>3. e[i] \in S /\ Rank(S, e[i]) = i - 1
    BY <1>5
  <2>4. Rank(S, e[i]) < Rank(S, s)
    BY <1>1, <1>2, <2>1, <2>2, <2>3
  <2>5. e[i] # s
    BY <1>6
  <2>6. Later(e[i], s) \/ Later(s, e[i])
    BY <2>3, <2>5, LaterIsTotal
  <2>7. ~ Later(s, e[i])
    BY <2>1, <2>3, <2>4, RanksGrow
  <2> QED
    BY <2>6, <2>7
<1> QED
  BY <1>4, <1>5, <1>6, <1>7 DEF e, n


-----------------------------------------------------------------------------
\* The first state.

LEMMA FilesAtFirst ==
    EventInit => /\ inodes \in Seq(LogFiles)
                 /\ DOMAIN logs = FirstNames
                 /\ logs \in [FirstNames -> DOMAIN inodes]
<1> SUFFICES ASSUME EventInit PROVE /\ inodes \in Seq(LogFiles)
                                    /\ DOMAIN logs = FirstNames
                                    /\ logs \in [FirstNames -> DOMAIN inodes]
  OBVIOUS
<1> DEFINE n == Cardinality(FirstNames)
<1>1. n \in Nat /\ ExistsBijection(1 .. n, FirstNames)
  BY FS_CardinalityType, EventConstants
<1>2. Whole(1) \in Seq(Nat)
  <2>1. EventPieces \in Nat
    BY EventConstants
  <2>2. Whole(1) = [i \in 1 .. EventPieces |-> 1]
    BY DEF Whole
  <2>3. [i \in 1 .. EventPieces |-> 1] \in [1 .. EventPieces -> Nat]
    OBVIOUS
  <2> QED
    BY <2>1, <2>2, <2>3
<1>3. inodes = [i \in 1 .. n |-> [data |-> Whole(1), writes |-> 0]]
  BY DEF EventInit
<1>4. inodes \in Seq(LogFiles) /\ DOMAIN inodes = 1 .. n
  <2> HIDE DEF n
  <2> DEFINE r == [data |-> Whole(1), writes |-> 0]
  <2>1. r \in LogFiles
    BY <1>2 DEF LogFiles
  <2> HIDE DEF r
  <2>2. inodes = [i \in 1 .. n |-> r]
    BY <1>3 DEF r
  <2>3. inodes \in [1 .. n -> LogFiles]
    BY <2>1, <2>2
  <2> QED
    BY <1>1, <2>2, <2>3
<1>5. ExistsBijection(FirstNames, 1 .. n)
  <2>1. IsFiniteSet(1 .. n) /\ Cardinality(1 .. n) = IF 1 > n THEN 0 ELSE n - 1 + 1
    <3> HIDE DEF n
    <3> QED
      BY <1>1, FS_Interval
  <2>2. Cardinality(1 .. n) = n
    BY <1>1, <2>1
  <2> QED
    BY <2>1, <2>2, EventConstants, FS_SameCardinalityBij
<1>6. \E l \in [FirstNames -> DOMAIN inodes] : IsInjective(l)
  BY <1>4, <1>5 DEF ExistsBijection, Bijection, Injection
<1>7. logs \in [FirstNames -> DOMAIN inodes]
  BY <1>6 DEF EventInit
<1> QED
  BY <1>4, <1>7

LEMMA EventsTypedAtFirst == EventInit => EventTyped
<1> SUFFICES ASSUME EventInit PROVE EventTyped
  OBVIOUS
<1>1. /\ inodes \in Seq(LogFiles)
      /\ DOMAIN logs = FirstNames
      /\ logs \in [FirstNames -> DOMAIN inodes]
  BY FilesAtFirst
<1>2. DOMAIN logs \subseteq LogNames /\ IsFiniteSet(DOMAIN logs)
  BY <1>1, EventConstants DEF LogNames
<1>3. dirIds \in [LogDirs \cup {0} -> Nat]
  BY DEF EventInit
<1>4. scan = Asleep /\ scan.at = "idle" /\ scan.events = <<>>
  BY DEF EventInit, Asleep
<1>5. Asleep \in EventScans(<<>>)
  <2>1. <<>> \in Seq(Nat)
    BY EmptySeq
  <2>2. MaxScanEntries \in Nat /\ MaxScanFiles \in Nat /\ MaxScanSize \in Nat
    BY EventConstants
  <2> QED
    BY <2>1, <2>2 DEF Asleep, EventScans, ScanStages
<1>6. quiet \in BOOLEAN /\ edits \in Nat /\ had = [f \in EventNames |-> had[f]]
  BY DEF EventInit
<1> QED
  BY <1>1, <1>2, <1>3, <1>4, <1>5, <1>6 DEF EventTyped, FileStages, OpenStages


-----------------------------------------------------------------------------
\* The files change.

\* Inodes stay, and what is written to one is counted.
InodesKept == \A i \in DOMAIN inodes : /\ i \in DOMAIN inodes'
                                       /\ inodes[i].writes <= inodes'[i].writes
                                       /\ inodes'[i].writes = inodes[i].writes => inodes'[i] = inodes[i]

LEMMA InodeTypes ==
    ASSUME EventTyped
    PROVE  /\ Len(inodes) \in Nat /\ DOMAIN inodes = 1 .. Len(inodes)
           /\ \A i \in DOMAIN inodes : /\ inodes[i] \in LogFiles
                                       /\ inodes[i].data \in Seq(Nat)
                                       /\ Len(inodes[i].data) \in Nat
                                       /\ inodes[i].writes \in Nat
           /\ \A f \in DOMAIN logs : logs[f] \in DOMAIN inodes
<1>1. inodes \in Seq(LogFiles)
  BY DEF EventTyped
<1>2. \A i \in 1 .. Len(inodes) : inodes[i] \in LogFiles
  BY <1>1, ElementOfSeq
<1>3. Len(inodes) \in Nat /\ DOMAIN inodes = 1 .. Len(inodes)
  BY <1>1
<1>4. \A r \in LogFiles : r.data \in Seq(Nat) /\ Len(r.data) \in Nat /\ r.writes \in Nat
  BY DEF LogFiles
<1> QED
  BY <1>2, <1>3, <1>4 DEF EventTyped

LEMMA Edited ==
    ASSUME EventTyped, EventTyped',
           InodesKept, Edit, HadNow, OpenFile, ScanComplete
    PROVE  HadNow' /\ OpenFile' /\ ScanComplete'
<1>1. scan' = scan
  BY DEF Edit
<1>2. scan.at = "idle" \/ (scan.at # "idle" /\ quiet' = FALSE)
  BY DEF Edit
<1>3. ScanComplete'
  BY <1>1, <1>2 DEF ScanComplete
<1>4. HadNow'
  <2> SUFFICES ASSUME scan.at # "idle", NEW f \in DOMAIN logs' \cap EventNames
               PROVE  Data(f)' \in had'[f]
    BY <1>1 DEF HadNow
  <2>1. had'[f] = had[f] \cup {inodes'[logs'[g]].data : g \in DOMAIN logs' \cap {f}}
    BY DEF Edit
  <2> QED
    BY <2>1 DEF Data
<1>5. \A f \in EventNames : scan.at # "idle" => had[f] \subseteq had'[f]
  BY DEF Edit
<1>6. OpenFile'
  <2>1. \A i \in DOMAIN inodes : inodes[i].writes \in Nat /\ inodes'[i].writes \in Nat
    <3>1. \A i \in DOMAIN inodes : inodes[i].writes \in Nat
      BY InodeTypes
    <3>2. \A i \in DOMAIN inodes' : inodes'[i].writes \in Nat
      <4>1. inodes' \in Seq(LogFiles)
        BY DEF EventTyped
      <4>2. \A i \in DOMAIN inodes' : inodes'[i] \in LogFiles
        BY <4>1, ElementOfSeq
      <4> QED
        BY <4>2 DEF LogFiles
    <3> QED
      BY <3>1, <3>2 DEF InodesKept
  <2>2. ASSUME scan.at \in FileStages
        PROVE  scan.expected.writes <= inodes'[scan.expected.inode].writes
    <3>1. scan.expected.inode \in DOMAIN inodes /\ scan.expected.writes \in Nat
      BY <2>2 DEF EventTyped, Metas
    <3>2. scan.expected.writes <= inodes[scan.expected.inode].writes
      BY <2>2 DEF OpenFile
    <3> QED
      BY <2>1, <3>1, <3>2 DEF InodesKept
  <2>3. ASSUME scan.at \in OpenStages
        PROVE  /\ scan.opened.inode = scan.fd
               /\ scan.opened.writes <= inodes'[scan.fd].writes
    <3>1. scan.fd \in DOMAIN inodes /\ scan.opened.writes \in Nat
      BY <2>3 DEF EventTyped, Metas
    <3>2. scan.opened.inode = scan.fd /\ scan.opened.writes <= inodes[scan.fd].writes
      BY <2>3 DEF OpenFile
    <3> QED
      BY <2>1, <3>1, <3>2 DEF InodesKept
  <2>4. ASSUME scan.at \in {"read", "after"}, inodes'[scan.fd].writes = scan.opened.writes
        PROVE  AsOpened'
    <3>1. scan.fd \in DOMAIN inodes /\ scan.opened.writes \in Nat /\ scan.name \in EventNames
      BY <2>4 DEF EventTyped, Metas, OpenStages, FileStages
    <3>2. scan.opened.writes <= inodes[scan.fd].writes
      BY <2>4 DEF OpenFile, OpenStages, FileStages
    <3>3. inodes[scan.fd].writes = scan.opened.writes /\ inodes'[scan.fd] = inodes[scan.fd]
      BY <2>1, <2>4, <3>1, <3>2 DEF InodesKept
    <3>4. AsOpened
      BY <2>4, <3>3 DEF OpenFile
    <3>5. had[scan.name] \subseteq had'[scan.name]
      BY <1>5, <2>4, <3>1
    <3> QED
      BY <1>1, <3>3, <3>4, <3>5 DEF AsOpened
  <2>5. ASSUME scan.at = "path"
        PROVE  scan.data \in had'[scan.name]
    <3>1. scan.data \in had[scan.name] /\ scan.name \in EventNames
      BY <2>5 DEF OpenFile, EventTyped, FileStages
    <3> QED
      BY <1>5, <2>5, <3>1
  <2>6. ASSUME NEW r \in scan.accepted
        PROVE  r.data \in had'[r.name]
    <3>1. r.data \in had[r.name]
      BY <2>6 DEF OpenFile
    <3>2. r.name \in EventNames
      BY <2>6 DEF EventTyped, EventScans
    <3>3. had[r.name] \subseteq had'[r.name]
      <4>1. CASE scan.at = "idle"
        BY <3>2, <4>1 DEF Edit
      <4>2. CASE scan.at # "idle"
        BY <1>5, <3>2, <4>2
      <4> QED
        BY <4>1, <4>2
    <3> QED
      BY <3>1, <3>3
  <2>7. /\ scan.at = "before" /\ scan.expected.inode = scan.fd
              => scan.expected.writes <= scan.opened.writes
        /\ scan.at \in {"read", "after"} => scan.opened = scan.expected
    BY DEF OpenFile
  <2> QED
    BY <1>1, <2>2, <2>3, <2>4, <2>5, <2>6, <2>7 DEF OpenFile
<1> QED
  BY <1>3, <1>4, <1>6


LEMMA WholeIsContent ==
    ASSUME NEW v \in Nat
    PROVE  Whole(v) \in Seq(Nat)
<1>1. EventPieces \in Nat
  BY EventConstants
<1> QED
  BY <1>1 DEF Whole

\* What an edit leaves as it is for the types.
LEMMA TypedAfterEdit ==
    ASSUME EventTyped, Edit, InodesKept,
           inodes' \in Seq(LogFiles),
           DOMAIN logs' \subseteq LogNames, IsFiniteSet(DOMAIN logs'),
           logs' \in [DOMAIN logs' -> DOMAIN inodes'],
           dirIds' \in [LogDirs \cup {0} -> Nat]
    PROVE  EventTyped'
<1>1. scan' = scan
  BY DEF Edit
<1>2. had' = [f \in EventNames |-> had'[f]] /\ quiet' \in BOOLEAN
  <2>1. CASE scan.at = "idle"
    BY <2>1 DEF Edit, EventTyped
  <2>2. CASE scan.at # "idle"
    BY <2>2 DEF Edit
  <2> QED
    BY <2>1, <2>2
<1>4. edits' \in Nat
  BY DEF Edit, EventTyped
<1>3. \A i \in DOMAIN inodes : i \in DOMAIN inodes'
  BY DEF InodesKept
<1> QED
  BY <1>1, <1>2, <1>3, <1>4 DEF EventTyped

LEMMA AppearsTyped ==
    ASSUME EventTyped, NEW f \in LogNames, Appears(f)
    PROVE  EventTyped' /\ InodesKept
<1>1. PICK data \in {Whole(0), Whole(2), <<>>} : inodes' = Append(inodes, [data |-> data, writes |-> 0])
  BY DEF Appears
<1>2. data \in Seq(Nat)
  BY <1>1, WholeIsContent, EmptySeq
<1> DEFINE r == [data |-> data, writes |-> 0]
<1>3. r \in LogFiles
  BY <1>2 DEF LogFiles
<1> HIDE DEF r
<1>4. inodes \in Seq(LogFiles) /\ inodes' = Append(inodes, r)
  BY <1>1 DEF EventTyped, r
<1>5. /\ Len(inodes) \in Nat /\ DOMAIN inodes = 1 .. Len(inodes)
      /\ \A i \in DOMAIN inodes : inodes[i].writes \in Nat
      /\ \A g \in DOMAIN logs : logs[g] \in DOMAIN inodes
  BY InodeTypes
<1>6. /\ inodes' \in Seq(LogFiles)
      /\ DOMAIN inodes' = 1 .. Len(inodes) + 1
      /\ \A i \in DOMAIN inodes : inodes'[i] = inodes[i]
  BY <1>3, <1>4, <1>5
<1>7. InodesKept
  BY <1>5, <1>6 DEF InodesKept
<1>8. logs' = [n \in DOMAIN logs \cup {f} |-> IF n = f THEN Len(inodes) + 1 ELSE logs[n]]
  BY DEF Appears
<1>9. DOMAIN logs' = DOMAIN logs \cup {f} /\ logs' \in [DOMAIN logs' -> DOMAIN inodes']
  BY <1>5, <1>6, <1>8
<1>10. DOMAIN logs' \subseteq LogNames /\ IsFiniteSet(DOMAIN logs')
  BY <1>9, FS_AddElement DEF EventTyped
<1>11. Edit /\ dirIds' \in [LogDirs \cup {0} -> Nat]
  BY DEF Appears, EventTyped
<1> QED
  BY <1>6, <1>7, <1>9, <1>10, <1>11, TypedAfterEdit

LEMMA RewrittenTyped ==
    ASSUME EventTyped, NEW f \in LogNames, Rewritten(f)
    PROVE  EventTyped' /\ InodesKept
<1> DEFINE n == logs[f]
<1>1. /\ Len(inodes) \in Nat /\ DOMAIN inodes = 1 .. Len(inodes)
      /\ \A i \in DOMAIN inodes : inodes[i].writes \in Nat /\ inodes[i].data \in Seq(Nat)
      /\ n \in DOMAIN inodes
  BY InodeTypes DEF Rewritten
<1>2. PICK i \in 1 .. Len(Data(f)) + 1 :
         inodes' = [inodes EXCEPT ![logs[f]] =
                       [data   |-> IF i > Len(@.data) THEN Append(@.data, 2)
                                                      ELSE [@.data EXCEPT ![i] = 2],
                        writes |-> @.writes + 1]]
  BY DEF Rewritten
<1> DEFINE c == inodes[n].data
           d == IF i > Len(c) THEN Append(c, 2) ELSE [c EXCEPT ![i] = 2]
           r == [data |-> d, writes |-> inodes[n].writes + 1]
<1>3. c \in Seq(Nat) /\ Len(c) \in Nat /\ i \in Nat \ {0}
  BY <1>1 DEF Data
<1>4. d \in Seq(Nat)
  <2> HIDE DEF c
  <2>1. Append(c, 2) \in Seq(Nat)
    BY <1>3
  <2>2. ~ (i > Len(c)) => [c EXCEPT ![i] = 2] \in Seq(Nat)
    BY <1>3, ExceptSeq
  <2> QED
    BY <2>1, <2>2
<1>5. r \in LogFiles /\ r.writes = inodes[n].writes + 1
  <2> HIDE DEF d
  <2> QED
    BY <1>1, <1>4 DEF LogFiles
<1>6. inodes' = [inodes EXCEPT ![n] = r]
  BY <1>2
<1> HIDE DEF r, n
<1>7. inodes \in Seq(LogFiles)
  BY DEF EventTyped
<1>8. /\ inodes' \in Seq(LogFiles)
      /\ Len(inodes') = Len(inodes)
      /\ \A j \in 1 .. Len(inodes) : inodes'[j] = IF j = n THEN r ELSE inodes[j]
  BY <1>1, <1>5, <1>6, <1>7, ExceptSeq
<1>9. DOMAIN inodes' = DOMAIN inodes
  BY <1>1, <1>8
<1>10. InodesKept
  BY <1>1, <1>5, <1>8, <1>9 DEF InodesKept
<1>11. Edit /\ dirIds' \in [LogDirs \cup {0} -> Nat] /\ logs' = logs
  BY DEF Rewritten, EventTyped
<1>12. /\ DOMAIN logs' \subseteq LogNames /\ IsFiniteSet(DOMAIN logs')
       /\ logs' \in [DOMAIN logs' -> DOMAIN inodes']
  BY <1>9, <1>11 DEF EventTyped
<1> QED
  BY <1>8, <1>10, <1>11, <1>12, TypedAfterEdit

LEMMA VanishesTyped ==
    ASSUME EventTyped, NEW f \in LogNames, Vanishes(f)
    PROVE  EventTyped' /\ InodesKept
<1>1. inodes' = inodes /\ dirIds' = dirIds /\ Edit
  BY DEF Vanishes
<1>2. InodesKept
  BY <1>1, InodeTypes DEF InodesKept
<1>3. DOMAIN logs' = DOMAIN logs \ {f} /\ \A n \in DOMAIN logs \ {f} : logs'[n] = logs[n]
  BY DEF Vanishes
<1>4. logs' \in [DOMAIN logs' -> DOMAIN inodes']
  <2>1. logs' = [n \in DOMAIN logs \ {f} |-> logs[n]]
    BY DEF Vanishes
  <2> QED
    BY <1>1, <1>3, <2>1, InodeTypes
<1>5. DOMAIN logs' \subseteq LogNames /\ IsFiniteSet(DOMAIN logs')
  BY <1>3, FS_RemoveElement DEF EventTyped
<1>6. inodes' \in Seq(LogFiles) /\ dirIds' \in [LogDirs \cup {0} -> Nat]
  BY <1>1 DEF EventTyped
<1> QED
  BY <1>1, <1>2, <1>4, <1>5, <1>6, TypedAfterEdit

LEMMA ExchangedTyped ==
    ASSUME EventTyped, NEW d \in LogDirs \cup {0}, Exchanged(d)
    PROVE  EventTyped' /\ InodesKept
<1>1. inodes' = inodes /\ logs' = logs /\ Edit
  BY DEF Exchanged
<1>2. InodesKept
  BY <1>1, InodeTypes DEF InodesKept
<1>3. dirIds' \in [LogDirs \cup {0} -> Nat]
  BY DEF Exchanged, EventTyped
<1>4. /\ inodes' \in Seq(LogFiles) /\ DOMAIN logs' \subseteq LogNames
      /\ IsFiniteSet(DOMAIN logs') /\ logs' \in [DOMAIN logs' -> DOMAIN inodes']
  BY <1>1 DEF EventTyped
<1> QED
  BY <1>1, <1>2, <1>3, <1>4, TypedAfterEdit


-----------------------------------------------------------------------------
\* The steps of a scan: its types, and what it knows of the open file.

RestStages == {"dirs", "names", "done"}

LEMMA ScanTypes ==
    ASSUME EventTyped
    PROVE  /\ scan \in EventScans(scan.events)
           /\ scan.at \in ScanStages /\ scan.limit \in Nat /\ scan.base \in Nat
           /\ scan.dirs \in SUBSET (LogDirs \cup Strays) /\ scan.dir \in Nat /\ scan.dirId \in Nat
           /\ scan.must \in SUBSET LogNames /\ scan.seen \in SUBSET LogNames
           /\ scan.entries \in 0 .. MaxScanEntries /\ scan.files \in 0 .. MaxScanFiles
           /\ scan.size \in 0 .. MaxScanSize
           /\ scan.name \in Nat /\ scan.fd \in Nat /\ scan.data \in Seq(Nat)
           /\ Len(scan.data) \in Nat
           /\ scan.expected \in Metas \cup {0} /\ scan.opened \in Metas \cup {0}
           /\ scan.accepted \in SUBSET [name : EventNames, data : Seq(Nat)]
           /\ MaxScanEntries \in Nat /\ MaxScanFiles \in Nat /\ MaxScanSize \in Nat
           /\ MaxScanDirs \in Nat /\ MaxDirEntries \in Nat /\ MaxFileSize \in Nat
<1>1. scan \in EventScans(scan.events)
  BY DEF EventTyped
<1>2. /\ scan.at \in ScanStages /\ scan.limit \in Nat /\ scan.base \in Nat
      /\ scan.dirs \in SUBSET (LogDirs \cup Strays) /\ scan.dir \in Nat /\ scan.dirId \in Nat
      /\ scan.must \in SUBSET LogNames /\ scan.seen \in SUBSET LogNames
      /\ scan.entries \in 0 .. MaxScanEntries /\ scan.files \in 0 .. MaxScanFiles
      /\ scan.size \in 0 .. MaxScanSize
  BY <1>1 DEF EventScans
<1>3. /\ scan.name \in Nat /\ scan.fd \in Nat /\ scan.data \in Seq(Nat)
      /\ scan.expected \in Metas \cup {0} /\ scan.opened \in Metas \cup {0}
      /\ scan.accepted \in SUBSET [name : EventNames, data : Seq(Nat)]
  BY <1>1 DEF EventScans
<1>4. Len(scan.data) \in Nat
  BY <1>3
<1>5. /\ MaxScanEntries \in Nat /\ MaxScanFiles \in Nat /\ MaxScanSize \in Nat
      /\ MaxScanDirs \in Nat /\ MaxDirEntries \in Nat /\ MaxFileSize \in Nat
  BY EventConstants
<1> QED
  BY <1>1, <1>2, <1>3, <1>4, <1>5

LEMMA MetaType ==
    ASSUME EventTyped, NEW i \in DOMAIN inodes
    PROVE  Meta(i) \in Metas /\ Meta(i).inode = i /\ Meta(i).size = Len(inodes[i].data)
           /\ Meta(i).writes = inodes[i].writes
<1>1. i \in Nat /\ Len(inodes[i].data) \in Nat /\ inodes[i].writes \in Nat
  BY InodeTypes
<1> QED
  BY <1>1 DEF Meta, Metas

\* A step of the scan whose outcome has no file open.
LEMMA TypedAtRest ==
    ASSUME EventTyped, NEW new, Scans(new), new \in EventScans(new.events), new.at \in RestStages,
           new.limit >= 1
    PROVE  EventTyped'
<1>1. scan' = new /\ UNCHANGED <<logs, inodes, dirIds, had, quiet, edits>>
  BY DEF Scans
<1>2. new.at \notin FileStages /\ new.at \notin OpenStages /\ new.at # "read"
  BY DEF RestStages, FileStages, OpenStages
<1> QED
  BY <1>1, <1>2 DEF EventTyped

LEMMA OpenFileAtRest ==
    ASSUME OpenFile, NEW new, Scans(new), new.at \in RestStages, new.accepted \subseteq scan.accepted
    PROVE  OpenFile'
<1>1. scan' = new /\ UNCHANGED <<logs, inodes, dirIds, had, quiet, edits>>
  BY DEF Scans
<1>2. new.at \notin FileStages /\ new.at \notin OpenStages
      /\ new.at \notin {"before", "read", "after", "path"}
  BY DEF RestStages, FileStages, OpenStages
<1> QED
  BY <1>1, <1>2 DEF OpenFile

LEMMA FinishedFacts ==
    ASSUME EventTyped
    PROVE  /\ Finished \in EventScans(Finished.events)
           /\ Finished.at = "done" /\ Finished.limit = scan.limit
           /\ Finished.accepted = scan.accepted /\ Finished.events = Sorted(scan.accepted)
<1> DEFINE e == Sorted(scan.accepted)
           sorted == Finished
<1>1. Finished = [Asleep EXCEPT !.at = "done", !.size = scan.size, !.accepted = scan.accepted,
                                !.limit = scan.limit, !.events = e]
  BY DEF Finished
<1>2. <<>> \in Seq(Nat)
  BY EmptySeq
<1> HIDE DEF e
<1>3. /\ Finished.at = "done" /\ Finished.limit = scan.limit
      /\ Finished.accepted = scan.accepted /\ Finished.events = e
  BY <1>1 DEF Asleep
<1>4. Finished \in EventScans(e)
  <2>1. Finished = [at |-> "done", limit |-> scan.limit, base |-> 0, dirs |-> {}, dir |-> 0,
           dirId |-> 0, must |-> {}, seen |-> {}, entries |-> 0, files |-> 0, size |-> scan.size,
           name |-> 0, fd |-> 0, expected |-> 0, opened |-> 0, data |-> <<>>,
           accepted |-> scan.accepted, events |-> e]
    BY <1>1 DEF Asleep
  <2> HIDE DEF sorted
  <2>2. /\ scan.limit \in Nat /\ scan.size \in 0 .. MaxScanSize
        /\ scan.accepted \in SUBSET [name : EventNames, data : Seq(Nat)]
        /\ MaxScanEntries \in Nat /\ MaxScanFiles \in Nat
    BY ScanTypes
  <2>3. "done" \in ScanStages
    BY DEF ScanStages
  <2> QED
    BY <1>2, <2>1, <2>2, <2>3 DEF EventScans
<1> QED
  BY <1>3, <1>4 DEF e

LEMMA ClosedFacts ==
    ASSUME EventTyped
    PROVE  /\ Closed \in EventScans(Closed.events)
           /\ Closed.at = "names" /\ Closed.limit = scan.limit /\ Closed.accepted = scan.accepted
<1>1. Closed = [scan EXCEPT !.at = "names", !.name = 0, !.fd = 0, !.expected = 0, !.opened = 0,
                       !.data = <<>>]
  BY DEF Closed
<1>2. <<>> \in Seq(Nat)
  BY EmptySeq
<1>3. /\ Closed.at = "names" /\ Closed.limit = scan.limit /\ Closed.accepted = scan.accepted
      /\ Closed.events = scan.events
  BY <1>1, ScanTypes DEF EventScans
<1>4. Closed \in EventScans(scan.events)
  BY <1>1, <1>2, ScanTypes DEF EventScans, ScanStages
<1> QED
  BY <1>3, <1>4

LEMMA RejectedFacts ==
    ASSUME EventTyped
    PROVE  /\ Rejected \in EventScans(Rejected.events)
           /\ Rejected.at \in RestStages /\ Rejected.limit = scan.limit
           /\ Rejected.accepted = scan.accepted
BY FinishedFacts, ClosedFacts DEF Rejected, RestStages

\* The scan ends, or goes on without the file.
LEMMA AfterRejected ==
    ASSUME EventTyped, OpenFile, scan.at # "idle",
           Scans(Rejected) \/ Scans(Finished) \/ Scans(Closed)
    PROVE  EventTyped' /\ OpenFile'
<1>1. scan.limit >= 1
  BY DEF EventTyped
<1>2. CASE Scans(Rejected)
  BY <1>1, <1>2, RejectedFacts, TypedAtRest, OpenFileAtRest
<1>3. CASE Scans(Finished)
  BY <1>1, <1>3, FinishedFacts, TypedAtRest, OpenFileAtRest DEF RestStages
<1>4. CASE Scans(Closed)
  BY <1>1, <1>4, ClosedFacts, TypedAtRest, OpenFileAtRest DEF RestStages
<1> QED
  BY <1>2, <1>3, <1>4


LEMMA HadAfterScan ==
    ASSUME HadNow, scan.at # "idle", NEW new, Scans(new)
    PROVE  HadNow'
BY DEF HadNow, Scans, Data

LEMMA AskFacts ==
    ASSUME EventTyped, OpenFile, NEW limit \in Limits, AskActivity(limit)
    PROVE  EventTyped' /\ OpenFile' /\ HadNow'
<1> DEFINE n == Max({1, limit})
<1>1. limit \in Int
  BY EventConstants
<1>2. n \in Nat /\ n >= 1
  BY <1>1, GreaterOfTwo
<1> HIDE DEF n
<1>3. scan' = [Asleep EXCEPT !.at = "dirs", !.limit = n, !.base = dirIds[0]]
  BY DEF AskActivity, n
<1>4. dirIds[0] \in Nat
  BY DEF EventTyped
<1>5. /\ scan'.at = "dirs" /\ scan'.limit = n /\ scan'.accepted = {} /\ scan'.events = <<>>
  BY <1>3 DEF Asleep
<1>6. scan' \in EventScans(<<>>)
  <2>1. scan' = [at |-> "dirs", limit |-> n, base |-> dirIds[0], dirs |-> {}, dir |-> 0,
           dirId |-> 0, must |-> {}, seen |-> {}, entries |-> 0, files |-> 0, size |-> 0,
           name |-> 0, fd |-> 0, expected |-> 0, opened |-> 0, data |-> <<>>,
           accepted |-> {}, events |-> <<>>]
    BY <1>3 DEF Asleep
  <2>2. "dirs" \in ScanStages /\ <<>> \in Seq(Nat)
    BY EmptySeq DEF ScanStages
  <2>3. MaxScanEntries \in Nat /\ MaxScanFiles \in Nat /\ MaxScanSize \in Nat
    BY EventConstants
  <2> QED
    BY <1>2, <1>4, <2>1, <2>2, <2>3 DEF EventScans
<1>7. UNCHANGED <<logs, inodes, dirIds, edits>> /\ quiet' = TRUE
      /\ had' = [f \in EventNames |-> {Data(g) : g \in DOMAIN logs \cap {f}}]
  BY DEF AskActivity
<1>8. EventTyped'
  BY <1>2, <1>5, <1>6, <1>7 DEF EventTyped, FileStages, OpenStages
<1>9. OpenFile'
  BY <1>5 DEF OpenFile, FileStages, OpenStages
<1>10. HadNow'
  BY <1>7 DEF HadNow, Data
<1> QED
  BY <1>8, <1>9, <1>10

LEMMA NextDirFacts ==
    ASSUME EventTyped, OpenFile, NEW d \in LogDirs \cup Strays, NextDir(d)
    PROVE  EventTyped' /\ OpenFile' /\ scan.at # "idle"
<1> DEFINE entered == [scan EXCEPT !.at = "names", !.entries = @ + 1, !.dirs = @ \cup {d},
                               !.dir = d, !.dirId = dirIds[d], !.seen = {},
                               !.must = {f \in DOMAIN logs : LogDir[f] = d}]
           counted == [scan EXCEPT !.entries = @ + 1, !.dirs = @ \cup {d}]
<1>1. scan.at = "dirs" /\ scan.entries < MaxScanEntries
  BY DEF NextDir, ScanAt
<1>2. scan.limit >= 1
  BY <1>1 DEF EventTyped
<1>3. scan.entries + 1 \in 0 .. MaxScanEntries
  <2>1. scan.entries \in 0 .. MaxScanEntries /\ MaxScanEntries \in Nat
    BY ScanTypes
  <2> QED
    BY <1>1, <2>1
<1>4. scan.dirs \cup {d} \in SUBSET (LogDirs \cup Strays)
  BY ScanTypes
<1>5. CASE d \in LogDirs /\ Scans(entered)
  <2>1. d \in Nat /\ dirIds[d] \in Nat
    BY <1>5, EventConstants DEF EventTyped
  <2>2. {f \in DOMAIN logs : LogDir[f] = d} \in SUBSET LogNames
    BY DEF EventTyped
  <2>3. /\ entered.at = "names" /\ entered.limit = scan.limit /\ entered.accepted = scan.accepted
        /\ entered.events = scan.events
    BY ScanTypes DEF EventScans
  <2>4. entered \in EventScans(scan.events)
    BY <1>3, <1>4, <2>1, <2>2, ScanTypes DEF EventScans, ScanStages
  <2>5. entered \in EventScans(entered.events)
    BY <2>3, <2>4
  <2> HIDE DEF entered
  <2> QED
    BY <1>1, <1>2, <1>5, <2>3, <2>5, TypedAtRest, OpenFileAtRest DEF RestStages
<1>6. CASE Scans(counted)
  <2>1. /\ counted.at = "dirs" /\ counted.limit = scan.limit /\ counted.accepted = scan.accepted
        /\ counted.events = scan.events
    BY <1>1, ScanTypes DEF EventScans
  <2>2. counted \in EventScans(scan.events)
    BY <1>3, <1>4, ScanTypes DEF EventScans, ScanStages
  <2>3. counted \in EventScans(counted.events)
    BY <2>1, <2>2
  <2> HIDE DEF counted
  <2> QED
    BY <1>1, <1>2, <1>6, <2>1, <2>3, TypedAtRest, OpenFileAtRest DEF RestStages
<1> QED
  BY <1>5, <1>6 DEF NextDir

LEMMA NoMoreDirsFacts ==
    ASSUME EventTyped, OpenFile, NoMoreDirs
    PROVE  EventTyped' /\ OpenFile' /\ scan.at # "idle"
<1>1. scan.at # "idle" /\ Scans(Finished)
  BY DEF NoMoreDirs, ScanAt
<1> QED
  BY <1>1, AfterRejected

LEMMA NoMoreNamesFacts ==
    ASSUME EventTyped, OpenFile, NoMoreNames
    PROVE  EventTyped' /\ OpenFile' /\ scan.at # "idle"
<1> DEFINE left == [scan EXCEPT !.at = "dirs"]
<1>1. scan.at # "idle" /\ (Scans(Finished) \/ Scans(left))
  BY DEF NoMoreNames, ScanAt
<1>2. CASE Scans(Finished)
  BY <1>1, <1>2, AfterRejected
<1>3. CASE Scans(left)
  <2>1. /\ left.at = "dirs" /\ left.limit = scan.limit /\ left.accepted = scan.accepted
        /\ left.events = scan.events
    BY ScanTypes DEF EventScans
  <2>2. left \in EventScans(scan.events)
    BY ScanTypes DEF EventScans, ScanStages
  <2>3. left \in EventScans(left.events) /\ left.limit >= 1
    BY <1>1, <2>1, <2>2 DEF EventTyped
  <2> HIDE DEF left
  <2> QED
    BY <1>1, <1>3, <2>1, <2>3, TypedAtRest, OpenFileAtRest DEF RestStages
<1> QED
  BY <1>1, <1>2, <1>3

LEMMA AnsweredFacts ==
    ASSUME EventTyped, OpenFile, ActivityAnswered
    PROVE  EventTyped' /\ OpenFile' /\ HadNow'
<1>1. scan' = Asleep
  BY DEF ActivityAnswered
<1>2. scan'.at = "idle" /\ scan'.accepted = {} /\ scan'.events = <<>>
  BY <1>1 DEF Asleep
<1>3. Asleep \in EventScans(<<>>)
  <2>1. <<>> \in Seq(Nat)
    BY EmptySeq
  <2>2. MaxScanEntries \in Nat /\ MaxScanFiles \in Nat /\ MaxScanSize \in Nat
    BY EventConstants
  <2> QED
    BY <2>1, <2>2 DEF Asleep, EventScans, ScanStages
<1>4. UNCHANGED <<logs, inodes, dirIds, edits>> /\ quiet' = TRUE /\ had' = [f \in EventNames |-> {}]
  BY DEF ActivityAnswered
<1>5. EventTyped'
  BY <1>1, <1>2, <1>3, <1>4 DEF EventTyped, FileStages, OpenStages
<1>6. OpenFile'
  BY <1>2 DEF OpenFile, FileStages, OpenStages
<1>7. HadNow'
  BY <1>2 DEF HadNow
<1> QED
  BY <1>5, <1>6, <1>7


\* A step whose outcome has a file open.
LEMMA TypedAtFile ==
    ASSUME EventTyped, scan.at # "idle", NEW new, Scans(new),
           new \in EventScans(new.events), new.limit = scan.limit, new.at \in FileStages,
           new.name \in EventNames, new.expected \in Metas, new.expected.inode \in DOMAIN inodes,
           new.at \in OpenStages => new.fd \in DOMAIN inodes /\ new.opened \in Metas,
           new.at = "read" => Len(new.data) <= MaxScanSize - new.size
    PROVE  EventTyped'
<1>1. scan' = new /\ UNCHANGED <<logs, inodes, dirIds, had, quiet, edits>>
  BY DEF Scans
<1> QED
  BY <1>1 DEF EventTyped

LEMMA NextNameFacts ==
    ASSUME EventTyped, OpenFile, NEW f \in LogNames, NextName(f)
    PROVE  EventTyped' /\ OpenFile' /\ scan.at # "idle"
<1> DEFINE n == scan.files + IF f \in EventNames THEN 1 ELSE 0
           counted == [scan EXCEPT !.seen = @ \cup {f}, !.entries = @ + 1, !.files = n]
           open == [counted EXCEPT !.at = "open", !.name = f, !.expected = Meta(logs[f])]
<1>1. scan.at = "names" /\ scan.at # "idle" /\ NamesLeft
  BY DEF NextName, ScanAt
<1>2. scan.limit >= 1
  BY <1>1 DEF EventTyped
<1>3. scan.entries + 1 \in 0 .. MaxScanEntries /\ n \in 0 .. MaxScanFiles
  <2>1. /\ scan.entries \in 0 .. MaxScanEntries /\ MaxScanEntries \in Nat
        /\ scan.files \in 0 .. MaxScanFiles /\ MaxScanFiles \in Nat
    BY ScanTypes
  <2>2. scan.entries < MaxScanEntries /\ scan.files < MaxScanFiles
    BY <1>1 DEF NamesLeft
  <2> QED
    BY <2>1, <2>2
<1>4. scan.seen \cup {f} \in SUBSET LogNames
  BY ScanTypes
<1> HIDE DEF n
<1>5. \/ Scans(counted) \/ Scans(Finished)
      \/ f \in EventNames \cap DOMAIN logs /\ Scans(open)
  BY DEF NextName, n
<1>6. CASE Scans(counted)
  <2>1. /\ counted.at = "names" /\ counted.limit = scan.limit /\ counted.accepted = scan.accepted
        /\ counted.events = scan.events
    BY <1>1, ScanTypes DEF EventScans
  <2>2. counted \in EventScans(scan.events)
    BY <1>3, <1>4, ScanTypes DEF EventScans, ScanStages
  <2>3. counted \in EventScans(counted.events)
    BY <2>1, <2>2
  <2> HIDE DEF counted
  <2> QED
    BY <1>1, <1>2, <1>6, <2>1, <2>3, TypedAtRest, OpenFileAtRest DEF RestStages
<1>7. CASE Scans(Finished)
  BY <1>1, <1>7, AfterRejected
<1>8. CASE f \in EventNames \cap DOMAIN logs /\ Scans(open)
  <2>1. logs[f] \in DOMAIN inodes /\ f \in Nat
    BY <1>8, InodeTypes, EventConstants
  <2>2. /\ Meta(logs[f]) \in Metas /\ Meta(logs[f]).inode = logs[f]
        /\ Meta(logs[f]).writes = inodes[logs[f]].writes
    BY <2>1, MetaType
  <2>3. /\ open.at = "open" /\ open.limit = scan.limit /\ open.accepted = scan.accepted
        /\ open.events = scan.events /\ open.name = f /\ open.expected = Meta(logs[f])
    BY <1>1, ScanTypes DEF EventScans
  <2>4. open \in EventScans(scan.events)
    BY <1>3, <1>4, <2>1, <2>2, ScanTypes DEF EventScans, ScanStages
  <2>5. open \in EventScans(open.events)
    BY <2>3, <2>4
  <2> HIDE DEF open
  <2>6. EventTyped'
    <3>1. open.at \in FileStages /\ open.at \notin OpenStages /\ open.at # "read"
      BY <2>3 DEF FileStages, OpenStages
    <3>2. /\ open.name \in EventNames /\ open.expected \in Metas
          /\ open.expected.inode \in DOMAIN inodes
      BY <1>8, <2>1, <2>2, <2>3
    <3> QED
      BY <1>1, <1>8, <2>3, <2>5, <3>1, <3>2, TypedAtFile
  <2>7. OpenFile'
    <3>1. scan' = open /\ inodes' = inodes /\ had' = had
      BY <1>8 DEF Scans
    <3>2. scan'.expected.writes <= inodes'[scan'.expected.inode].writes
      <4>1. inodes[logs[f]].writes \in Nat
        BY <2>1, InodeTypes
      <4> QED
        BY <2>2, <2>3, <3>1, <4>1
    <3>3. scan'.at = "open" /\ scan'.accepted = scan.accepted
      BY <2>3, <3>1
    <3> QED
      BY <3>1, <3>2, <3>3 DEF OpenFile, FileStages, OpenStages
  <2> QED
    BY <1>1, <2>6, <2>7
<1> QED
  BY <1>1, <1>5, <1>6, <1>7, <1>8

LEMMA OpenLogFacts ==
    ASSUME EventTyped, OpenFile, OpenLog
    PROVE  EventTyped' /\ OpenFile' /\ scan.at # "idle"
<1> DEFINE before == [scan EXCEPT !.at = "before", !.fd = logs[scan.name],
                                  !.opened = Meta(logs[scan.name])]
<1>1. scan.at = "open" /\ scan.at # "idle" /\ scan.at \in FileStages
  BY DEF OpenLog, ScanAt, FileStages
<1>2. Scans(Rejected) \/ (scan.name \in DOMAIN logs /\ Scans(before))
  BY DEF OpenLog
<1>3. CASE Scans(Rejected)
  BY <1>1, <1>3, AfterRejected
<1>4. CASE scan.name \in DOMAIN logs /\ Scans(before)
  <2> DEFINE i == logs[scan.name]
  <2>1. i \in DOMAIN inodes /\ i \in Nat /\ inodes[i].writes \in Nat
    BY <1>4, InodeTypes
  <2>2. Meta(i) \in Metas /\ Meta(i).inode = i /\ Meta(i).writes = inodes[i].writes
    BY <2>1, MetaType
  <2> HIDE DEF i
  <2>3. before = [scan EXCEPT !.at = "before", !.fd = i, !.opened = Meta(i)]
    BY DEF i
  <2> HIDE DEF before
  <2>4. /\ before.at = "before" /\ before.limit = scan.limit /\ before.accepted = scan.accepted
        /\ before.events = scan.events /\ before.name = scan.name
        /\ before.expected = scan.expected /\ before.fd = i /\ before.opened = Meta(i)
    BY <2>3, ScanTypes DEF EventScans
  <2>5. before \in EventScans(scan.events)
    BY <2>1, <2>2, <2>3, ScanTypes DEF EventScans, ScanStages
  <2>6. before \in EventScans(before.events)
    BY <2>4, <2>5
  <2>7. /\ scan.name \in EventNames /\ scan.expected \in Metas
        /\ scan.expected.inode \in DOMAIN inodes
    BY <1>1 DEF EventTyped
  <2>8. EventTyped'
    <3>1. before.at \in FileStages /\ before.at # "read"
      BY <2>4 DEF FileStages
    <3>2. before.fd \in DOMAIN inodes /\ before.opened \in Metas
      BY <2>1, <2>2, <2>4
    <3> QED
      BY <1>1, <1>4, <2>4, <2>6, <2>7, <3>1, <3>2, TypedAtFile
  <2>9. scan.expected.writes <= inodes[scan.expected.inode].writes
    BY <1>1 DEF OpenFile
  <2>10. OpenFile'
    <3>1. scan' = before /\ inodes' = inodes /\ had' = had
      BY <1>4 DEF Scans
    <3>2. /\ scan'.at = "before" /\ scan'.accepted = scan.accepted
          /\ scan'.expected = scan.expected /\ scan'.fd = i /\ scan'.opened = Meta(i)
      BY <2>4, <3>1
    <3>3. scan'.opened.inode = scan'.fd /\ scan'.opened.writes <= inodes'[scan'.fd].writes
      BY <2>1, <2>2, <3>1, <3>2
    <3>4. scan'.expected.inode = scan'.fd => scan'.expected.writes <= scan'.opened.writes
      BY <2>2, <2>9, <3>2
    <3> QED
      BY <2>9, <3>1, <3>2, <3>3, <3>4 DEF OpenFile, FileStages, OpenStages
  <2> QED
    BY <1>1, <2>8, <2>10
<1> QED
  BY <1>2, <1>3, <1>4

LEMMA LookBeforeFacts ==
    ASSUME EventTyped, HadNow, OpenFile, LookBefore
    PROVE  EventTyped' /\ OpenFile' /\ scan.at # "idle"
<1> DEFINE read == [scan EXCEPT !.at = "read", !.data = <<>>]
<1>1. scan.at = "before" /\ scan.at # "idle" /\ scan.at \in FileStages /\ scan.at \in OpenStages
  BY DEF LookBefore, ScanAt, FileStages, OpenStages
<1>2. \/ Scans(Rejected)
      \/ /\ SameRegular(scan.expected, scan.opened) /\ LooksAs(scan.name, scan.expected)
         /\ Scans(read)
  BY DEF LookBefore
<1>3. CASE Scans(Rejected)
  BY <1>1, <1>3, AfterRejected
<1>4. CASE /\ SameRegular(scan.expected, scan.opened) /\ LooksAs(scan.name, scan.expected)
           /\ Scans(read)
  <2>1. /\ scan.name \in EventNames /\ scan.expected \in Metas
        /\ scan.expected.inode \in DOMAIN inodes
        /\ scan.fd \in DOMAIN inodes /\ scan.opened \in Metas
    BY <1>1 DEF EventTyped
  <2>2. <<>> \in Seq(Nat) /\ Len(<<>>) = 0
    BY EmptySeq
  <2>3. /\ read.at = "read" /\ read.limit = scan.limit /\ read.accepted = scan.accepted
        /\ read.events = scan.events /\ read.name = scan.name /\ read.expected = scan.expected
        /\ read.fd = scan.fd /\ read.opened = scan.opened /\ read.data = <<>>
        /\ read.size = scan.size
    BY ScanTypes DEF EventScans
  <2>4. read \in EventScans(scan.events)
    BY <2>2, ScanTypes DEF EventScans, ScanStages
  <2>5. read \in EventScans(read.events)
    BY <2>3, <2>4
  <2> HIDE DEF read
  <2>6. EventTyped'
    <3>1. read.at \in FileStages
      BY <2>3 DEF FileStages
    <3>2. Len(read.data) <= MaxScanSize - read.size
      <4>1. scan.size \in 0 .. MaxScanSize /\ MaxScanSize \in Nat
        BY ScanTypes
      <4> QED
        BY <2>2, <2>3, <4>1
    <3> QED
      BY <1>1, <1>4, <2>1, <2>3, <2>5, <3>1, <3>2, TypedAtFile
  <2>7. /\ scan.name \in DOMAIN logs /\ Meta(logs[scan.name]) = scan.expected
        /\ scan.expected.inode = scan.opened.inode /\ scan.expected.size = scan.opened.size
    BY <1>4 DEF LooksAs, SameRegular
  <2>8. logs[scan.name] \in DOMAIN inodes
    BY <2>7, InodeTypes
  <2>9. logs[scan.name] = scan.fd /\ scan.expected.writes = inodes[scan.fd].writes
    BY <1>1, <2>7, <2>8, MetaType DEF OpenFile
  <2>10. scan.opened.writes = scan.expected.writes
    <3>1. scan.expected.writes <= scan.opened.writes /\ scan.opened.writes <= inodes[scan.fd].writes
      BY <1>1, <2>7, <2>9 DEF OpenFile
    <3>2. scan.expected.writes \in Nat /\ scan.opened.writes \in Nat
      BY <2>1 DEF Metas
    <3> QED
      BY <2>9, <3>1, <3>2
  <2>11. scan.opened = scan.expected
    BY <2>1, <2>7, <2>10 DEF Metas
  <2>12. inodes[scan.fd].data \in had[scan.name] /\ Len(inodes[scan.fd].data) \in Nat
    BY <1>1, <2>1, <2>7, <2>9, InodeTypes DEF HadNow, Data
  <2>13. OpenFile'
    <3>1. scan' = read /\ inodes' = inodes /\ had' = had
      BY <1>4 DEF Scans
    <3>2. AsOpened'
      BY <2>2, <2>3, <2>12, <3>1 DEF AsOpened
    <3>3. /\ scan'.at = "read" /\ scan'.accepted = scan.accepted
          /\ scan'.expected = scan.expected /\ scan'.fd = scan.fd /\ scan'.opened = scan.opened
      BY <2>3, <3>1
    <3>4. /\ scan.expected.writes <= inodes[scan.expected.inode].writes
          /\ scan.opened.inode = scan.fd /\ scan.opened.writes <= inodes[scan.fd].writes
      BY <1>1 DEF OpenFile
    <3> QED
      BY <2>11, <3>1, <3>2, <3>3, <3>4 DEF OpenFile, FileStages, OpenStages
  <2> QED
    BY <1>1, <2>6, <2>13
<1> QED
  BY <1>2, <1>3, <1>4


LEMMA ReadLogFacts ==
    ASSUME EventTyped, OpenFile, ReadLog
    PROVE  EventTyped' /\ OpenFile' /\ scan.at # "idle"
<1> DEFINE content == inodes[scan.fd].data
           soFar == Len(scan.data)
           most == Min({MaxFileSize + 1, MaxScanSize - scan.size})
           more == [scan EXCEPT !.data = Append(@, content[soFar + 1])]
           after == [scan EXCEPT !.at = "after", !.size = @ + soFar]
<1>1. scan.at = "read" /\ scan.at # "idle" /\ scan.at \in FileStages /\ scan.at \in OpenStages
  BY DEF ReadLog, ScanAt, FileStages, OpenStages
<1>2. /\ scan.name \in EventNames /\ scan.expected \in Metas
      /\ scan.expected.inode \in DOMAIN inodes
      /\ scan.fd \in DOMAIN inodes /\ scan.opened \in Metas
      /\ soFar <= MaxScanSize - scan.size
  BY <1>1 DEF EventTyped
<1>3. /\ scan.size \in 0 .. MaxScanSize /\ MaxScanSize \in Nat /\ soFar \in Nat
      /\ scan.data \in Seq(Nat) /\ MaxFileSize \in Nat
  BY ScanTypes
<1>4. content \in Seq(Nat) /\ Len(content) \in Nat
  BY <1>2, InodeTypes
<1>5. /\ scan.expected.writes <= inodes[scan.expected.inode].writes
      /\ scan.opened.inode = scan.fd /\ scan.opened.writes <= inodes[scan.fd].writes
      /\ scan.opened = scan.expected
      /\ inodes[scan.fd].writes = scan.opened.writes => AsOpened
  BY <1>1 DEF OpenFile
<1>6. \/ soFar < most /\ soFar < Len(content) /\ Scans(more)
      \/ Scans(after)
  BY DEF ReadLog
<1> HIDE DEF content
<1>7. CASE soFar < most /\ soFar < Len(content) /\ Scans(more)
  <2>1. soFar + 1 <= MaxScanSize - scan.size
    <3>1. most <= MaxScanSize - scan.size /\ most \in Int
      BY <1>3, LesserOfTwo
    <3> HIDE DEF most, soFar
    <3> QED
      BY <1>3, <1>7, <3>1
  <2>2. content[soFar + 1] \in Nat
    BY <1>3, <1>4, <1>7, ElementOfSeq
  <2> DEFINE d == Append(scan.data, content[soFar + 1])
  <2>3. /\ d \in Seq(Nat) /\ Len(d) = soFar + 1
        /\ \A i \in 1 .. soFar : d[i] = scan.data[i]
        /\ d[soFar + 1] = content[soFar + 1]
    BY <1>3, <2>2
  <2>4. /\ more.at = "read" /\ more.limit = scan.limit /\ more.accepted = scan.accepted
        /\ more.events = scan.events /\ more.name = scan.name /\ more.expected = scan.expected
        /\ more.fd = scan.fd /\ more.opened = scan.opened /\ more.data = d
        /\ more.size = scan.size
    BY <1>1, ScanTypes DEF EventScans
  <2> HIDE DEF d
  <2>5. more \in EventScans(scan.events)
    <3>1. more = [scan EXCEPT !.data = d]
      BY DEF d
    <3> QED
      BY <2>3, <3>1, ScanTypes DEF EventScans
  <2>6. more \in EventScans(more.events)
    BY <2>4, <2>5
  <2> HIDE DEF more
  <2>7. EventTyped'
    <3>1. more.at \in FileStages /\ Len(more.data) <= MaxScanSize - more.size
      BY <2>1, <2>3, <2>4 DEF FileStages
    <3> QED
      BY <1>1, <1>2, <1>7, <2>4, <2>6, <3>1, TypedAtFile
  <2>8. OpenFile'
    <3>1. scan' = more /\ inodes' = inodes /\ had' = had
      BY <1>7 DEF Scans
    <3>2. ASSUME inodes[scan.fd].writes = scan.opened.writes
          PROVE  AsOpened'
      <4>1. /\ content \in had[scan.name]
            /\ \A i \in 1 .. soFar : scan.data[i] = content[i]
        BY <1>5, <3>2 DEF AsOpened, content
      <4>2. \A i \in 1 .. soFar + 1 : d[i] = content[i]
        <5> HIDE DEF soFar
        <5>1. \A i \in 1 .. soFar + 1 : i \in 1 .. soFar \/ i = soFar + 1
          BY <1>3
        <5> QED
          BY <2>3, <4>1, <5>1
      <4>3. soFar + 1 <= Len(content)
        BY <1>3, <1>4, <1>7
      <4> QED
        BY <2>3, <2>4, <3>1, <4>1, <4>2, <4>3 DEF AsOpened, content
    <3>3. /\ scan'.at = "read" /\ scan'.accepted = scan.accepted
          /\ scan'.expected = scan.expected /\ scan'.fd = scan.fd /\ scan'.opened = scan.opened
      BY <2>4, <3>1
    <3> QED
      BY <1>5, <3>1, <3>2, <3>3 DEF OpenFile, FileStages, OpenStages
  <2> QED
    BY <1>1, <2>7, <2>8
<1>8. CASE Scans(after)
  <2>1. scan.size + soFar \in 0 .. MaxScanSize
    BY <1>2, <1>3
  <2>2. /\ after.at = "after" /\ after.limit = scan.limit /\ after.accepted = scan.accepted
        /\ after.events = scan.events /\ after.name = scan.name /\ after.expected = scan.expected
        /\ after.fd = scan.fd /\ after.opened = scan.opened /\ after.data = scan.data
    BY ScanTypes DEF EventScans
  <2> HIDE DEF soFar
  <2>3. after \in EventScans(scan.events)
    BY <2>1, ScanTypes DEF EventScans, ScanStages
  <2>4. after \in EventScans(after.events)
    BY <2>2, <2>3
  <2> HIDE DEF after
  <2>5. EventTyped'
    <3>1. after.at \in FileStages /\ after.at # "read"
      BY <2>2 DEF FileStages
    <3> QED
      BY <1>1, <1>2, <1>8, <2>2, <2>4, <3>1, TypedAtFile
  <2>6. OpenFile'
    <3>1. scan' = after /\ inodes' = inodes /\ had' = had
      BY <1>8 DEF Scans
    <3>2. AsOpened' = AsOpened
      BY <2>2, <3>1 DEF AsOpened
    <3>3. /\ scan'.at = "after" /\ scan'.accepted = scan.accepted
          /\ scan'.expected = scan.expected /\ scan'.fd = scan.fd /\ scan'.opened = scan.opened
      BY <2>2, <3>1
    <3>4. \A r \in scan.accepted : r.data \in had[r.name]
      BY DEF OpenFile
    <3> QED
      BY <1>5, <3>1, <3>2, <3>3, <3>4 DEF OpenFile, FileStages, OpenStages
  <2> QED
    BY <1>1, <2>5, <2>6
<1> QED
  BY <1>6, <1>7, <1>8

\* What was read of the file is all of it.
LEMMA ReadWhole ==
    ASSUME EventTyped, OpenFile, scan.at = "after",
           Len(scan.data) = scan.expected.size, Meta(scan.fd) = scan.opened
    PROVE  scan.data = inodes[scan.fd].data /\ scan.data \in had[scan.name]
<1>1. scan.fd \in DOMAIN inodes /\ scan.opened = scan.expected
  BY DEF EventTyped, OpenFile, OpenStages, FileStages
<1>2. /\ scan.opened.size = Len(inodes[scan.fd].data)
      /\ scan.opened.writes = inodes[scan.fd].writes
  BY <1>1, MetaType
<1>3. AsOpened
  BY <1>2 DEF OpenFile
<1>4. scan.data \in Seq(Nat) /\ inodes[scan.fd].data \in Seq(Nat)
  BY <1>1, ScanTypes, InodeTypes
<1>5. scan.data = inodes[scan.fd].data
  <2> DEFINE d == scan.data
             c == inodes[scan.fd].data
  <2>1. Len(d) = Len(c)
    BY <1>1, <1>2
  <2>2. \A i \in 1 .. Len(d) : d[i] = c[i]
    BY <1>3 DEF AsOpened
  <2> HIDE DEF c, d
  <2>3. d \in Seq(Nat) /\ c \in Seq(Nat)
    BY <1>4 DEF c, d
  <2>4. c = d
    BY <2>1, <2>2, <2>3, SeqEqual
  <2> QED
    BY <2>4 DEF c, d
<1> QED
  BY <1>3, <1>5 DEF AsOpened

LEMMA LookAfterFacts ==
    ASSUME EventTyped, OpenFile, LookAfter
    PROVE  EventTyped' /\ OpenFile' /\ scan.at # "idle"
<1> DEFINE path == [scan EXCEPT !.at = "path"]
<1>1. scan.at = "after" /\ scan.at # "idle" /\ scan.at \in FileStages /\ scan.at \in OpenStages
  BY DEF LookAfter, ScanAt, FileStages, OpenStages
<1>2. \/ Scans(Rejected)
      \/ /\ Len(scan.data) = scan.expected.size /\ Meta(scan.fd) = scan.opened
         /\ Scans(path)
  BY DEF LookAfter
<1>3. CASE Scans(Rejected)
  BY <1>1, <1>3, AfterRejected
<1>4. CASE /\ Len(scan.data) = scan.expected.size /\ Meta(scan.fd) = scan.opened
           /\ Scans(path)
  <2>1. /\ scan.name \in EventNames /\ scan.expected \in Metas
        /\ scan.expected.inode \in DOMAIN inodes
        /\ scan.fd \in DOMAIN inodes /\ scan.opened \in Metas
    BY <1>1 DEF EventTyped
  <2>2. /\ path.at = "path" /\ path.limit = scan.limit /\ path.accepted = scan.accepted
        /\ path.events = scan.events /\ path.name = scan.name /\ path.expected = scan.expected
        /\ path.fd = scan.fd /\ path.opened = scan.opened /\ path.data = scan.data
    BY ScanTypes DEF EventScans
  <2>3. path \in EventScans(scan.events)
    BY ScanTypes DEF EventScans, ScanStages
  <2>4. path \in EventScans(path.events)
    BY <2>2, <2>3
  <2> HIDE DEF path
  <2>5. EventTyped'
    <3>1. path.at \in FileStages /\ path.at # "read"
      BY <2>2 DEF FileStages
    <3> QED
      BY <1>1, <1>4, <2>1, <2>2, <2>4, <3>1, TypedAtFile
  <2>6. OpenFile'
    <3>1. scan' = path /\ inodes' = inodes /\ had' = had
      BY <1>4 DEF Scans
    <3>2. scan.data \in had[scan.name]
      BY <1>1, <1>4, ReadWhole
    <3>3. /\ scan'.at = "path" /\ scan'.accepted = scan.accepted /\ scan'.name = scan.name
          /\ scan'.expected = scan.expected /\ scan'.fd = scan.fd /\ scan'.opened = scan.opened
          /\ scan'.data = scan.data
      BY <2>2, <3>1
    <3>4. /\ scan.expected.writes <= inodes[scan.expected.inode].writes
          /\ scan.opened.inode = scan.fd /\ scan.opened.writes <= inodes[scan.fd].writes
          /\ \A r \in scan.accepted : r.data \in had[r.name]
      BY <1>1 DEF OpenFile
    <3> QED
      BY <3>1, <3>2, <3>3, <3>4 DEF OpenFile, FileStages, OpenStages
  <2> QED
    BY <1>1, <2>5, <2>6
<1> QED
  BY <1>2, <1>3, <1>4

LEMMA LookAtPathFacts ==
    ASSUME EventTyped, OpenFile, LookAtPath
    PROVE  EventTyped' /\ OpenFile' /\ scan.at # "idle"
<1> DEFINE row == [name |-> scan.name, data |-> scan.data]
           more == [Closed EXCEPT !.accepted = @ \cup {row}]
<1>1. scan.at = "path" /\ scan.at # "idle" /\ scan.at \in FileStages
  BY DEF LookAtPath, ScanAt, FileStages
<1>2. Scans(Rejected) \/ Scans(Closed) \/ Scans(more)
  BY DEF LookAtPath
<1>3. CASE Scans(Rejected) \/ Scans(Closed)
  BY <1>1, <1>3, AfterRejected
<1>4. CASE Scans(more)
  <2>1. scan.limit >= 1 /\ scan.name \in EventNames
    BY <1>1 DEF EventTyped
  <2>2. scan.accepted \in SUBSET [name : EventNames, data : Seq(Nat)] /\ scan.data \in Seq(Nat)
    BY ScanTypes
  <2>3. row \in [name : EventNames, data : Seq(Nat)] /\ row.name = scan.name /\ row.data = scan.data
    BY <2>1, <2>2
  <2> HIDE DEF row
  <2>4. /\ more.at = "names" /\ more.limit = scan.limit /\ more.events = Closed.events
        /\ more.accepted = scan.accepted \cup {row}
    BY ClosedFacts DEF EventScans
  <2>5. more \in EventScans(Closed.events)
    BY <2>2, <2>3, ClosedFacts DEF EventScans
  <2>6. more \in EventScans(more.events)
    BY <2>4, <2>5
  <2> HIDE DEF more
  <2>7. EventTyped'
    BY <1>4, <2>1, <2>4, <2>6, TypedAtRest DEF RestStages
  <2>8. scan.data \in had[scan.name] /\ \A r \in scan.accepted : r.data \in had[r.name]
    BY <1>1 DEF OpenFile
  <2>9. OpenFile'
    <3>1. scan' = more /\ had' = had
      BY <1>4 DEF Scans
    <3>2. scan'.at = "names" /\ scan'.accepted = scan.accepted \cup {row}
      BY <2>4, <3>1
    <3>3. \A r \in scan'.accepted : r.data \in had'[r.name]
      BY <2>3, <2>8, <3>1, <3>2
    <3> QED
      BY <3>2, <3>3 DEF OpenFile, FileStages, OpenStages
  <2> QED
    BY <1>1, <2>7, <2>9
<1> QED
  BY <1>2, <1>3, <1>4


-----------------------------------------------------------------------------
\* A scan that nothing disturbs.

\* The sizes of the files of events, with the sum that ScanFits limits.
LEMMA LengthsFit ==
    ASSUME EventTyped, ScanFits
    PROVE  /\ IsFiniteSet(DOMAIN logs \cap EventNames)
           /\ \A f \in DOMAIN logs : Lengths[f] = Len(Data(f)) /\ Lengths[f] \in Nat
           /\ SumFunctionOnSet(Lengths, DOMAIN logs \cap EventNames) < MaxScanSize
<1> DEFINE E == DOMAIN logs \cap EventNames
<1>1. IsFiniteSet(E)
  BY FS_Subset, E \in SUBSET (DOMAIN logs) DEF EventTyped
<1>2. \A f \in DOMAIN logs : Lengths[f] = Len(Data(f)) /\ Lengths[f] \in Nat
  BY InodeTypes DEF Lengths, Data
<1>3. SumFunctionOnSet(Lengths, E) < MaxScanSize
  BY DEF ScanFits, Lengths
<1> QED
  BY <1>1, <1>2, <1>3

LEMMA OneMoreLength ==
    ASSUME EventTyped, ScanFits, NEW S \in SUBSET (DOMAIN logs \cap EventNames),
           NEW f \in (DOMAIN logs \cap EventNames) \ S
    PROVE  /\ SumFunctionOnSet(Lengths, S) \in Nat
           /\ SumFunctionOnSet(Lengths, S \cup {f}) = SumFunctionOnSet(Lengths, S) + Len(Data(f))
           /\ SumFunctionOnSet(Lengths, S) + Len(Data(f)) < MaxScanSize
<1> DEFINE E == DOMAIN logs \cap EventNames
           T == S \cup {f}
           R == E \ T
<1>1. /\ IsFiniteSet(E) /\ \A e \in E : Lengths[e] \in Nat
      /\ Lengths[f] = Len(Data(f)) /\ Lengths[f] \in Nat
      /\ SumFunctionOnSet(Lengths, E) < MaxScanSize
  BY LengthsFit
<1>2. S \in SUBSET E /\ T \in SUBSET E /\ R \in SUBSET E /\ T \cup R = E /\ T \cap R = {}
      /\ f \in T /\ T \ {f} = S
  OBVIOUS
<1> HIDE DEF E, T, R
<1>3. IsFiniteSet(S) /\ IsFiniteSet(T) /\ IsFiniteSet(R)
  BY <1>1, <1>2, FS_Subset
<1>4. /\ SumFunctionOnSet(Lengths, S) \in Nat /\ SumFunctionOnSet(Lengths, T) \in Nat
      /\ SumFunctionOnSet(Lengths, R) \in Nat
  BY <1>1, <1>2, <1>3, SumInNat
<1>5. SumFunctionOnSet(Lengths, T) = Lengths[f] + SumFunctionOnSet(Lengths, T \ {f})
  BY <1>1, <1>2, <1>3, SumOfRemove
<1>6. SumFunctionOnSet(Lengths, T \cup R) = SumFunctionOnSet(Lengths, T) + SumFunctionOnSet(Lengths, R)
  BY <1>1, <1>2, <1>3, SumOfUnion
<1>7. /\ SumFunctionOnSet(Lengths, T) = Lengths[f] + SumFunctionOnSet(Lengths, S)
      /\ SumFunctionOnSet(Lengths, T) + SumFunctionOnSet(Lengths, R) < MaxScanSize
  BY <1>1, <1>2, <1>5, <1>6
<1>8. MaxScanSize \in Nat
  BY EventConstants
<1>9. SumFunctionOnSet(Lengths, T) < MaxScanSize
  BY <1>4, <1>7, <1>8
<1>10. /\ SumFunctionOnSet(Lengths, T) = SumFunctionOnSet(Lengths, S) + Len(Data(f))
       /\ SumFunctionOnSet(Lengths, S) + Len(Data(f)) < MaxScanSize
  BY <1>1, <1>4, <1>7, <1>9
<1> QED
  BY <1>4, <1>10 DEF T

\* The steps of a scan change no file.
LEMMA SameFiles ==
    ASSUME UNCHANGED <<logs, inodes>>
    PROVE  /\ ScanFits' = ScanFits
           /\ Lengths' = Lengths
           /\ \A S : Reported(S)' = Reported(S)
           /\ \A i : Meta(i)' = Meta(i)
           /\ \A f : Data(f)' = Data(f)
<1>1. \A f : Data(f)' = Data(f)
  BY DEF Data
<1>2. \A i : Meta(i)' = Meta(i)
  BY DEF Meta
<1>3. Lengths' = Lengths
  BY <1>1 DEF Lengths
<1>4. \A S : Reported(S)' = Reported(S)
  BY <1>1 DEF Reported
<1>5. ScanFits' = ScanFits
  BY <1>1, <1>3 DEF ScanFits, Lengths
<1> QED
  BY <1>1, <1>2, <1>3, <1>4, <1>5

LEMMA PassedFacts ==
    ASSUME EventTyped
    PROVE  /\ \A f \in DOMAIN logs : f \in LogNames /\ LogDir[f] \in LogDirs /\ LogDir[f] # 0
           /\ IsFiniteSet(DOMAIN logs) /\ Passed \subseteq DOMAIN logs
           /\ IsFiniteSet(Passed) /\ IsFiniteSet(Passed \cap EventNames)
           /\ IsFiniteSet(LogDirs \cup Strays)
           /\ scan.dirs \subseteq LogDirs \cup Strays /\ IsFiniteSet(scan.dirs)
<1>1. \A f \in DOMAIN logs : f \in LogNames /\ LogDir[f] \in LogDirs /\ LogDir[f] # 0
  BY EventConstants DEF EventTyped, LogNames
<1>2. IsFiniteSet(DOMAIN logs) /\ Passed \subseteq DOMAIN logs
  BY DEF EventTyped, Passed
<1>3. IsFiniteSet(Passed) /\ IsFiniteSet(Passed \cap EventNames)
  BY <1>2, FS_Subset, Passed \in SUBSET (DOMAIN logs), (Passed \cap EventNames) \in SUBSET (DOMAIN logs)
<1>4. IsFiniteSet(LogDirs \cup Strays)
  BY EventConstants, FS_Union
<1>5. scan.dirs \in SUBSET (LogDirs \cup Strays)
  BY ScanTypes
<1>6. IsFiniteSet(scan.dirs)
  BY <1>4, <1>5, FS_Subset
<1> QED
  BY <1>1, <1>2, <1>3, <1>4, <1>5, <1>6

\* The scan has nothing left when all names are passed.
LEMMA DoneWhenPassed ==
    ASSUME EventTyped, ScanExact, Scans(Finished), scan.at \notin FileStages,
           DOMAIN logs \cap EventNames \subseteq Passed
    PROVE  scan'.at = "done" /\ ScanDone'
<1>1. scan' = Finished /\ UNCHANGED <<logs, inodes>>
  BY DEF Scans
<1>2. /\ scan'.at = "done" /\ scan'.limit = scan.limit /\ scan'.accepted = scan.accepted
      /\ scan'.events = Sorted(scan.accepted)
  BY <1>1, FinishedFacts
<1>3. scan.accepted = Reported(Passed)
  <2>1. Pending = {}
    BY DEF Pending
  <2> QED
    BY <2>1 DEF ScanExact
<1>4. Passed \cap EventNames = DOMAIN logs \cap EventNames
  BY PassedFacts
<1>5. Reported(Passed) = Reported(DOMAIN logs)
  BY <1>4 DEF Reported
<1>6. Reported(DOMAIN logs)' = Reported(DOMAIN logs)
  BY <1>1, SameFiles
<1>7. Sorted(scan.accepted)' = Sorted(scan.accepted)
  BY <1>2 DEF Sorted, Later
<1> QED
  BY <1>2, <1>3, <1>5, <1>6, <1>7 DEF ScanDone


ExactOrDone == /\ scan.at \notin {"idle", "done"} => ScanExact
               /\ scan.at = "done" => ScanDone

LEMMA ExactAtFirst ==
    ASSUME EventTyped, NEW limit \in Limits, AskActivity(limit)
    PROVE  ScanExact'
<1>1. /\ scan'.at = "dirs" /\ scan'.base = dirIds[0] /\ scan'.dirs = {} /\ scan'.dir = 0
      /\ scan'.must = {} /\ scan'.seen = {} /\ scan'.entries = 0 /\ scan'.files = 0
      /\ scan'.size = 0 /\ scan'.accepted = {}
  BY DEF AskActivity, Asleep
<1>2. logs' = logs /\ inodes' = inodes /\ dirIds' = dirIds
  BY DEF AskActivity
<1>3. Passed' = {} /\ Unread' = {} /\ Pending' = {}
  BY <1>1 DEF Passed, Unread, Pending, FileStages
<1>4. {f \in DOMAIN logs : LogDir[f] = 0} = {}
  BY PassedFacts
<1>5. Cardinality({}) = 0 /\ \A g : SumFunctionOnSet(g, {}) = 0
  BY FS_EmptySet, SumOfEmpty
<1>6. Reported({})' = {}
  BY DEF Reported
<1>7. /\ scan'.entries = Cardinality(scan'.dirs) + Cardinality(Passed')
      /\ scan'.files = Cardinality(Passed' \cap EventNames)
      /\ scan'.size = SumFunctionOnSet(Lengths', (Passed' \cap EventNames) \ Unread')
  BY <1>1, <1>3, <1>5
<1>8. scan'.accepted = Reported(Passed \ Pending)'
  <2>1. Passed' \ Pending' = {}
    BY <1>3
  <2>2. Reported(Passed \ Pending)' = {}
    BY <2>1 DEF Reported
  <2> QED
    BY <1>1, <2>2
<1> QED
  BY <1>1, <1>2, <1>4, <1>7, <1>8 DEF ScanExact, FileStages, OpenStages

LEMMA ExactNextDir ==
    ASSUME EventTyped, ScanFits, ScanExact, NEW d \in LogDirs \cup Strays, NextDir(d)
    PROVE  scan'.at \notin {"idle", "done"} /\ ScanExact'
<1> DEFINE entered == [scan EXCEPT !.at = "names", !.entries = @ + 1, !.dirs = @ \cup {d},
                               !.dir = d, !.dirId = dirIds[d], !.seen = {},
                               !.must = {f \in DOMAIN logs : LogDir[f] = d}]
           counted == [scan EXCEPT !.entries = @ + 1, !.dirs = @ \cup {d}]
<1>1. scan.at = "dirs" /\ d \notin scan.dirs
  BY DEF NextDir, ScanAt
<1>2. logs' = logs /\ inodes' = inodes /\ dirIds' = dirIds /\ Lengths' = Lengths
      /\ \A S : Reported(S)' = Reported(S)
  BY SameFiles DEF NextDir, Scans
<1>3. scan' = IF d \in LogDirs THEN entered ELSE counted
  BY DEF NextDir, Scans, ScanExact
<1>4. /\ scan'.at = IF d \in LogDirs THEN "names" ELSE "dirs"
      /\ scan'.entries = scan.entries + 1 /\ scan'.dirs = scan.dirs \cup {d}
      /\ scan'.dir = IF d \in LogDirs THEN d ELSE scan.dir
      /\ scan'.seen = IF d \in LogDirs THEN {} ELSE scan.seen
  BY <1>1, <1>3, ScanTypes DEF EventScans
<1>5. /\ scan'.base = scan.base /\ scan'.files = scan.files /\ scan'.size = scan.size
      /\ scan'.accepted = scan.accepted
      /\ scan'.dirId = IF d \in LogDirs THEN dirIds[d] ELSE scan.dirId
      /\ scan'.must = IF d \in LogDirs THEN {f \in DOMAIN logs : LogDir[f] = d} ELSE scan.must
  BY <1>3, ScanTypes DEF EventScans
<1>6. /\ scan.base = dirIds[0]
      /\ scan.must = {f \in DOMAIN logs : LogDir[f] = scan.dir} /\ scan.seen = scan.must
      /\ scan.entries = Cardinality(scan.dirs) + Cardinality(Passed)
      /\ scan.files = Cardinality(Passed \cap EventNames)
      /\ scan.size = SumFunctionOnSet(Lengths, (Passed \cap EventNames) \ Unread)
      /\ scan.accepted = Reported(Passed \ Pending)
  BY <1>1 DEF ScanExact
<1>7. Passed' = Passed
  <2>1. \A f \in DOMAIN logs : LogDir[f] \in LogDirs
    BY PassedFacts
  <2>2. Passed = {f \in DOMAIN logs : LogDir[f] \in scan.dirs}
    BY <1>6 DEF Passed
  <2>3. Passed' = {f \in DOMAIN logs : /\ LogDir[f] \in scan.dirs \cup {d}
                                       /\ LogDir[f] = scan'.dir => f \in scan'.seen}
    BY <1>2, <1>4 DEF Passed
  <2>4. CASE d \in LogDirs
    BY <1>1, <1>4, <2>2, <2>3, <2>4
  <2>5. CASE d \notin LogDirs
    BY <1>4, <1>6, <2>1, <2>2, <2>3, <2>5
  <2> QED
    BY <2>4, <2>5
<1>8. Unread = {} /\ Unread' = {} /\ Pending = {} /\ Pending' = {}
  BY <1>1, <1>4 DEF Unread, Pending, FileStages
<1>9. scan'.entries = Cardinality(scan'.dirs) + Cardinality(Passed')
  <2>1. /\ Cardinality(scan.dirs \cup {d}) = Cardinality(scan.dirs) + 1
        /\ Cardinality(scan.dirs) \in Nat /\ Cardinality(Passed) \in Nat
    BY <1>1, PassedFacts, FS_AddElement, FS_CardinalityType
  <2> QED
    BY <1>4, <1>6, <1>7, <2>1
<1>10. /\ scan'.files = Cardinality(Passed' \cap EventNames)
       /\ scan'.size = SumFunctionOnSet(Lengths', (Passed' \cap EventNames) \ Unread')
  BY <1>2, <1>5, <1>6, <1>7, <1>8
<1>11. scan'.accepted = Reported(Passed \ Pending)'
  <2>1. Reported(Passed \ Pending)' = Reported(Passed \ Pending)
    BY <1>2, <1>7, <1>8 DEF Reported, Data
  <2> QED
    BY <1>5, <1>6, <2>1
<1>12. /\ scan'.must = {f \in DOMAIN logs' : LogDir[f] = scan'.dir}
       /\ scan'.seen \subseteq scan'.must
       /\ scan'.at = "dirs" => scan'.seen = scan'.must
  BY <1>2, <1>4, <1>5, <1>6
<1>13. scan'.at # "dirs" => /\ scan'.dir \in scan'.dirs \cap LogDirs
                            /\ scan'.dirId = dirIds'[scan'.dir]
  BY <1>2, <1>4, <1>5
<1>14. scan'.base = dirIds'[0] /\ scan'.at \notin FileStages /\ scan'.at \notin OpenStages
       /\ scan'.at \notin {"read", "after", "path"} /\ scan'.at \notin {"idle", "done"}
  BY <1>2, <1>4, <1>5, <1>6 DEF FileStages, OpenStages
<1> QED
  BY <1>9, <1>10, <1>11, <1>12, <1>13, <1>14 DEF ScanExact

LEMMA ExactNoMoreDirs ==
    ASSUME EventTyped, ScanFits, ScanExact, NoMoreDirs
    PROVE  scan'.at = "done" /\ ScanDone'
<1>1. scan.at = "dirs" /\ Scans(Finished)
  BY DEF NoMoreDirs, ScanAt
<1>2. /\ scan.must = {f \in DOMAIN logs : LogDir[f] = scan.dir} /\ scan.seen = scan.must
      /\ scan.entries = Cardinality(scan.dirs) + Cardinality(Passed)
  BY <1>1 DEF ScanExact
<1>3. /\ \A f \in DOMAIN logs : LogDir[f] \in LogDirs
      /\ IsFiniteSet(DOMAIN logs) /\ Passed \subseteq DOMAIN logs
      /\ IsFiniteSet(Passed) /\ IsFiniteSet(LogDirs \cup Strays)
      /\ scan.dirs \subseteq LogDirs \cup Strays /\ IsFiniteSet(scan.dirs)
      /\ IsFiniteSet(LogDirs)
  BY PassedFacts, EventConstants
<1>4. /\ Cardinality(LogDirs) \in Nat /\ Cardinality(LogDirs \cup Strays) \in Nat
      /\ Cardinality(DOMAIN logs) \in Nat /\ Cardinality(Passed) \in Nat
      /\ Cardinality(scan.dirs) \in Nat
  BY <1>3, FS_CardinalityType
<1>5. Passed = {f \in DOMAIN logs : LogDir[f] \in scan.dirs}
  BY <1>2 DEF Passed
<1>6. DOMAIN logs \subseteq Passed
  <2>1. CASE LogDirs \cup Strays \subseteq scan.dirs
    BY <1>3, <1>5, <2>1
  <2>2. CASE DirsRead = MaxScanDirs
    <3> DEFINE R == scan.dirs \cap LogDirs
    <3>1. Cardinality(R) = MaxScanDirs /\ Cardinality(LogDirs) <= MaxScanDirs /\ MaxScanDirs \in Nat
      BY <2>2, ScanTypes DEF DirsRead, ScanFits
    <3>2. R \in SUBSET LogDirs
      OBVIOUS
    <3>3. /\ Cardinality(R) <= Cardinality(LogDirs)
          /\ Cardinality(LogDirs) = Cardinality(R) => LogDirs = R
      BY <1>3, <3>2, FS_Subset
    <3>4. LogDirs = R
      BY <1>4, <3>1, <3>3
    <3> QED
      BY <1>3, <1>5, <3>4
  <2>3. CASE scan.entries = MaxScanEntries
    <3>1. Cardinality(DOMAIN logs) + Cardinality(LogDirs \cup Strays) <= MaxScanEntries
      BY DEF ScanFits
    <3>2. /\ Cardinality(Passed) <= Cardinality(DOMAIN logs)
          /\ Cardinality(DOMAIN logs) = Cardinality(Passed) => DOMAIN logs = Passed
      BY <1>3, FS_Subset, Passed \in SUBSET (DOMAIN logs)
    <3>3. Cardinality(scan.dirs) <= Cardinality(LogDirs \cup Strays)
      BY <1>3, FS_Subset, scan.dirs \in SUBSET (LogDirs \cup Strays)
    <3>4. MaxScanEntries \in Nat
      BY ScanTypes
    <3>5. Cardinality(scan.dirs) + Cardinality(Passed) = MaxScanEntries
      BY <1>2, <2>3
    <3>6. Cardinality(DOMAIN logs) = Cardinality(Passed)
      BY <1>4, <3>1, <3>2, <3>3, <3>4, <3>5
    <3> QED
      BY <3>2, <3>6
  <2> QED
    BY <2>1, <2>2, <2>3 DEF NoMoreDirs
<1> QED
  BY <1>1, <1>6, DoneWhenPassed DEF FileStages


LEMMA ExactNextName ==
    ASSUME EventTyped, ScanFits, ScanExact, NEW f \in LogNames, NextName(f)
    PROVE  scan'.at \notin {"idle", "done"} /\ ScanExact'
<1> DEFINE counted == [scan EXCEPT !.seen = @ \cup {f}, !.entries = @ + 1,
                                !.files = @ + IF f \in EventNames THEN 1 ELSE 0]
           open == [counted EXCEPT !.at = "open", !.name = f, !.expected = Meta(logs[f])]
<1>1. /\ scan.at = "names" /\ scan.at \notin FileStages /\ LogDir[f] = scan.dir
      /\ f \notin scan.seen /\ f \in DOMAIN logs \cup scan.must
  BY DEF NextName, ScanAt, FileStages
<1>2. logs' = logs /\ inodes' = inodes /\ dirIds' = dirIds
  BY FinishedFacts DEF NextName, Scans
<1>3. Lengths' = Lengths /\ \A S : Reported(S)' = Reported(S)
  BY <1>2, SameFiles
<1>4. /\ scan.base = dirIds[0] /\ scan.dir \in scan.dirs \cap LogDirs
      /\ scan.dirId = dirIds[scan.dir]
      /\ scan.must = {e \in DOMAIN logs : LogDir[e] = scan.dir} /\ scan.seen \subseteq scan.must
      /\ scan.entries = Cardinality(scan.dirs) + Cardinality(Passed)
      /\ scan.files = Cardinality(Passed \cap EventNames)
      /\ scan.size = SumFunctionOnSet(Lengths, (Passed \cap EventNames) \ Unread)
      /\ scan.accepted = Reported(Passed \ Pending)
  BY <1>1 DEF ScanExact
<1>5. f \in DOMAIN logs /\ f \in scan.must /\ f \notin Passed
  BY <1>1, <1>4 DEF Passed
<1>6. Unread = {} /\ Pending = {}
  BY <1>1 DEF Unread, Pending, FileStages
<1>7. /\ IsFiniteSet(Passed) /\ IsFiniteSet(Passed \cap EventNames) /\ Passed \subseteq DOMAIN logs
      /\ Cardinality(Passed) \in Nat /\ Cardinality(Passed \cap EventNames) \in Nat
      /\ Cardinality(scan.dirs) \in Nat
  BY PassedFacts, FS_CardinalityType
<1>8. Cardinality(Passed \cup {f}) = Cardinality(Passed) + 1
  BY <1>5, <1>7, FS_AddElement
\* What is the same for a file of either kind.
<1>9. ASSUME NEW new, scan' = new, new.dirs = scan.dirs, new.dir = scan.dir, new.dirId = scan.dirId,
             new.base = scan.base, new.must = scan.must, new.seen = scan.seen \cup {f},
             new.entries = scan.entries + 1, new.size = scan.size, new.accepted = scan.accepted
      PROVE  /\ Passed' = Passed \cup {f}
             /\ scan'.base = dirIds'[0] /\ scan'.dir \in scan'.dirs \cap LogDirs
             /\ scan'.dirId = dirIds'[scan'.dir]
             /\ scan'.must = {e \in DOMAIN logs' : LogDir[e] = scan'.dir}
             /\ scan'.seen \subseteq scan'.must
             /\ scan'.entries = Cardinality(scan'.dirs) + Cardinality(Passed')
  <2>1. Passed' = Passed \cup {f}
    <3>1. Passed' = {e \in DOMAIN logs : /\ LogDir[e] \in scan.dirs
                                         /\ LogDir[e] = scan.dir => e \in scan.seen \cup {f}}
      BY <1>2, <1>9 DEF Passed
    <3> QED
      BY <1>1, <1>4, <1>5, <3>1 DEF Passed
  <2>2. scan'.entries = Cardinality(scan'.dirs) + Cardinality(Passed')
    <3>1. scan'.entries = Cardinality(scan.dirs) + Cardinality(Passed) + 1
      BY <1>4, <1>9
    <3> QED
      BY <1>7, <1>8, <1>9, <2>1, <3>1
  <2> QED
    BY <1>2, <1>4, <1>5, <1>9, <2>1, <2>2
<1>10. CASE f \notin EventNames
  <2>1. scan' = counted
    BY <1>10 DEF NextName, Scans
  <2>2. /\ counted.dirs = scan.dirs /\ counted.dir = scan.dir /\ counted.dirId = scan.dirId
        /\ counted.base = scan.base /\ counted.must = scan.must
        /\ counted.seen = scan.seen \cup {f} /\ counted.entries = scan.entries + 1
    BY ScanTypes DEF EventScans
  <2>3. /\ counted.size = scan.size /\ counted.accepted = scan.accepted /\ counted.at = "names"
        /\ counted.files = scan.files
    BY <1>1, <1>10, ScanTypes DEF EventScans
  <2> HIDE DEF counted
  <2>4. /\ Passed' = Passed \cup {f}
        /\ scan'.base = dirIds'[0] /\ scan'.dir \in scan'.dirs \cap LogDirs
        /\ scan'.dirId = dirIds'[scan'.dir]
        /\ scan'.must = {e \in DOMAIN logs' : LogDir[e] = scan'.dir}
        /\ scan'.seen \subseteq scan'.must
        /\ scan'.entries = Cardinality(scan'.dirs) + Cardinality(Passed')
    BY <1>9, <2>1, <2>2, <2>3
  <2>5. scan'.at = "names" /\ Unread' = {} /\ Pending' = {}
    BY <2>1, <2>3 DEF Unread, Pending, FileStages
  <2>6. Passed' \cap EventNames = Passed \cap EventNames
    BY <1>10, <2>4
  <2>7. /\ scan'.files = Cardinality(Passed' \cap EventNames)
        /\ scan'.size = SumFunctionOnSet(Lengths', (Passed' \cap EventNames) \ Unread')
    BY <1>3, <1>4, <1>6, <2>1, <2>3, <2>5, <2>6
  <2>8. scan'.accepted = Reported(Passed \ Pending)'
    <3>1. Reported(Passed \ Pending)' = Reported(Passed \ Pending)
      BY <1>2, <1>6, <2>5, <2>6 DEF Reported, Data
    <3> QED
      BY <1>4, <2>1, <2>3, <3>1
  <2> QED
    BY <2>4, <2>5, <2>7, <2>8 DEF ScanExact, FileStages, OpenStages
<1>11. CASE f \in EventNames
  <2>1. ~ TooLarge(Len(Data(f)))
    <3>1. Len(Data(f)) <= MaxFileSize /\ Len(Data(f)) \in Nat
      BY <1>5, <1>11, LengthsFit DEF ScanFits
    <3>2. scan.size = SumFunctionOnSet(Lengths, Passed \cap EventNames)
      BY <1>4, <1>6
    <3>3. SumFunctionOnSet(Lengths, Passed \cap EventNames) + Len(Data(f)) < MaxScanSize
      BY <1>5, <1>7, <1>11, OneMoreLength
    <3>4. scan.size \in Nat /\ MaxScanSize \in Nat /\ MaxFileSize \in Nat
      BY ScanTypes
    <3>5. scan.size + Len(Data(f)) < MaxScanSize
      BY <3>2, <3>3
    <3>6. Len(Data(f)) + 1 <= MaxScanSize - scan.size
      BY <3>1, <3>4, <3>5
    <3> QED
      BY <3>1, <3>4, <3>6 DEF TooLarge
  <2>2. scan' = open
    BY <1>4, <1>5, <1>11, <2>1 DEF NextName, Scans
  <2>3. /\ open.dirs = scan.dirs /\ open.dir = scan.dir /\ open.dirId = scan.dirId
        /\ open.base = scan.base /\ open.must = scan.must
        /\ open.seen = scan.seen \cup {f} /\ open.entries = scan.entries + 1
    BY ScanTypes DEF EventScans
  <2>4. /\ open.size = scan.size /\ open.accepted = scan.accepted /\ open.at = "open"
        /\ open.files = scan.files + 1 /\ open.name = f /\ open.expected = Meta(logs[f])
    BY <1>11, ScanTypes DEF EventScans
  <2> HIDE DEF open
  <2>5. /\ Passed' = Passed \cup {f}
        /\ scan'.base = dirIds'[0] /\ scan'.dir \in scan'.dirs \cap LogDirs
        /\ scan'.dirId = dirIds'[scan'.dir]
        /\ scan'.must = {e \in DOMAIN logs' : LogDir[e] = scan'.dir}
        /\ scan'.seen \subseteq scan'.must
        /\ scan'.entries = Cardinality(scan'.dirs) + Cardinality(Passed')
    BY <1>9, <2>2, <2>3, <2>4
  <2>6. scan'.at = "open" /\ Unread' = {f} /\ Pending' = {f} /\ scan'.at \in FileStages
    BY <2>2, <2>4 DEF Unread, Pending, FileStages
  <2>7. /\ Passed' \cap EventNames = (Passed \cap EventNames) \cup {f}
        /\ Passed' \ Pending' = Passed
        /\ (Passed' \cap EventNames) \ Unread' = Passed \cap EventNames
    BY <1>5, <1>11, <2>5, <2>6
  <2>8. scan'.files = Cardinality(Passed' \cap EventNames)
    <3>1. Cardinality((Passed \cap EventNames) \cup {f}) = Cardinality(Passed \cap EventNames) + 1
      BY <1>5, <1>7, FS_AddElement
    <3> QED
      BY <1>4, <2>2, <2>4, <2>7, <3>1
  <2>9. scan'.size = SumFunctionOnSet(Lengths', (Passed' \cap EventNames) \ Unread')
    BY <1>3, <1>4, <1>6, <2>2, <2>4, <2>7
  <2>10. scan'.accepted = Reported(Passed \ Pending)'
    <3>1. Reported(Passed \ Pending)' = Reported(Passed)
      BY <1>2, <2>7 DEF Reported, Data
    <3> QED
      BY <1>4, <1>6, <2>2, <2>4, <3>1
  <2>11. scan'.name \in scan'.seen /\ scan'.expected = Meta(logs[scan.name])'
    BY <1>2, <2>2, <2>3, <2>4 DEF Meta
  <2> QED
    BY <2>5, <2>6, <2>8, <2>9, <2>10, <2>11 DEF ScanExact, FileStages, OpenStages
<1> QED
  BY <1>10, <1>11


LEMMA ExactNoMoreNames ==
    ASSUME EventTyped, ScanFits, ScanExact, NoMoreNames
    PROVE  ExactOrDone' /\ scan'.at # "idle"
<1> DEFINE left == [scan EXCEPT !.at = "dirs"]
<1>1. scan.at = "names" /\ scan.at \notin FileStages
  BY DEF NoMoreNames, ScanAt, FileStages
<1>2. /\ scan.base = dirIds[0]
      /\ scan.must = {f \in DOMAIN logs : LogDir[f] = scan.dir} /\ scan.seen \subseteq scan.must
      /\ scan.entries = Cardinality(scan.dirs) + Cardinality(Passed)
      /\ scan.files = Cardinality(Passed \cap EventNames)
      /\ scan.size = SumFunctionOnSet(Lengths, (Passed \cap EventNames) \ Unread)
      /\ scan.accepted = Reported(Passed \ Pending)
      /\ scan.dir \in scan.dirs \cap LogDirs
  BY <1>1 DEF ScanExact
<1>3. /\ IsFiniteSet(DOMAIN logs) /\ Passed \subseteq DOMAIN logs
      /\ IsFiniteSet(Passed) /\ IsFiniteSet(Passed \cap EventNames)
      /\ scan.dirs \subseteq LogDirs \cup Strays
      /\ IsFiniteSet(LogDirs \cup Strays) /\ IsFiniteSet(scan.dirs)
  BY PassedFacts
<1>4. /\ Cardinality(LogDirs \cup Strays) \in Nat /\ Cardinality(DOMAIN logs) \in Nat
      /\ Cardinality(Passed) \in Nat /\ Cardinality(scan.dirs) \in Nat
  BY <1>3, FS_CardinalityType
<1>5. CASE scan.files >= MaxScanFiles
  <2> DEFINE E == DOMAIN logs \cap EventNames
             P == Passed \cap EventNames
  <2>1. Scans(Finished)
    BY <1>5 DEF NoMoreNames
  <2>2. P \in SUBSET E /\ IsFiniteSet(E)
    BY <1>3, LengthsFit
  <2>3. Cardinality(E) <= MaxScanFiles /\ MaxScanFiles \in Nat
    BY ScanTypes DEF ScanFits
  <2>4. Cardinality(P) >= MaxScanFiles
    BY <1>2, <1>5
  <2> HIDE DEF E, P
  <2>5. /\ Cardinality(P) <= Cardinality(E) /\ (Cardinality(E) = Cardinality(P) => E = P)
        /\ Cardinality(E) \in Nat
    BY <2>2, FS_Subset, FS_CardinalityType
  <2>6. IsFiniteSet(P)
    BY <2>2, FS_Subset
  <2>7. Cardinality(P) \in Nat
    BY <2>6, FS_CardinalityType
  <2>8. E = P
    BY <2>3, <2>4, <2>5, <2>7
  <2>9. DOMAIN logs \cap EventNames \subseteq Passed
    BY <2>8 DEF E, P
  <2>10. scan'.at = "done" /\ ScanDone'
    BY <1>1, <2>1, <2>9, DoneWhenPassed
  <2> QED
    BY <2>10 DEF ExactOrDone
<1>6. CASE ~ (scan.files >= MaxScanFiles)
  <2>1. Scans(left)
    BY <1>6 DEF NoMoreNames
  <2>2. scan.must \subseteq scan.seen
    <3>1. CASE scan.must \cap DOMAIN logs \subseteq scan.seen
      BY <1>2, <3>1
    <3>2. CASE ~ NamesLeft
      <4>1. Cardinality(scan.seen) >= MaxDirEntries \/ scan.entries >= MaxScanEntries
        <5>1. \/ ~ (Cardinality(scan.seen) < MaxDirEntries)
              \/ ~ (scan.entries < MaxScanEntries)
              \/ ~ (scan.files < MaxScanFiles)
          BY <3>2 DEF NamesLeft
        <5>2. /\ scan.entries \in Nat /\ MaxScanEntries \in Nat /\ MaxDirEntries \in Nat
              /\ scan.files \in Nat /\ MaxScanFiles \in Nat
          BY ScanTypes
        <5>3. IsFiniteSet(scan.seen)
          BY <1>2, <1>3, FS_Subset, scan.seen \in SUBSET (DOMAIN logs)
        <5>4. Cardinality(scan.seen) \in Nat
          BY <5>3, FS_CardinalityType
        <5> QED
          BY <1>6, <5>1, <5>2, <5>4
      <4>2. CASE Cardinality(scan.seen) >= MaxDirEntries
        <5> DEFINE M == scan.must
                   S == scan.seen
        <5>1. Cardinality(M) <= MaxDirEntries
          BY <1>2 DEF ScanFits
        <5>2. IsFiniteSet(M) /\ S \in SUBSET M
          BY <1>2, <1>3, FS_Subset, scan.must \in SUBSET (DOMAIN logs)
        <5> HIDE DEF M, S
        <5>3. /\ Cardinality(S) <= Cardinality(M) /\ (Cardinality(M) = Cardinality(S) => M = S)
              /\ IsFiniteSet(S)
          BY <5>2, FS_Subset
        <5>4. Cardinality(M) \in Nat /\ Cardinality(S) \in Nat /\ MaxDirEntries \in Nat
          BY <5>2, <5>3, FS_CardinalityType, ScanTypes
        <5>5. Cardinality(S) >= MaxDirEntries
          BY <4>2 DEF S
        <5>6. M = S
          BY <5>1, <5>3, <5>4, <5>5
        <5> QED
          BY <5>6 DEF M, S
      <4>3. CASE scan.entries >= MaxScanEntries
        <5>1. Cardinality(DOMAIN logs) + Cardinality(LogDirs \cup Strays) <= MaxScanEntries
          BY DEF ScanFits
        <5>2. /\ Cardinality(Passed) <= Cardinality(DOMAIN logs)
              /\ Cardinality(DOMAIN logs) = Cardinality(Passed) => DOMAIN logs = Passed
          BY <1>3, FS_Subset, Passed \in SUBSET (DOMAIN logs)
        <5>3. Cardinality(scan.dirs) <= Cardinality(LogDirs \cup Strays)
          BY <1>3, FS_Subset, scan.dirs \in SUBSET (LogDirs \cup Strays)
        <5>4. MaxScanEntries \in Nat
          BY ScanTypes
        <5>5. Cardinality(scan.dirs) + Cardinality(Passed) >= MaxScanEntries
          BY <1>2, <4>3
        <5>6. Cardinality(DOMAIN logs) = Cardinality(Passed)
          BY <1>4, <5>1, <5>2, <5>3, <5>4, <5>5
        <5>7. DOMAIN logs = Passed
          BY <5>2, <5>6
        <5> QED
          BY <1>2, <5>7 DEF Passed
      <4> QED
        BY <4>1, <4>2, <4>3
    <3> QED
      BY <3>1, <3>2 DEF NoMoreNames
  <2>3. /\ scan' = left /\ logs' = logs /\ inodes' = inodes /\ dirIds' = dirIds
        /\ Lengths' = Lengths
    BY <2>1, SameFiles DEF Scans
  <2>4. /\ left.at = "dirs" /\ left.base = scan.base /\ left.dirs = scan.dirs /\ left.dir = scan.dir
        /\ left.must = scan.must /\ left.seen = scan.seen
    BY ScanTypes DEF EventScans
  <2>5. /\ left.entries = scan.entries /\ left.files = scan.files /\ left.size = scan.size
        /\ left.accepted = scan.accepted
    BY ScanTypes DEF EventScans
  <2> HIDE DEF left
  <2>6. Passed' = Passed /\ scan'.at = "dirs" /\ Unread' = {} /\ Pending' = {}
    BY <2>3, <2>4 DEF Passed, Unread, Pending, FileStages
  <2>7. Unread = {} /\ Pending = {}
    BY <1>1 DEF Unread, Pending, FileStages
  <2>8. scan'.accepted = Reported(Passed \ Pending)'
    <3>1. Reported(Passed \ Pending)' = Reported(Passed \ Pending)
      BY <2>3, <2>6, <2>7 DEF Reported, Data
    <3> QED
      BY <1>2, <2>3, <2>5, <3>1
  <2>9. /\ scan'.entries = Cardinality(scan'.dirs) + Cardinality(Passed')
        /\ scan'.files = Cardinality(Passed' \cap EventNames)
        /\ scan'.size = SumFunctionOnSet(Lengths', (Passed' \cap EventNames) \ Unread')
    BY <1>2, <2>3, <2>4, <2>5, <2>6, <2>7
  <2>10. /\ scan'.base = dirIds'[0] /\ scan'.must = {f \in DOMAIN logs' : LogDir[f] = scan'.dir}
         /\ scan'.seen = scan'.must
    BY <1>2, <2>2, <2>3, <2>4
  <2>11. ScanExact'
    BY <2>6, <2>8, <2>9, <2>10 DEF ScanExact, FileStages, OpenStages
  <2> QED
    BY <2>6, <2>11 DEF ExactOrDone
<1> QED
  BY <1>5, <1>6

\* What does not change from one look at a file to the next.
LEMMA ExactAtFile ==
    ASSUME EventTyped, ScanExact, scan.at \in FileStages, NEW new, Scans(new), new.at \in FileStages,
           new.base = scan.base, new.dirs = scan.dirs, new.dir = scan.dir, new.dirId = scan.dirId,
           new.must = scan.must, new.seen = scan.seen, new.entries = scan.entries,
           new.files = scan.files, new.accepted = scan.accepted, new.name = scan.name,
           new.expected = scan.expected,
           new.at \in OpenStages => new.fd = logs[scan.name] /\ new.opened = scan.expected,
           new.at = "read" => /\ Len(new.data) <= Len(Data(scan.name))
                              /\ \A i \in 1 .. Len(new.data) : new.data[i] = Data(scan.name)[i],
           new.at \in {"after", "path"} => new.data = Data(scan.name),
           new.size = SumFunctionOnSet(Lengths, (Passed \cap EventNames) \
                        (IF new.at \in {"open", "before", "read"} THEN {scan.name} ELSE {}))
    PROVE  ScanExact'
<1>1. /\ scan' = new /\ logs' = logs /\ inodes' = inodes /\ dirIds' = dirIds /\ Lengths' = Lengths
      /\ Meta(logs[scan.name])' = Meta(logs[scan.name])
  BY SameFiles DEF Scans, Meta
<1>2. /\ Passed' = Passed /\ Pending = {scan.name} /\ Pending' = {scan.name}
      /\ Unread' = IF new.at \in {"open", "before", "read"} THEN {scan.name} ELSE {}
      /\ Data(scan.name)' = Data(scan.name)
  BY <1>1 DEF Passed, Pending, Unread, Data
<1>3. /\ scan.base = dirIds[0] /\ scan.dir \in scan.dirs \cap LogDirs
      /\ scan.dirId = dirIds[scan.dir]
      /\ scan.must = {f \in DOMAIN logs : LogDir[f] = scan.dir} /\ scan.seen \subseteq scan.must
      /\ scan.entries = Cardinality(scan.dirs) + Cardinality(Passed)
      /\ scan.files = Cardinality(Passed \cap EventNames)
      /\ scan.accepted = Reported(Passed \ Pending)
      /\ scan.name \in scan.seen /\ scan.expected = Meta(logs[scan.name])
  BY DEF ScanExact, FileStages
<1>4. scan'.accepted = Reported(Passed \ Pending)'
  <2>1. Reported(Passed \ Pending)' = Reported(Passed \ Pending)
    BY <1>1, <1>2 DEF Reported, Data
  <2> QED
    BY <1>1, <1>3, <2>1
<1>5. /\ scan'.entries = Cardinality(scan'.dirs) + Cardinality(Passed')
      /\ scan'.files = Cardinality(Passed' \cap EventNames)
      /\ scan'.size = SumFunctionOnSet(Lengths', (Passed' \cap EventNames) \ Unread')
  BY <1>1, <1>2, <1>3
<1>6. /\ scan'.base = dirIds'[0] /\ scan'.dir \in scan'.dirs \cap LogDirs
      /\ scan'.dirId = dirIds'[scan'.dir]
      /\ scan'.must = {f \in DOMAIN logs' : LogDir[f] = scan'.dir} /\ scan'.seen \subseteq scan'.must
      /\ scan'.name \in scan'.seen /\ scan'.expected = Meta(logs[scan.name])'
      /\ scan'.at # "dirs"
  BY <1>1, <1>3 DEF FileStages, Meta
<1>7. /\ scan'.at \in OpenStages => /\ scan'.fd = logs'[scan'.name]
                                    /\ scan'.opened = scan'.expected
      /\ scan'.at = "read" => /\ Len(scan'.data) <= Len(Data(scan.name)')
                              /\ \A i \in 1 .. Len(scan'.data) : scan'.data[i] = Data(scan.name)'[i]
      /\ scan'.at \in {"after", "path"} => scan'.data = Data(scan.name)'
  BY <1>1, <1>2
<1> QED
  BY <1>4, <1>5, <1>6, <1>7 DEF ScanExact


\* The file that is looked at is there, and is an event the scan has come to.
LEMMA CurrentFile ==
    ASSUME EventTyped, ScanExact, scan.at \in FileStages
    PROVE  /\ scan.name \in DOMAIN logs /\ scan.name \in EventNames /\ scan.name \in Passed
           /\ scan.expected = Meta(logs[scan.name]) /\ logs[scan.name] \in DOMAIN inodes
           /\ scan.expected.inode = logs[scan.name] /\ scan.expected.size = Len(Data(scan.name))
<1>1. scan.at # "dirs"
  BY DEF FileStages
<1>2. /\ scan.name \in scan.seen /\ scan.seen \subseteq scan.must
      /\ scan.must = {f \in DOMAIN logs : LogDir[f] = scan.dir} /\ scan.dir \in scan.dirs
      /\ scan.expected = Meta(logs[scan.name])
  BY <1>1 DEF ScanExact
<1>3. scan.name \in DOMAIN logs /\ scan.name \in EventNames /\ scan.name \in Passed
  BY <1>2 DEF Passed, EventTyped
<1>4. logs[scan.name] \in DOMAIN inodes
  BY <1>3, InodeTypes
<1> QED
  BY <1>2, <1>3, <1>4, MetaType DEF Data

LEMMA ExactOpenLog ==
    ASSUME EventTyped, ScanExact, OpenLog
    PROVE  ScanExact' /\ scan'.at \notin {"idle", "done"}
<1> DEFINE new == [scan EXCEPT !.at = "before", !.fd = logs[scan.name],
                               !.opened = Meta(logs[scan.name])]
<1>1. scan.at = "open" /\ scan.at \in FileStages
  BY DEF OpenLog, ScanAt, FileStages
<1>2. scan.name \in DOMAIN logs /\ scan.expected = Meta(logs[scan.name])
  BY <1>1, CurrentFile
<1>3. Scans(new)
  BY <1>2 DEF OpenLog
<1>4. /\ new.base = scan.base /\ new.dirs = scan.dirs /\ new.dir = scan.dir /\ new.dirId = scan.dirId
      /\ new.must = scan.must /\ new.seen = scan.seen /\ new.entries = scan.entries
      /\ new.files = scan.files /\ new.accepted = scan.accepted /\ new.name = scan.name
      /\ new.expected = scan.expected
  BY ScanTypes DEF EventScans
<1>5. /\ new.at = "before" /\ new.fd = logs[scan.name] /\ new.opened = scan.expected
      /\ new.size = scan.size
  BY <1>2, ScanTypes DEF EventScans
<1> HIDE DEF new
<1>6. scan.size = SumFunctionOnSet(Lengths, (Passed \cap EventNames) \ {scan.name})
  BY <1>1 DEF ScanExact, Unread
<1>7. new.at \in FileStages /\ new.at # "read" /\ new.at \notin {"after", "path"}
  BY <1>5 DEF FileStages
<1>8. new.size = SumFunctionOnSet(Lengths, (Passed \cap EventNames) \
                   (IF new.at \in {"open", "before", "read"} THEN {scan.name} ELSE {}))
  BY <1>5, <1>6
<1>9. ScanExact'
  BY <1>1, <1>3, <1>4, <1>5, <1>7, <1>8, ExactAtFile
<1>10. scan'.at = "before"
  BY <1>3, <1>5 DEF Scans
<1> QED
  BY <1>9, <1>10

LEMMA ExactLookBefore ==
    ASSUME EventTyped, ScanExact, LookBefore
    PROVE  ScanExact' /\ scan'.at \notin {"idle", "done"}
<1> DEFINE new == [scan EXCEPT !.at = "read", !.data = <<>>]
<1>1. scan.at = "before" /\ scan.at \in FileStages /\ scan.at \in OpenStages
  BY DEF LookBefore, ScanAt, FileStages, OpenStages
<1>2. scan.name \in DOMAIN logs /\ scan.expected = Meta(logs[scan.name])
  BY <1>1, CurrentFile
<1>3. scan.fd = logs[scan.name] /\ scan.opened = scan.expected
  BY <1>1 DEF ScanExact
<1>4. Scans(new)
  BY <1>2, <1>3 DEF LookBefore, SameRegular, LooksAs
<1>5. /\ new.base = scan.base /\ new.dirs = scan.dirs /\ new.dir = scan.dir /\ new.dirId = scan.dirId
      /\ new.must = scan.must /\ new.seen = scan.seen /\ new.entries = scan.entries
      /\ new.files = scan.files /\ new.accepted = scan.accepted /\ new.name = scan.name
      /\ new.expected = scan.expected
  BY ScanTypes DEF EventScans
<1>6. /\ new.at = "read" /\ new.fd = logs[scan.name] /\ new.opened = scan.expected
      /\ new.size = scan.size /\ new.data = <<>>
  BY <1>3, ScanTypes DEF EventScans
<1> HIDE DEF new
<1>7. scan.size = SumFunctionOnSet(Lengths, (Passed \cap EventNames) \ {scan.name})
  BY <1>1 DEF ScanExact, Unread
<1>8. new.at \in FileStages /\ new.at \notin {"after", "path"}
  BY <1>6 DEF FileStages
<1>9. new.size = SumFunctionOnSet(Lengths, (Passed \cap EventNames) \
                   (IF new.at \in {"open", "before", "read"} THEN {scan.name} ELSE {}))
  BY <1>6, <1>7
<1>10. /\ Len(new.data) <= Len(Data(scan.name))
       /\ \A i \in 1 .. Len(new.data) : new.data[i] = Data(scan.name)[i]
  <2>1. Len(<<>>) = 0 /\ Len(Data(scan.name)) \in Nat
    BY <1>2, InodeTypes DEF Data
  <2> QED
    BY <1>6, <2>1
<1>11. ScanExact'
  BY <1>1, <1>4, <1>5, <1>6, <1>8, <1>9, <1>10, ExactAtFile
<1>12. scan'.at = "read"
  BY <1>4, <1>6 DEF Scans
<1> QED
  BY <1>11, <1>12

LEMMA ExactReadLog ==
    ASSUME EventTyped, ScanFits, ScanExact, ReadLog
    PROVE  ScanExact' /\ scan'.at \notin {"idle", "done"}
<1> DEFINE content == inodes[scan.fd].data
           soFar == Len(scan.data)
           most == Min({MaxFileSize + 1, MaxScanSize - scan.size})
           more == [scan EXCEPT !.data = Append(@, content[soFar + 1])]
           after == [scan EXCEPT !.at = "after", !.size = @ + soFar]
           S == (Passed \cap EventNames) \ {scan.name}
<1>1. scan.at = "read" /\ scan.at \in FileStages /\ scan.at \in OpenStages
  BY DEF ReadLog, ScanAt, FileStages, OpenStages
<1>2. /\ scan.name \in DOMAIN logs /\ scan.name \in EventNames /\ scan.name \in Passed
      /\ Passed \subseteq DOMAIN logs
  BY <1>1, CurrentFile, PassedFacts
<1>3. /\ scan.fd = logs[scan.name] /\ scan.opened = scan.expected
      /\ content = Data(scan.name) /\ soFar <= Len(content)
      /\ \A i \in 1 .. soFar : scan.data[i] = content[i]
  BY <1>1 DEF ScanExact, Data
<1>4. content \in Seq(Nat) /\ Len(content) \in Nat /\ soFar \in Nat /\ scan.data \in Seq(Nat)
  BY <1>2, <1>3, InodeTypes, ScanTypes
<1>5. /\ scan.size = SumFunctionOnSet(Lengths, S)
      /\ SumFunctionOnSet(Lengths, S \cup {scan.name}) = scan.size + Len(content)
      /\ scan.size + Len(content) < MaxScanSize
  <2>1. scan.size = SumFunctionOnSet(Lengths, S)
    BY <1>1 DEF ScanExact, Unread
  <2>2. S \in SUBSET (DOMAIN logs \cap EventNames) /\ scan.name \in (DOMAIN logs \cap EventNames) \ S
    BY <1>2
  <2>3. /\ SumFunctionOnSet(Lengths, S \cup {scan.name}) = SumFunctionOnSet(Lengths, S) + Len(Data(scan.name))
        /\ SumFunctionOnSet(Lengths, S) + Len(Data(scan.name)) < MaxScanSize
    <3> HIDE DEF S
    <3> QED
      BY <2>2, OneMoreLength
  <2> HIDE DEF S, content
  <2> QED
    BY <1>3, <2>1, <2>3
<1>6. S \cup {scan.name} = Passed \cap EventNames
  BY <1>2
<1>7. /\ \/ soFar < most /\ soFar < Len(content) /\ Scans(more)
         \/ ~ (soFar < most /\ soFar < Len(content)) /\ Scans(after)
  BY DEF ReadLog
<1>8. Len(content) < most
  <2>1. Len(content) <= MaxFileSize
    BY <1>2, <1>3 DEF ScanFits
  <2>2. scan.size \in Nat /\ MaxScanSize \in Nat /\ MaxFileSize \in Nat
    BY ScanTypes
  <2> HIDE DEF content
  <2>3. Len(content) < MaxFileSize + 1 /\ Len(content) < MaxScanSize - scan.size
    BY <1>4, <1>5, <2>1, <2>2
  <2>4. most = IF MaxFileSize + 1 <= MaxScanSize - scan.size THEN MaxFileSize + 1
               ELSE MaxScanSize - scan.size
    BY <2>2, LesserOfTwo
  <2> QED
    BY <2>3, <2>4
<1>9. most \in Int
  <2>1. scan.size \in Nat /\ MaxScanSize \in Nat /\ MaxFileSize \in Nat
    BY ScanTypes
  <2> QED
    BY <2>1, LesserOfTwo
<1> HIDE DEF most, content, S
<1>10. CASE soFar < most /\ soFar < Len(content) /\ Scans(more)
  <2> DEFINE d == Append(scan.data, content[soFar + 1])
  <2>1. content[soFar + 1] \in Nat
    BY <1>4, <1>10, ElementOfSeq
  <2>2. /\ d \in Seq(Nat) /\ Len(d) = soFar + 1
        /\ \A i \in 1 .. soFar : d[i] = scan.data[i]
        /\ d[soFar + 1] = content[soFar + 1]
    BY <1>4, <2>1
  <2>3. /\ more.base = scan.base /\ more.dirs = scan.dirs /\ more.dir = scan.dir
        /\ more.dirId = scan.dirId
        /\ more.must = scan.must /\ more.seen = scan.seen /\ more.entries = scan.entries
        /\ more.files = scan.files /\ more.accepted = scan.accepted /\ more.name = scan.name
        /\ more.expected = scan.expected
    BY ScanTypes DEF EventScans
  <2>4. /\ more.at = "read" /\ more.fd = scan.fd /\ more.opened = scan.opened
        /\ more.size = scan.size /\ more.data = d
    BY <1>1, ScanTypes DEF EventScans
  <2> HIDE DEF more, d, soFar
  <2>5. /\ Len(more.data) <= Len(Data(scan.name))
        /\ \A i \in 1 .. Len(more.data) : more.data[i] = Data(scan.name)[i]
    <3>1. \A i \in 1 .. soFar + 1 : i \in 1 .. soFar \/ i = soFar + 1
      BY <1>4
    <3>2. \A i \in 1 .. soFar + 1 : d[i] = content[i]
      BY <1>3, <2>2, <3>1
    <3>3. soFar + 1 <= Len(content)
      BY <1>4, <1>10
    <3> QED
      BY <1>3, <2>2, <2>4, <3>2, <3>3
  <2>6. more.size = SumFunctionOnSet(Lengths, (Passed \cap EventNames) \
                      (IF more.at \in {"open", "before", "read"} THEN {scan.name} ELSE {}))
    BY <1>5, <2>4 DEF S
  <2>7. more.at \in FileStages /\ more.at \notin {"after", "path"}
    BY <2>4 DEF FileStages
  <2>8. more.fd = logs[scan.name] /\ more.opened = scan.expected
    BY <1>3, <2>4
  <2>9. ScanExact'
    BY <1>1, <1>10, <2>3, <2>5, <2>6, <2>7, <2>8, ExactAtFile
  <2>10. scan'.at = "read"
    BY <1>10, <2>4 DEF Scans
  <2> QED
    BY <2>9, <2>10
<1>11. CASE ~ (soFar < most /\ soFar < Len(content)) /\ Scans(after)
  <2>1. soFar = Len(content)
    <3> HIDE DEF soFar
    <3> QED
      BY <1>3, <1>4, <1>8, <1>9, <1>11
  <2>2. scan.data = content
    <3> DEFINE d == scan.data
    <3>1. Len(d) = Len(content) /\ \A i \in 1 .. Len(d) : d[i] = content[i]
      BY <1>3, <2>1
    <3> HIDE DEF d, soFar
    <3>2. d \in Seq(Nat)
      BY <1>4 DEF d
    <3>3. content = d
      BY <1>4, <3>1, <3>2, SeqEqual
    <3> QED
      BY <3>3 DEF d
  <2>3. /\ after.base = scan.base /\ after.dirs = scan.dirs /\ after.dir = scan.dir
        /\ after.dirId = scan.dirId
        /\ after.must = scan.must /\ after.seen = scan.seen /\ after.entries = scan.entries
        /\ after.files = scan.files /\ after.accepted = scan.accepted /\ after.name = scan.name
        /\ after.expected = scan.expected
    BY ScanTypes DEF EventScans
  <2>4. /\ after.at = "after" /\ after.fd = scan.fd /\ after.opened = scan.opened
        /\ after.size = scan.size + soFar /\ after.data = scan.data
    BY ScanTypes DEF EventScans
  <2> HIDE DEF after, soFar
  <2>5. after.size = SumFunctionOnSet(Lengths, (Passed \cap EventNames) \
                      (IF after.at \in {"open", "before", "read"} THEN {scan.name} ELSE {}))
    <3>1. (Passed \cap EventNames) \ {} = S \cup {scan.name}
      BY <1>6
    <3> QED
      BY <1>5, <2>1, <2>4, <3>1
  <2>6. after.at \in FileStages /\ after.at # "read"
    BY <2>4 DEF FileStages
  <2>7. after.fd = logs[scan.name] /\ after.opened = scan.expected /\ after.data = Data(scan.name)
    BY <1>3, <2>2, <2>4
  <2>8. ScanExact'
    BY <1>1, <1>11, <2>3, <2>5, <2>6, <2>7, ExactAtFile
  <2>9. scan'.at = "after"
    BY <1>11, <2>4 DEF Scans
  <2> QED
    BY <2>8, <2>9
<1> QED
  BY <1>7, <1>10, <1>11


LEMMA ExactLookAfter ==
    ASSUME EventTyped, ScanExact, LookAfter
    PROVE  ScanExact' /\ scan'.at \notin {"idle", "done"}
<1> DEFINE new == [scan EXCEPT !.at = "path"]
<1>1. scan.at = "after" /\ scan.at \in FileStages /\ scan.at \in OpenStages
  BY DEF LookAfter, ScanAt, FileStages, OpenStages
<1>2. /\ scan.name \in DOMAIN logs /\ scan.expected = Meta(logs[scan.name])
      /\ scan.expected.size = Len(Data(scan.name))
  BY <1>1, CurrentFile
<1>3. /\ scan.fd = logs[scan.name] /\ scan.opened = scan.expected
      /\ scan.data = Data(scan.name)
  BY <1>1 DEF ScanExact
<1>4. Scans(new)
  <2>1. Named(scan.fd) /\ Meta(scan.fd) = scan.opened /\ Len(scan.data) = scan.expected.size
    BY <1>2, <1>3 DEF Named
  <2> QED
    BY <2>1 DEF LookAfter
<1>5. /\ new.base = scan.base /\ new.dirs = scan.dirs /\ new.dir = scan.dir /\ new.dirId = scan.dirId
      /\ new.must = scan.must /\ new.seen = scan.seen /\ new.entries = scan.entries
      /\ new.files = scan.files /\ new.accepted = scan.accepted /\ new.name = scan.name
      /\ new.expected = scan.expected
  BY ScanTypes DEF EventScans
<1>6. /\ new.at = "path" /\ new.fd = logs[scan.name] /\ new.opened = scan.expected
      /\ new.size = scan.size /\ new.data = Data(scan.name)
  BY <1>3, ScanTypes DEF EventScans
<1> HIDE DEF new
<1>7. scan.size = SumFunctionOnSet(Lengths, (Passed \cap EventNames) \ {})
  BY <1>1 DEF ScanExact, Unread
<1>8. new.at \in FileStages /\ new.at # "read"
  BY <1>6 DEF FileStages
<1>9. new.size = SumFunctionOnSet(Lengths, (Passed \cap EventNames) \
                   (IF new.at \in {"open", "before", "read"} THEN {scan.name} ELSE {}))
  BY <1>6, <1>7
<1>10. ScanExact'
  BY <1>1, <1>4, <1>5, <1>6, <1>8, <1>9, ExactAtFile
<1>11. scan'.at = "path"
  BY <1>4, <1>6 DEF Scans
<1> QED
  BY <1>10, <1>11

LEMMA ExactLookAtPath ==
    ASSUME EventTyped, ScanExact, LookAtPath
    PROVE  ScanExact' /\ scan'.at \notin {"idle", "done"}
<1> DEFINE row == [name |-> scan.name, data |-> scan.data]
           new == IF IsEvent(scan.data) THEN [Closed EXCEPT !.accepted = @ \cup {row}] ELSE Closed
<1>1. scan.at = "path" /\ scan.at \in FileStages
  BY DEF LookAtPath, ScanAt, FileStages
<1>2. /\ scan.name \in DOMAIN logs /\ scan.name \in EventNames /\ scan.name \in Passed
      /\ scan.expected = Meta(logs[scan.name])
  BY <1>1, CurrentFile
<1>3. scan.data = Data(scan.name)
  BY <1>1 DEF ScanExact
<1>4. Scans(new)
  <2>1. LooksAs(scan.name, scan.expected)
    BY <1>2 DEF LooksAs
  <2>2. IsEvent(scan.data) => Scans([Closed EXCEPT !.accepted = @ \cup {row}])
    BY <2>1 DEF LookAtPath
  <2>3. ~ IsEvent(scan.data) => Scans(Closed)
    BY <2>1 DEF LookAtPath
  <2> QED
    BY <2>2, <2>3
<1>5. /\ Closed.base = scan.base /\ Closed.dirs = scan.dirs /\ Closed.dir = scan.dir
      /\ Closed.dirId = scan.dirId
      /\ Closed.must = scan.must /\ Closed.seen = scan.seen /\ Closed.entries = scan.entries
      /\ Closed.files = scan.files /\ Closed.accepted = scan.accepted /\ Closed.size = scan.size
      /\ Closed.at = "names"
  BY ScanTypes DEF EventScans, Closed
<1>6. /\ new.base = scan.base /\ new.dirs = scan.dirs /\ new.dir = scan.dir
      /\ new.dirId = scan.dirId
      /\ new.must = scan.must /\ new.seen = scan.seen /\ new.entries = scan.entries
      /\ new.files = scan.files /\ new.size = scan.size /\ new.at = "names"
      /\ new.accepted = scan.accepted \cup (IF IsEvent(scan.data) THEN {row} ELSE {})
  <2> DEFINE c == Closed
             p == [c EXCEPT !.accepted = @ \cup {row}]
  <2>1. c \in EventScans(c.events)
    BY ClosedFacts
  <2>2. /\ p.base = c.base /\ p.dirs = c.dirs /\ p.dir = c.dir /\ p.dirId = c.dirId
        /\ p.must = c.must /\ p.seen = c.seen /\ p.entries = c.entries /\ p.files = c.files
        /\ p.size = c.size /\ p.at = c.at /\ p.accepted = c.accepted \cup {row}
    <3> HIDE DEF c, row
    <3> QED
      BY <2>1 DEF EventScans
  <2>3. new = IF IsEvent(scan.data) THEN p ELSE c
    OBVIOUS
  <2> HIDE DEF p, new, row
  <2> QED
    BY <1>5, <2>2, <2>3
<1> HIDE DEF new
<1>7. /\ scan' = new /\ logs' = logs /\ inodes' = inodes /\ dirIds' = dirIds /\ Lengths' = Lengths
  BY <1>4, SameFiles DEF Scans
<1>8. /\ scan.base = dirIds[0] /\ scan.dir \in scan.dirs \cap LogDirs
      /\ scan.dirId = dirIds[scan.dir]
      /\ scan.must = {f \in DOMAIN logs : LogDir[f] = scan.dir} /\ scan.seen \subseteq scan.must
      /\ scan.entries = Cardinality(scan.dirs) + Cardinality(Passed)
      /\ scan.files = Cardinality(Passed \cap EventNames)
      /\ scan.accepted = Reported(Passed \ Pending)
      /\ scan.size = SumFunctionOnSet(Lengths, (Passed \cap EventNames) \ Unread)
  BY <1>1 DEF ScanExact
<1>9. /\ Passed' = Passed /\ Pending = {scan.name} /\ Pending' = {} /\ Unread = {} /\ Unread' = {}
  BY <1>1, <1>6, <1>7 DEF Passed, Pending, Unread, FileStages
<1>10. scan'.accepted = Reported(Passed \ Pending)'
  <2>1. Reported(Passed \ Pending)' = Reported(Passed)
    <3>1. Passed' \ Pending' = Passed
      BY <1>9
    <3> QED
      BY <1>7, <3>1 DEF Reported, Data
  <2>2. scan.accepted = Reported(Passed \ {scan.name})
    BY <1>8, <1>9
  <2>3. Reported(Passed) = Reported(Passed \ {scan.name})
                             \cup (IF IsEvent(scan.data) THEN {row} ELSE {})
    BY <1>2, <1>3 DEF Reported
  <2> QED
    BY <1>6, <1>7, <2>1, <2>2, <2>3
<1>11. /\ scan'.entries = Cardinality(scan'.dirs) + Cardinality(Passed')
       /\ scan'.files = Cardinality(Passed' \cap EventNames)
       /\ scan'.size = SumFunctionOnSet(Lengths', (Passed' \cap EventNames) \ Unread')
  BY <1>6, <1>7, <1>8, <1>9
<1>12. /\ scan'.base = dirIds'[0] /\ scan'.dir \in scan'.dirs \cap LogDirs
       /\ scan'.dirId = dirIds'[scan'.dir]
       /\ scan'.must = {f \in DOMAIN logs' : LogDir[f] = scan'.dir} /\ scan'.seen \subseteq scan'.must
       /\ scan'.at = "names"
  BY <1>6, <1>7, <1>8
<1> QED
  BY <1>10, <1>11, <1>12 DEF ScanExact, FileStages, OpenStages

-----------------------------------------------------------------------------
\* The theorems.

EventInv == EventTyped /\ HadNow /\ OpenFile /\ ScanComplete

\* A step of the scan, between the files of one state.
LEMMA CompleteAfterScan ==
    ASSUME EventTyped, ScanComplete, scan.at \notin {"idle", "done"},
           UNCHANGED <<logs, inodes, quiet>>,
           quiet /\ ScanFits /\ ScanExact => ExactOrDone'
    PROVE  ScanComplete'
<1>1. ScanFits' = ScanFits /\ quiet' = quiet
  BY SameFiles
<1> QED
  BY <1>1 DEF ScanComplete, ExactOrDone

LEMMA EventStep ==
    ASSUME EventInv, [EventNext]_eventVars
    PROVE  EventInv'
<1> USE DEF EventInv
<1>1. ASSUME NEW f \in LogNames, Appears(f)
      PROVE  EventInv'
  BY <1>1, AppearsTyped, Edited DEF Appears
<1>2. ASSUME NEW f \in LogNames, Rewritten(f)
      PROVE  EventInv'
  BY <1>2, RewrittenTyped, Edited DEF Rewritten
<1>3. ASSUME NEW f \in LogNames, Vanishes(f)
      PROVE  EventInv'
  BY <1>3, VanishesTyped, Edited DEF Vanishes
<1>4. ASSUME NEW d \in LogDirs \cup {0}, Exchanged(d)
      PROVE  EventInv'
  BY <1>4, ExchangedTyped, Edited DEF Exchanged
<1>5. ASSUME NEW limit \in Limits, AskActivity(limit)
      PROVE  EventInv'
  <2>1. EventTyped' /\ OpenFile' /\ HadNow'
    BY <1>5, AskFacts
  <2>2. ScanExact' /\ scan'.at = "dirs"
    BY <1>5, ExactAtFirst DEF AskActivity, Asleep
  <2> QED
    BY <2>1, <2>2 DEF ScanComplete
<1>6. ASSUME NEW d \in LogDirs \cup Strays, NextDir(d)
      PROVE  EventInv'
  <2>1. EventTyped' /\ OpenFile' /\ scan.at = "dirs" /\ UNCHANGED <<logs, inodes, quiet>>
    BY <1>6, NextDirFacts DEF NextDir, Scans, ScanAt
  <2>2. HadNow'
    BY <1>6, HadAfterScan DEF NextDir, ScanAt
  <2>3. ScanFits /\ ScanExact => ExactOrDone'
    BY <1>6, ExactNextDir DEF ExactOrDone
  <2> QED
    BY <2>1, <2>2, <2>3, CompleteAfterScan
<1>7. ASSUME NoMoreDirs
      PROVE  EventInv'
  <2>1. EventTyped' /\ OpenFile' /\ scan.at = "dirs" /\ UNCHANGED <<logs, inodes, quiet>>
    BY <1>7, NoMoreDirsFacts DEF NoMoreDirs, Scans, ScanAt
  <2>2. HadNow'
    BY <1>7, HadAfterScan DEF NoMoreDirs, ScanAt
  <2>3. ScanFits /\ ScanExact => ExactOrDone'
    BY <1>7, ExactNoMoreDirs DEF ExactOrDone
  <2> QED
    BY <2>1, <2>2, <2>3, CompleteAfterScan
<1>8. ASSUME NEW f \in LogNames, NextName(f)
      PROVE  EventInv'
  <2>1. EventTyped' /\ OpenFile' /\ scan.at = "names" /\ UNCHANGED <<logs, inodes, quiet>>
    BY <1>8, NextNameFacts DEF NextName, Scans, ScanAt
  <2>2. HadNow'
    BY <1>8, HadAfterScan DEF NextName, ScanAt
  <2>3. ScanFits /\ ScanExact => ExactOrDone'
    BY <1>8, ExactNextName DEF ExactOrDone
  <2> QED
    BY <2>1, <2>2, <2>3, CompleteAfterScan
<1>9. ASSUME NoMoreNames
      PROVE  EventInv'
  <2>1. EventTyped' /\ OpenFile' /\ scan.at = "names" /\ UNCHANGED <<logs, inodes, quiet>>
    BY <1>9, NoMoreNamesFacts DEF NoMoreNames, Scans, ScanAt
  <2>2. HadNow'
    BY <1>9, HadAfterScan DEF NoMoreNames, ScanAt
  <2>3. ScanFits /\ ScanExact => ExactOrDone'
    BY <1>9, ExactNoMoreNames
  <2> QED
    BY <2>1, <2>2, <2>3, CompleteAfterScan
<1>10. ASSUME OpenLog
       PROVE  EventInv'
  <2>1. EventTyped' /\ OpenFile' /\ scan.at = "open" /\ UNCHANGED <<logs, inodes, quiet>>
    BY <1>10, OpenLogFacts DEF OpenLog, Scans, ScanAt
  <2>2. HadNow'
    BY <1>10, HadAfterScan DEF OpenLog, ScanAt
  <2>3. ScanExact => ExactOrDone'
    BY <1>10, ExactOpenLog DEF ExactOrDone
  <2> QED
    BY <2>1, <2>2, <2>3, CompleteAfterScan
<1>11. ASSUME LookBefore
       PROVE  EventInv'
  <2>1. EventTyped' /\ OpenFile' /\ scan.at = "before" /\ UNCHANGED <<logs, inodes, quiet>>
    BY <1>11, LookBeforeFacts DEF LookBefore, Scans, ScanAt
  <2>2. HadNow'
    BY <1>11, HadAfterScan DEF LookBefore, ScanAt
  <2>3. ScanExact => ExactOrDone'
    BY <1>11, ExactLookBefore DEF ExactOrDone
  <2> QED
    BY <2>1, <2>2, <2>3, CompleteAfterScan
<1>12. ASSUME ReadLog
       PROVE  EventInv'
  <2>1. EventTyped' /\ OpenFile' /\ scan.at = "read" /\ UNCHANGED <<logs, inodes, quiet>>
    BY <1>12, ReadLogFacts DEF ReadLog, Scans, ScanAt
  <2>2. HadNow'
    BY <1>12, HadAfterScan DEF ReadLog, ScanAt
  <2>3. ScanFits /\ ScanExact => ExactOrDone'
    BY <1>12, ExactReadLog DEF ExactOrDone
  <2> QED
    BY <2>1, <2>2, <2>3, CompleteAfterScan
<1>13. ASSUME LookAfter
       PROVE  EventInv'
  <2>1. EventTyped' /\ OpenFile' /\ scan.at = "after" /\ UNCHANGED <<logs, inodes, quiet>>
    BY <1>13, LookAfterFacts DEF LookAfter, Scans, ScanAt
  <2>2. HadNow'
    BY <1>13, HadAfterScan DEF LookAfter, ScanAt
  <2>3. ScanExact => ExactOrDone'
    BY <1>13, ExactLookAfter DEF ExactOrDone
  <2> QED
    BY <2>1, <2>2, <2>3, CompleteAfterScan
<1>14. ASSUME LookAtPath
       PROVE  EventInv'
  <2>1. EventTyped' /\ OpenFile' /\ scan.at = "path" /\ UNCHANGED <<logs, inodes, quiet>>
    BY <1>14, LookAtPathFacts DEF LookAtPath, Scans, ScanAt
  <2>2. HadNow'
    BY <1>14, HadAfterScan DEF LookAtPath, ScanAt
  <2>3. ScanExact => ExactOrDone'
    BY <1>14, ExactLookAtPath DEF ExactOrDone
  <2> QED
    BY <2>1, <2>2, <2>3, CompleteAfterScan
<1>15. ASSUME ActivityAnswered
       PROVE  EventInv'
  <2>1. EventTyped' /\ OpenFile' /\ HadNow'
    BY <1>15, AnsweredFacts
  <2>2. scan'.at = "idle"
    BY <1>15 DEF ActivityAnswered, Asleep
  <2> QED
    BY <2>1, <2>2 DEF ScanComplete
<1>16. ASSUME UNCHANGED eventVars
       PROVE  EventInv'
  <2>1. EventTyped' /\ HadNow' /\ OpenFile'
    BY <1>16 DEF eventVars, EventTyped, HadNow, OpenFile, AsOpened, Data
  <2>2. ScanComplete'
    <3>1. ScanFits' = ScanFits
      BY <1>16, SameFiles DEF eventVars
    <3>2. ScanExact' = ScanExact
      <4>1. Lengths' = Lengths
        BY <1>16, SameFiles DEF eventVars
      <4> QED
        BY <1>16, <4>1 DEF eventVars, ScanExact, Passed, Unread, Pending, Reported, Meta, Data
    <3>3. ScanDone' = ScanDone
      BY <1>16 DEF eventVars, ScanDone, Reported, Data, Sorted, Later
    <3> QED
      BY <1>16, <3>1, <3>2, <3>3 DEF eventVars, ScanComplete
  <2> QED
    BY <2>1, <2>2
<1> QED
  BY <1>1, <1>2, <1>3, <1>4, <1>5, <1>6, <1>7, <1>8, <1>9, <1>10, <1>11, <1>12, <1>13, <1>14,
     <1>15, <1>16 DEF EventNext

LEMMA EventsAtFirst == EventInit => EventInv
<1> SUFFICES ASSUME EventInit PROVE EventInv
  OBVIOUS
<1>1. EventTyped
  BY EventsTypedAtFirst
<1>2. scan.at = "idle" /\ scan.accepted = {}
  BY DEF EventInit, Asleep
<1> QED
  BY <1>1, <1>2 DEF EventInv, HadNow, OpenFile, ScanComplete, FileStages, OpenStages

LEMMA EventsAlwaysHold == EventSpec => []EventInv
<1>1. EventInit => EventInv
  BY EventsAtFirst
<1>2. EventInv /\ [EventNext]_eventVars => EventInv'
  BY EventStep
<1> QED
  BY <1>1, <1>2, PTL DEF EventSpec

LEMMA EventInvSound == EventInv => EventsSound
<1> SUFFICES ASSUME EventInv PROVE EventsSound
  OBVIOUS
<1>1. /\ \A r \in scan.accepted : r.data \in had[r.name]
      /\ scan.size <= MaxScanSize
  <2>1. scan.size \in 0 .. MaxScanSize /\ MaxScanSize \in Nat
    BY ScanTypes DEF EventInv
  <2> QED
    BY <2>1 DEF EventInv, OpenFile
<1> DEFINE all == {[name |-> f, data |-> Data(f)] :
                        f \in {e \in DOMAIN logs \cap EventNames : IsEvent(Data(e))}}
<1>2. ASSUME scan.at = "done", quiet, ScanFits
      PROVE  /\ Range(scan.events) \subseteq all
             /\ Len(scan.events) = Min({scan.limit, Cardinality(all)})
             /\ \A r \in Range(scan.events), s \in all \ Range(scan.events) : Later(r, s)
  <2>1. scan.accepted = all /\ scan.events = Sorted(all)
    BY <1>2 DEF EventInv, ScanComplete, ScanDone, Reported
  <2>2. EventRows(all)
    <3> DEFINE N == {e \in DOMAIN logs \cap EventNames : IsEvent(Data(e))}
    <3>1. IsFiniteSet(N)
      BY FS_Subset, N \in SUBSET (DOMAIN logs) DEF EventInv, EventTyped
    <3>2. IsFiniteSet(all)
      <4> DEFINE g == [f \in N |-> [name |-> f, data |-> Data(f)]]
      <4>1. g \in Surjection(N, all)
        BY DEF Surjection
      <4> HIDE DEF g, N, all
      <4> QED
        BY <3>1, <4>1, FS_Surjection
    <3>3. ASSUME NEW r \in all
          PROVE  r.name \in LogNames /\ r.data[1] \in Nat
      <4>1. PICK f \in N : r = [name |-> f, data |-> Data(f)]
        BY <3>3
      <4>2. Data(f) \in Seq(Nat) /\ f \in LogNames /\ Len(Data(f)) = EventPieces
        BY InodeTypes DEF EventInv, Data, EventTyped, IsEvent
      <4>3. EventPieces \in Nat \ {0}
        BY EventConstants
      <4>4. Data(f)[1] \in Nat
        BY <4>2, <4>3, ElementOfSeq
      <4> QED
        BY <4>1, <4>2, <4>4
    <3>4. \A r, s \in all : r.name = s.name => r = s
      OBVIOUS
    <3> HIDE DEF all
    <3> QED
      BY <3>2, <3>3, <3>4 DEF EventRows
  <2>3. scan.limit \in Nat
    BY ScanTypes DEF EventInv
  <2> HIDE DEF all
  <2> QED
    BY <2>1, <2>2, <2>3, SortedFacts
<1> QED
  BY <1>1, <1>2 DEF EventsSound

\* Without a lock and whatever happens to the files: a reported event has a
\* content that its file had during the scan, the bytes read stay within their
\* limit, and an undisturbed scan within its limits reports the newest events.
THEOREM EventsHold == EventSpec => []EventsSound
BY EventsAlwaysHold, EventInvSound, PTL

\* The types of the files, of the scan and of what it has counted.
THEOREM EventsTyped == EventSpec => []EventTypeOK
<1>1. EventInv => EventTypeOK
  <2> SUFFICES ASSUME EventInv PROVE EventTypeOK
    OBVIOUS
  <2>1. DOMAIN logs \subseteq LogNames /\ Range(logs) \subseteq DOMAIN inodes
    BY InodeTypes DEF EventInv, EventTyped, Range
  <2>2. /\ scan.at \in ScanStages /\ scan.entries \in 0 .. MaxScanEntries
        /\ scan.files \in 0 .. MaxScanFiles
    BY ScanTypes DEF EventInv
  <2> QED
    BY <2>1, <2>2 DEF EventTypeOK, ScanStages
<1> QED
  BY <1>1, EventsAlwaysHold, PTL
=============================================================================
