--------------------------- MODULE ProtectedAnchor --------------------------
(***************************************************************************)
(* The anchors of full_braid_protected_anchor.py: for each session a chain *)
(* of records in a protected vault, against which its container, a file,   *)
(* is compared when it is opened, to tell a crash from a file that was set *)
(* back.  What may be appended and how an opening is classified is the     *)
(* code's; the driver that writes the container, then the anchor, and that *)
(* stops on any other class or decision, stands for the native runtimes.   *)
(***************************************************************************)
EXTENDS Naturals, FiniteSets, FiniteSetsExt

CONSTANTS
    Sessions,
    MaxAnchorSeq,   \* bound: [Sessions -> anchors of the session]
    MaxCopies,      \* bound: containers set back or damaged
    MaxVaultFaults  \* bound: records damaged or listed twice

VARIABLES
    vault,       \* the anchors, in the order of nothing
    listedTwice, \* anchors that the platform lists twice
    container,   \* [Sessions -> file: generation, content, revision, the anchor it wants]
    copies,      \* former containers, of any session
    session,     \* [Sessions -> "closed", "open", "stuck"]
    opened,      \* [Sessions -> class of the last opening]
    faults       \* [copies, vault]: how many until now

anchorVars == <<vault, listedTwice, container, copies, session, opened, faults>>

None == 0

\* A record; "good" says whether its HMAC is.
Anchor(s, seq, status, gen, content, rev) ==
    [record |-> s, session |-> s, role |-> 0, seq |-> seq, status |-> status,
     gen |-> gen, content |-> content, rev |-> rev,
     transition |-> IF seq = 1 \/ status = "TOMBSTONE" THEN None ELSE seq,
     horizon |-> IF status = "HEAD" THEN 0 ELSE 1, good |-> TRUE]

File(a) == [gen |-> a.gen, content |-> a.content, rev |-> a.rev, wants |-> a]

AnchorInit ==
    /\ vault = {} /\ listedTwice = {}
    /\ container = [s \in Sessions |-> File(Anchor(s, 1, "HEAD", 0, 0, 0))]
    /\ copies = {}
    /\ session = [s \in Sessions |-> "open"]
    /\ opened = [s \in Sessions |-> "aligned"]
    /\ faults = [copies |-> 0, vault |-> 0]

-----------------------------------------------------------------------------
\* What may be appended.

\* record_invariants_ok.
RecordOk(a) ==
    /\ a.good /\ a.record = a.session
    /\ a.status = "HEAD" => a.horizon = 0 /\ (a.seq = 1) = (a.transition = None)
    /\ a.status = "DELETING" => a.seq # 1 /\ a.horizon # 0 /\ a.transition # None
    /\ a.status = "TOMBSTONE" => a.seq # 1 /\ a.horizon # 0 /\ a.transition = None

\* status_transition_ok.
MayFollow(before, status) ==
    \/ before = "none" /\ status = "HEAD"
    \/ before = "HEAD" /\ status \in {"HEAD", "DELETING"}
    \/ before = "DELETING" /\ status = "TOMBSTONE"

\* established_chain_ok: 1 .. N, each of a status that may follow.
ChainOk(chain) ==
    /\ {a.seq : a \in chain} = 1 .. Cardinality(chain)
    /\ \A a \in chain : a.seq = 1 => MayFollow("none", a.status)
    /\ \A a, b \in chain : b.seq = a.seq + 1 => MayFollow(a.status, b.status)

\* classify_append.  A record listed twice is only noticed in its own session.
Classify(c) ==
    LET chain == {a \in vault : a.record = c.record}
        last  == CHOOSE a \in chain : \A b \in chain : b.seq <= a.seq
    IN  IF \/ ~RecordOk(c) \/ \E a \in vault : ~RecordOk(a)
           \/ listedTwice \cap chain # {}
           \/ \E a \in chain : a.role # c.role
           \/ ~ChainOk(chain)
        THEN "Corrupt"
        ELSE IF \E a \in chain : a.seq = c.seq
        THEN IF c \in chain THEN "ExactReplay" ELSE "Corrupt"
        ELSE IF \/ chain = {} /\ c.seq = 1 /\ MayFollow("none", c.status)
                \/ chain # {} /\ c.seq = last.seq + 1 /\ MayFollow(last.status, c.status)
        THEN "Appended" ELSE "Corrupt"

\* Mutant: the revision within a generation is not compared.
OpenByGeneration(a, f) ==
    CASE a.gen > f.gen -> "container_behind_anchor"
      [] a.gen < f.gen -> "anchor_behind_container"
      [] a.gen = f.gen /\ a.content # f.content -> "digest_mismatch"
      [] OTHER -> "aligned"

\* open_rollback_class: generation, then content, and only then the revision.
OpenClass(a, f) ==
    CASE a.gen > f.gen -> "container_behind_anchor"
      [] a.gen < f.gen -> "anchor_behind_container"
      [] a.gen = f.gen /\ a.content # f.content -> "digest_mismatch"
      [] a.gen = f.gen /\ a.content = f.content /\ a.rev > f.rev -> "container_behind_anchor"
      [] a.gen = f.gen /\ a.content = f.content /\ a.rev < f.rev -> "anchor_behind_container"
      [] OTHER -> "aligned"

-----------------------------------------------------------------------------
\* The driver.

Chain(s) == {a \in vault : a.record = s}
Newest(s) == CHOOSE a \in Chain(s) : \A b \in Chain(s) : b.seq <= a.seq

\* The next state of a session whose last anchor is in the vault: the container
\* is replaced, and says which anchor it wants.
WriteContainer(s) ==
    LET f == container[s]  seq == f.wants.seq + 1 IN
    /\ session[s] = "open" /\ f.wants \in vault /\ seq <= MaxAnchorSeq[s]
    /\ \E status \in {"HEAD", "DELETING", "TOMBSTONE"} :
          /\ MayFollow(f.wants.status, status)
          /\ \/ container' = [container EXCEPT ![s] =
                                File(Anchor(s, seq, status, f.gen + 1, seq, f.rev))]
             \/ /\ status = "HEAD"
                /\ container' = [container EXCEPT ![s] =
                                   File(Anchor(s, seq, status, f.gen, f.content, f.rev + 1))]
    /\ copies' = copies \cup {<<s, f>>}
    /\ UNCHANGED <<vault, listedTwice, session, opened, faults>>

\* Appended, or there already, which is the answer after a crash in between.
AppendAnchor(s) ==
    LET c == container[s].wants IN
    /\ session[s] = "open"
    /\ IF Classify(c) = "Corrupt"
       THEN session' = [session EXCEPT ![s] = "stuck"] /\ UNCHANGED vault
       ELSE vault' = vault \cup {c} /\ UNCHANGED session
    /\ UNCHANGED <<listedTwice, container, copies, opened, faults>>

CloseSession(s) ==
    /\ session[s] = "open" /\ session' = [session EXCEPT ![s] = "closed"]
    /\ UNCHANGED <<vault, listedTwice, container, copies, opened, faults>>

\* A container that is ahead of the vault is a crash before the anchor.
OpenSession(s) ==
    LET class == OpenClass(Newest(s), container[s]) IN
    /\ session[s] = "closed" /\ Chain(s) # {}
    /\ opened' = [opened EXCEPT ![s] = class]
    /\ session' = [session EXCEPT ![s] =
                     IF class \in {"aligned", "anchor_behind_container"} THEN "open" ELSE "stuck"]
    /\ UNCHANGED <<vault, listedTwice, container, copies, faults>>

\* A closed container is set back to a former state, or its content is damaged.
SetBack(s) ==
    /\ session[s] = "closed" /\ faults.copies < MaxCopies
    /\ \/ \E c \in copies : c[1] = s /\ container' = [container EXCEPT ![s] = c[2]]
       \/ container' = [container EXCEPT ![s].content = MaxAnchorSeq[s] + 1,
                                         ![s].wants.content = MaxAnchorSeq[s] + 1]
    /\ faults' = [faults EXCEPT !.copies = @ + 1]
    /\ UNCHANGED <<vault, listedTwice, copies, session, opened>>

\* The platform lists a record twice, or damaged.
VaultFault ==
    /\ faults.vault < MaxVaultFaults
    /\ \E a \in vault :
          \/ listedTwice' = listedTwice \cup {a} /\ UNCHANGED vault
          \/ vault' = (vault \ {a}) \cup {[a EXCEPT !.good = FALSE]} /\ UNCHANGED listedTwice
    /\ faults' = [faults EXCEPT !.vault = @ + 1]
    /\ UNCHANGED <<container, copies, session, opened>>

AnchorNext ==
    \/ \E s \in Sessions :
          WriteContainer(s) \/ AppendAnchor(s) \/ CloseSession(s) \/ OpenSession(s) \/ SetBack(s)
    \/ VaultFault

AnchorSpec == AnchorInit /\ [][AnchorNext]_anchorVars

-----------------------------------------------------------------------------
\* Properties.

AnchorTypeOK ==
    /\ \A a \in vault : a.record \in Sessions /\ a.seq \in 1 .. MaxAnchorSeq[a.record]
    /\ session \in [Sessions -> {"closed", "open", "stuck"}]

\* The vault holds one unbroken history of each session, with at most one end,
\* whatever was retried after a crash; an open session goes on from a container
\* that is what its newest anchor says, or one state ahead of it, never from one
\* that was set back behind it or differs from it; and a crash alone never makes
\* it stuck.
AnchorSound ==
    /\ \A s \in Sessions :
          /\ ChainOk(Chain(s))
          /\ Cardinality({a.seq : a \in Chain(s)}) = Cardinality(Chain(s))
          /\ \A a, b \in Chain(s) : a.status = "TOMBSTONE" => b.seq <= a.seq
          /\ session[s] = "open" /\ Chain(s) # {} =>
                LET a == Newest(s)  f == container[s] IN
                \/ <<f.gen, f.content, f.rev>> = <<a.gen, a.content, a.rev>>
                \/ f.wants.seq = a.seq + 1 /\ f.gen + f.rev = a.gen + a.rev + 1
    /\ faults = [copies |-> 0, vault |-> 0] =>
          \A s \in Sessions : /\ session[s] # "stuck"
                              /\ opened[s] \in {"aligned", "anchor_behind_container"}
=============================================================================
