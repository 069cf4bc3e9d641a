------------------------------ MODULE EventLog ------------------------------
(***************************************************************************)
(* The activity of a node: recent_events of memory.py goes through the     *)
(* directories of the deltas without a lock, while agents add events and   *)
(* git and others rewrite, replace and remove files, and while             *)
(* directories are exchanged under it.  Every count and every byte it      *)
(* spends is limited.  Scans only read, so one at a time stands for all.   *)
(* A content is a sequence of pieces, each of some version of the event;   *)
(* version 0 is no event of that writer.                                   *)
(*                                                                         *)
(* What the code compares before and after it reads, inode, size, mtime_ns *)
(* and ctime_ns, is here the inode, the size and the number of writes: a   *)
(* rewrite of the same size within one tick of the file system's clock,    *)
(* which the code cannot see, is seen by the model.                        *)
(***************************************************************************)
EXTENDS Integers, Sequences, FiniteSets, Functions, FiniteSetsExt

CONSTANTS
    LogDirs,        \* directories of writers
    Strays,         \* other entries beside them
    EventNames,     \* names of event files
    OtherNames,     \* names of other deltas
    LogDir,         \* [names -> directory]
    FirstNames,     \* names that exist at first
    Limits,         \* limits that are asked for
    EventPieces,    \* pieces of a whole event
    MaxScanDirs,    \* MAX_RECENT_EVENT_WRITERS
    MaxScanEntries, \* MAX_RECENT_EVENT_DIRECTORY_ENTRIES
    MaxDirEntries,  \* MAX_RECENT_EVENT_ENTRIES_PER_WRITER
    MaxScanFiles,   \* MAX_RECENT_EVENT_FILES
    MaxFileSize,    \* MAX_RECENT_EVENT_FILE_BYTES
    MaxScanSize,    \* MAX_RECENT_EVENT_TOTAL_BYTES
    MaxEdits        \* bound: changes of the files

\* A directory has a number, and 0 is the one that holds them all.
ASSUME EventConstants ==
    /\ LogDirs \subseteq Nat \ {0} /\ IsFiniteSet(LogDirs)
    /\ IsFiniteSet(Strays) /\ Strays \cap LogDirs = {}
    /\ EventNames \cup OtherNames \subseteq Nat /\ FirstNames \subseteq EventNames \cup OtherNames
    /\ IsFiniteSet(FirstNames)
    /\ \A f \in EventNames \cup OtherNames : LogDir[f] \in LogDirs
    /\ Limits \subseteq Int /\ EventPieces \in Nat \ {0}
    /\ {MaxScanDirs, MaxScanEntries, MaxDirEntries, MaxScanFiles, MaxFileSize,
        MaxScanSize, MaxEdits} \subseteq Nat

VARIABLES
    logs,    \* name -> inode, for the names that exist
    inodes,  \* contents, and how often each was written
    dirIds,  \* identities of the directories and of their parent, 0
    scan,    \* the scan
    had,     \* [event names -> contents that the file has had since the scan began]
    quiet,   \* nothing has changed since the scan began
    edits

eventVars == <<logs, inodes, dirIds, scan, had, quiet, edits>>

LogNames == EventNames \cup OtherNames
Whole(v) == [i \in 1 .. EventPieces |-> v]

Asleep == [at |-> "idle", limit |-> 0, base |-> 0, dirs |-> {}, dir |-> 0,
           dirId |-> 0, must |-> {}, seen |-> {}, entries |-> 0, files |-> 0, size |-> 0,
           name |-> 0, fd |-> 0, expected |-> 0, opened |-> 0, data |-> <<>>,
           accepted |-> {}, events |-> <<>>]

EventInit ==
    /\ inodes = [i \in 1 .. Cardinality(FirstNames) |-> [data |-> Whole(1), writes |-> 0]]
    /\ logs = CHOOSE l \in [FirstNames -> DOMAIN inodes] : IsInjective(l)
    /\ dirIds = [d \in LogDirs \cup {0} |-> 0]
    /\ scan = Asleep
    /\ had = [f \in EventNames |-> {}]
    /\ quiet = TRUE
    /\ edits = 0

Data(f) == inodes[logs[f]].data

\* What fstat and lstat tell of a regular file.
Meta(i)         == [inode |-> i, size |-> Len(inodes[i].data), writes |-> inodes[i].writes]
Named(i)        == \E f \in DOMAIN logs : logs[f] = i
LooksAs(f, m)   == f \in DOMAIN logs /\ Meta(logs[f]) = m
SameRegular(m, n) == m.inode = n.inode /\ m.size = n.size

-----------------------------------------------------------------------------
\* The files change.

Edit ==
    /\ edits < MaxEdits /\ edits' = edits + 1
    /\ IF scan.at = "idle" THEN UNCHANGED <<had, quiet>>
       ELSE /\ quiet' = FALSE
            /\ had' = [f \in EventNames |->
                         had[f] \cup {inodes'[logs'[g]].data : g \in DOMAIN logs' \cap {f}}]
    /\ UNCHANGED scan

\* A file appears under a new or an old name: whole, as agents write it, or
\* empty, as git creates it.
Appears(f) ==
    /\ \E data \in {Whole(0), Whole(2), <<>>} :
          inodes' = Append(inodes, [data |-> data, writes |-> 0])
    /\ logs' = [n \in DOMAIN logs \cup {f} |-> IF n = f THEN Len(inodes) + 1 ELSE logs[n]]
    /\ UNCHANGED dirIds
    /\ Edit

\* A piece is written in place, or appended.
Rewritten(f) ==
    /\ f \in DOMAIN logs
    /\ \E i \in 1 .. Len(Data(f)) + 1 :
          inodes' = [inodes EXCEPT ![logs[f]] =
                       [data   |-> IF i > Len(@.data) THEN Append(@.data, 2)
                                                      ELSE [@.data EXCEPT ![i] = 2],
                        writes |-> @.writes + 1]]
    /\ UNCHANGED <<logs, dirIds>>
    /\ Edit

Vanishes(f) ==
    /\ f \in DOMAIN logs
    /\ logs' = [n \in DOMAIN logs \ {f} |-> logs[n]]
    /\ UNCHANGED <<inodes, dirIds>>
    /\ Edit

\* Under a scan a directory is exchanged for another one with the same names.
Exchanged(d) ==
    /\ scan.at # "idle"
    /\ dirIds' = [dirIds EXCEPT ![d] = @ + 1]
    /\ UNCHANGED <<logs, inodes>>
    /\ Edit

-----------------------------------------------------------------------------
\* A scan.

Scans(new) == scan' = new /\ UNCHANGED <<logs, inodes, dirIds, had, quiet, edits>>
ScanAt(stage) == scan.at = stage

\* A request with the bearer token that has to be configured; limits are at least 1.
AskActivity(limit) ==
    /\ ScanAt("idle")
    /\ scan' = [Asleep EXCEPT !.at = "dirs", !.limit = Max({1, limit}),
                              !.base = dirIds[0]]
    /\ had' = [f \in EventNames |-> {Data(g) : g \in DOMAIN logs \cap {f}}]
    /\ quiet' = TRUE
    /\ UNCHANGED <<logs, inodes, dirIds, edits>>

DirsRead == Cardinality(scan.dirs \cap LogDirs)

\* The next entry, if it is the directory of a writer in the same parent.
NextDir(d) ==
    /\ ScanAt("dirs") /\ d \notin scan.dirs
    /\ DirsRead < MaxScanDirs /\ scan.entries < MaxScanEntries
    /\ Scans(IF d \in LogDirs /\ dirIds[0] = scan.base
             THEN [scan EXCEPT !.at = "names", !.entries = @ + 1, !.dirs = @ \cup {d},
                               !.dir = d, !.dirId = dirIds[d], !.seen = {},
                               !.must = {f \in DOMAIN logs : LogDir[f] = d}]
             ELSE [scan EXCEPT !.entries = @ + 1, !.dirs = @ \cup {d}])

\* Newest first.
Later(r, s) ==
    \/ r.data[1] > s.data[1]
    \/ r.data[1] = s.data[1] /\ LogDir[r.name] > LogDir[s.name]
    \/ r.data[1] = s.data[1] /\ LogDir[r.name] = LogDir[s.name] /\ r.name > s.name

\* As many as were asked for: the i-th has i - 1 that come before it.
Sorted(accepted) ==
    [i \in 1 .. Min({scan.limit, Cardinality(accepted)}) |->
       CHOOSE r \in accepted : Cardinality({s \in accepted : Later(s, r)}) = i - 1]

Finished == [Asleep EXCEPT !.at = "done", !.size = scan.size, !.accepted = scan.accepted,
                           !.limit = scan.limit, !.events = Sorted(scan.accepted)]

NoMoreDirs ==
    /\ ScanAt("dirs")
    /\ \/ LogDirs \cup Strays \subseteq scan.dirs
       \/ DirsRead = MaxScanDirs \/ scan.entries = MaxScanEntries
    /\ Scans(Finished)

NamesLeft ==
    Cardinality(scan.seen) < MaxDirEntries /\ scan.entries < MaxScanEntries
       /\ scan.files < MaxScanFiles

\* A file of this size is not worth an attempt to read it.
TooLarge(size) == size > MaxFileSize \/ size + 1 > MaxScanSize - scan.size

\* The next entry of the directory: one that is or was there.
NextName(f) ==
    LET counted == [scan EXCEPT !.seen = @ \cup {f}, !.entries = @ + 1,
                                !.files = @ + IF f \in EventNames THEN 1 ELSE 0]
    IN  /\ ScanAt("names") /\ NamesLeft
        /\ LogDir[f] = scan.dir /\ f \notin scan.seen /\ f \in DOMAIN logs \cup scan.must
        /\ Scans(IF f \notin EventNames \cap DOMAIN logs \/ dirIds[scan.dir] # scan.dirId
                 THEN counted
                 ELSE IF TooLarge(Len(Data(f)))
                 THEN IF scan.size >= MaxScanSize THEN Finished ELSE counted
                 ELSE [counted EXCEPT !.at = "open", !.name = f, !.expected = Meta(logs[f])])

\* The files are read up to a limit that ends the whole scan.
NoMoreNames ==
    /\ ScanAt("names")
    /\ ~NamesLeft \/ scan.must \cap DOMAIN logs \subseteq scan.seen
    /\ Scans(IF scan.files >= MaxScanFiles THEN Finished ELSE [scan EXCEPT !.at = "dirs"])

\* The descriptor is closed.
Closed == [scan EXCEPT !.at = "names", !.name = 0, !.fd = 0, !.expected = 0, !.opened = 0,
                       !.data = <<>>]

\* A file that is not accepted; with all bytes spent the scan ends.
Rejected == IF scan.size >= MaxScanSize THEN Finished ELSE Closed

OpenLog ==
    /\ ScanAt("open")
    /\ Scans(IF scan.name \in DOMAIN logs
             THEN [scan EXCEPT !.at = "before", !.fd = logs[scan.name],
                               !.opened = Meta(logs[scan.name])]
             ELSE Rejected)

\* The open file is the one that was found, and its name still leads to it.
LookBefore ==
    /\ ScanAt("before")
    /\ Scans(IF SameRegular(scan.expected, scan.opened) /\ LooksAs(scan.name, scan.expected)
             THEN [scan EXCEPT !.at = "read", !.data = <<>>]
             ELSE Rejected)

\* A piece of it; a file that has grown is read past its size, and not past
\* what is left to be spent.
ReadLog ==
    LET content == inodes[scan.fd].data  got == Len(scan.data) IN
    /\ ScanAt("read")
    /\ Scans(IF got < Min({MaxFileSize + 1, MaxScanSize - scan.size}) /\ got < Len(content)
             THEN [scan EXCEPT !.data = Append(@, content[got + 1])]
             ELSE [scan EXCEPT !.at = "after", !.size = @ + got])

\* Mutant: only the size is compared again.
LookAfterLoosely ==
    /\ ScanAt("after")
    /\ Scans(IF Len(scan.data) = scan.expected.size /\ Named(scan.fd)
                  /\ SameRegular(Meta(scan.fd), scan.opened)
             THEN [scan EXCEPT !.at = "path", !.expected = Meta(scan.fd)]
             ELSE Rejected)

\* The file is as it was when it was opened ...
LookAfter ==
    /\ ScanAt("after")
    /\ Scans(IF Len(scan.data) = scan.expected.size /\ Named(scan.fd) /\ Meta(scan.fd) = scan.opened
             THEN [scan EXCEPT !.at = "path"]
             ELSE Rejected)

IsEvent(data) == Len(data) = EventPieces /\ data[1] # 0

\* ... and so is its name; then it counts if it holds an event of its writer.
LookAtPath ==
    /\ ScanAt("path")
    /\ Scans(IF ~LooksAs(scan.name, scan.expected) THEN Rejected
             ELSE IF IsEvent(scan.data)
             THEN [Closed EXCEPT !.accepted = @ \cup {[name |-> scan.name, data |-> scan.data]}]
             ELSE Closed)

\* The answer; after three seconds the request was answered with 503 and the
\* thread went on for nobody.
ActivityAnswered ==
    /\ ScanAt("done")
    /\ scan' = Asleep
    /\ had' = [f \in EventNames |-> {}] /\ quiet' = TRUE
    /\ UNCHANGED <<logs, inodes, dirIds, edits>>

EventNext ==
    \/ \E f \in LogNames : Appears(f) \/ Rewritten(f) \/ Vanishes(f) \/ NextName(f)
    \/ \E d \in LogDirs \cup {0} : Exchanged(d)
    \/ \E limit \in Limits : AskActivity(limit)
    \/ \E d \in LogDirs \cup Strays : NextDir(d)
    \/ NoMoreDirs \/ NoMoreNames \/ OpenLog \/ LookBefore \/ ReadLog
    \/ LookAfter \/ LookAtPath \/ ActivityAnswered

EventSpec == EventInit /\ [][EventNext]_eventVars

-----------------------------------------------------------------------------
\* Properties.

EventTypeOK ==
    /\ DOMAIN logs \subseteq LogNames /\ Range(logs) \subseteq DOMAIN inodes
    /\ scan.entries \in 0 .. MaxScanEntries /\ scan.files \in 0 .. MaxScanFiles
    /\ scan.at \in {"idle", "dirs", "names", "open", "before", "read", "after", "path", "done"}

\* The limits leave room for everything that is there.
ScanFits ==
    LET names == DOMAIN logs  events == names \cap EventNames IN
    /\ Cardinality(LogDirs) <= MaxScanDirs
    /\ Cardinality(names) + Cardinality(LogDirs \cup Strays) <= MaxScanEntries
    /\ \A d \in LogDirs : Cardinality({f \in names : LogDir[f] = d}) <= MaxDirEntries
    /\ Cardinality(events) <= MaxScanFiles
    /\ \A f \in events : Len(Data(f)) <= MaxFileSize
    /\ SumFunctionOnSet([f \in names |-> Len(Data(f))], events) < MaxScanSize

\* Without a lock, and whatever happens to the files meanwhile, every event that
\* is reported has a content that its file had at one moment of the scan, never
\* pieces of two; all that is read stays within the budget, rejected files
\* included; and when nothing changed and no limit is met, the newest events
\* are reported, all of them or as many as were asked for.
EventsSound ==
    /\ \A r \in scan.accepted : r.data \in had[r.name]
    /\ scan.size <= MaxScanSize
    /\ scan.at = "done" /\ quiet /\ ScanFits =>
          LET all == {[name |-> f, data |-> Data(f)] :
                        f \in {e \in DOMAIN logs \cap EventNames : IsEvent(Data(e))}}
          IN  /\ Range(scan.events) \subseteq all
              /\ Len(scan.events) = Min({scan.limit, Cardinality(all)})
              /\ \A r \in Range(scan.events), s \in all \ Range(scan.events) : Later(r, s)
=============================================================================
