------------------------------ MODULE HashCache ------------------------------
(***************************************************************************)
(* internal/agent/hash_cache.go and blacklist.go: the hashes of executables *)
(* that three goroutines look up and compute while the files change under  *)
(* them, and the list of forbidden hashes that the scanner reloads.        *)
(*                                                                         *)
(* A file's content is a pair of halves, each a version number, so that a  *)
(* read that overlaps a write shows; its hash is that pair (SHA-256 is     *)
(* taken to be injective).  What stat compares, size, modification time    *)
(* and inode, is a stamp: the inode and the number of its last change.     *)
(***************************************************************************)
EXTENDS Integers, FiniteSets, Functions

CONSTANTS
    NumPaths,     \* executables of running processes, all in the scanner's scope
    CacheSize,    \* maxHashCacheEntries
    BaseHashes,   \* blacklist_hashes of the policy
    HashFiles,    \* how many blacklist_hash_files there are
    ListContents, \* the sets of hashes a hash file may hold over time
    FirstLists,   \* hash file -> the hashes it holds at start
    Changing,     \* the paths whose file changes
    MaxChanges,   \* bound on their changes
    MaxOthers     \* bound on calls of the handler and the worker, changes of
                  \* hash files and failed reads of them, taken together

Paths == 1 .. NumPaths
Files == 1 .. HashFiles
Versions == 0 .. MaxChanges
Hashes == Versions \X Versions

ASSUME HashAssumption ==
    /\ NumPaths \in Nat /\ CacheSize \in Nat \ {0}
    /\ HashFiles \in Nat /\ MaxChanges \in Nat
    /\ Changing \subseteq Paths /\ MaxOthers \in Nat
    /\ BaseHashes \subseteq Hashes
    /\ ListContents \subseteq SUBSET Hashes
    /\ FirstLists \in [Files -> ListContents]

Gone == 0           \* a path that names no file
NoStamp == <<0, 0>>
NoEntry == [stamp |-> NoStamp, hash |-> <<0, 0>>]

VARIABLES
    at,        \* path -> the inode it names, or Gone
    inodes,    \* inode -> its content and the change that last wrote it
    entries,   \* hashCache.entries; NoEntry where there is none
    call,      \* goroutine -> where it is in get or compute
    list,      \* blacklist.hashes
    armed,     \* the list was loaded at start; otherwise there is no blacklist
    listFile,  \* hash file -> the hashes it holds; none when it is missing
    scan,      \* the scanner: file being reloaded, set being built, paths to hash
    changes, others,
    was,       \* history: every <<stamp, content>> a file ever had
    seen,      \* history: contents the path of a call had since the call began
    readings   \* history: what each hash file held since the reload began

cache == <<entries, call>>
disk == <<at, inodes, changes, was>>
lists == <<list, armed, listFile, scan, readings>>
vars == <<cache, disk, lists, others, seen>>

\* The handler only looks up (get); the worker and the scanner compute.
Goroutines == {"handler", "worker", "scanner"}
Inodes == 1 .. NumPaths + MaxChanges

Stamp(i) == <<i, inodes[i].mtime>>
Content(i) == inodes[i].data

Idle == [pc |-> "idle", path |-> 0, before |-> NoStamp, fd |-> Gone, lo |-> 0,
         hash |-> <<0, 0>>, attempt |-> 0]

\* New and newBlacklist: an unreadable hash file leaves the agent without any list.
Init ==
    /\ at = [p \in Paths |-> p]
    /\ inodes = [i \in Inodes |-> [data |-> <<0, 0>>, mtime |-> 0]]
    /\ entries = [p \in Paths |-> NoEntry]
    /\ call = [g \in Goroutines |-> Idle]
    /\ listFile = FirstLists
    /\ armed \in BOOLEAN
    /\ list = IF armed THEN BaseHashes \cup UNION Range(listFile) ELSE {}
    /\ scan = [file |-> 0, draft |-> {}, todo |-> {}]
    /\ changes = 0 /\ others = 0
    /\ was = {<<Stamp(p), Content(p)>> : p \in Paths}
    /\ seen = [g \in Goroutines |-> {}]
    /\ readings = [f \in Files |-> {}]

Other == others < MaxOthers /\ others' = others + 1

-----------------------------------------------------------------------------
(* The files change.  Every change gives its inode a modification time it  *)
(* did not have before.                                                    *)

\* The content path p gets is one that the calls about p in progress may return.
Witnessed(p, content) ==
    seen' = [g \in Goroutines |->
                IF call[g].path = p /\ call[g].pc # "answered"
                THEN seen[g] \cup {content} ELSE seen[g]]

\* One half of the file is written in place.
Write(p, half) ==
    LET n == changes + 1
        old == Content(at[p])
        content == IF half = 1 THEN <<n, old[2]>> ELSE <<old[1], n>>
    IN  /\ changes < MaxChanges
        /\ at[p] # Gone
        /\ changes' = n
        /\ inodes' = [inodes EXCEPT ![at[p]] = [data |-> content, mtime |-> n]]
        /\ was' = was \cup {<< <<at[p], n>>, content >>}
        /\ Witnessed(p, content)
        /\ UNCHANGED <<at, cache, lists, others>>

\* Another file is renamed over the path; readers keep the inode they opened.
Replace(p) ==
    LET n == changes + 1
        fresh == NumPaths + n
    IN  /\ changes < MaxChanges
        /\ changes' = n
        /\ at' = [at EXCEPT ![p] = fresh]
        /\ inodes' = [inodes EXCEPT ![fresh] = [data |-> <<n, n>>, mtime |-> n]]
        /\ was' = was \cup {<< <<fresh, n>>, <<n, n>> >>}
        /\ Witnessed(p, <<n, n>>)
        /\ UNCHANGED <<cache, lists, others>>

Remove(p) ==
    /\ changes < MaxChanges
    /\ at[p] # Gone
    /\ changes' = changes + 1
    /\ at' = [at EXCEPT ![p] = Gone]
    /\ UNCHANGED <<inodes, was, cache, lists, others, seen>>

-----------------------------------------------------------------------------
(* hashCache.get and hashCache.compute *)

File(g) == at[call[g].path]
Return(g) ==
    /\ call' = [call EXCEPT ![g] = Idle]
    /\ seen' = [seen EXCEPT ![g] = {}]
Answer(g, h) ==
    call' = [call EXCEPT ![g] =
                [Idle EXCEPT !.pc = "answered", !.path = call[g].path, !.hash = h]]

\* A call begins: blacklistedEvent on the handler, a queued job on the worker
\* (of any path: the queue itself is in Enforcement), a process on the scanner.
Begin(g, p) ==
    /\ call[g].pc = "idle"
    /\ call' = [call EXCEPT ![g] = [Idle EXCEPT !.pc = "stat", !.path = p]]
    /\ seen' = [seen EXCEPT ![g] = IF at[p] = Gone THEN {} ELSE {Content(at[p])}]

Asked(g) ==
    /\ armed
    /\ Other
    /\ g = "worker" \/ (g = "handler" /\ list # {})
    /\ \E p \in Paths : Begin(g, p)
    /\ UNCHANGED <<entries, disk, lists>>

\* get has nothing: the handler leaves it there, compute hashes the file.
Miss(g) ==
    \/ /\ g = "handler"
       /\ Return(g)
    \/ /\ g # "handler"
       /\ call' = [call EXCEPT ![g] = [@ EXCEPT !.pc = "before", !.before = NoStamp]]
       /\ UNCHANGED seen

\* os.Stat, outside the lock.
GetStat(g) ==
    /\ call[g].pc = "stat"
    /\ \/ File(g) = Gone /\ Miss(g)
       \/ /\ File(g) # Gone
          /\ call' = [call EXCEPT ![g] = [@ EXCEPT !.pc = "lookup", !.before = Stamp(File(g))]]
          /\ UNCHANGED seen
    /\ UNCHANGED <<entries, others, disk, lists>>

MutAnyEntry(entry, stamp) == entry # NoEntry

\* The entry is of the file that stat saw.
Fresh(entry, stamp) == entry.stamp = stamp

\* The entry is looked up under the lock, and deleted when it is stale.
GetLookup(g) ==
    LET entry == entries[call[g].path]
    IN  /\ call[g].pc = "lookup"
        /\ \/ /\ Fresh(entry, call[g].before)
              /\ Answer(g, entry.hash)
              /\ UNCHANGED <<entries, seen>>
           \/ /\ ~Fresh(entry, call[g].before)
              /\ entries' = [entries EXCEPT ![call[g].path] = NoEntry]
              /\ Miss(g)
        /\ UNCHANGED <<others, disk, lists>>

\* A stat or the open in compute finds the path gone: its error is returned.
NotFound(g) ==
    /\ call[g].pc \in {"before", "open", "after"}
    /\ File(g) = Gone
    /\ Return(g)
    /\ UNCHANGED <<entries, others, disk, lists>>

\* The first stat, and fileSHA256: the file is opened and read half by half.
Before(g) ==
    /\ call[g].pc = "before" /\ File(g) # Gone
    /\ call' = [call EXCEPT ![g] = [@ EXCEPT !.pc = "open", !.before = Stamp(File(g))]]
Open(g) ==
    /\ call[g].pc = "open" /\ File(g) # Gone
    /\ call' = [call EXCEPT ![g] = [@ EXCEPT !.pc = "lo", !.fd = File(g)]]
ReadLo(g) ==
    /\ call[g].pc = "lo"
    /\ call' = [call EXCEPT ![g] = [@ EXCEPT !.pc = "hi", !.lo = Content(call[g].fd)[1]]]
ReadHi(g) ==
    /\ call[g].pc = "hi"
    /\ call' = [call EXCEPT ![g] = [@ EXCEPT !.pc = "after", !.lo = 0, !.fd = Gone,
                                        !.hash = <<call[g].lo, Content(call[g].fd)[2]>>]]

Hash(g) ==
    /\ Before(g) \/ Open(g) \/ ReadLo(g) \/ ReadHi(g)
    /\ UNCHANGED <<entries, others, disk, lists, seen>>

MutNoRecheck(before, after) == TRUE

\* Nothing changed while the file was hashed.
Unchanged(before, after) == before = after

\* The second stat; a file that changed is hashed once more, then given up.
After(g) ==
    /\ call[g].pc = "after" /\ File(g) # Gone
    /\ \/ /\ Unchanged(call[g].before, Stamp(File(g)))
          /\ call' = [call EXCEPT ![g] = [@ EXCEPT !.pc = "store", !.before = Stamp(File(g))]]
          /\ UNCHANGED seen
       \/ /\ ~Unchanged(call[g].before, Stamp(File(g)))
          /\ call[g].attempt = 0
          /\ call' = [call EXCEPT ![g] =
                        [Idle EXCEPT !.pc = "before", !.path = call[g].path, !.attempt = 1]]
          /\ UNCHANGED seen
       \/ /\ ~Unchanged(call[g].before, Stamp(File(g)))
          /\ call[g].attempt = 1
          /\ Return(g)
    /\ UNCHANGED <<entries, others, disk, lists>>

Cached == {p \in Paths : entries[p] # NoEntry}
MutNoVictim(p) == {{}}

\* What may be evicted to make room for p: nothing, or any one entry.
Victims(p) ==
    IF p \notin Cached /\ Cardinality(Cached) >= CacheSize
    THEN {{v} : v \in Cached} ELSE {{}}

\* The entry is stored under the lock.
Store(g) ==
    /\ call[g].pc = "store"
    /\ \E victims \in Victims(call[g].path) :
        entries' = [p \in Paths |->
                        IF p = call[g].path
                        THEN [stamp |-> call[g].before, hash |-> call[g].hash]
                        ELSE IF p \in victims THEN NoEntry ELSE entries[p]]
    /\ Answer(g, call[g].hash)
    /\ UNCHANGED <<others, disk, lists, seen>>

\* The caller compares the hash with the list (matchHash) and is done with it.
Match(g) ==
    /\ call[g].pc = "answered"
    /\ Return(g)
    /\ UNCHANGED <<entries, others, disk, lists>>

-----------------------------------------------------------------------------
(* scanBlacklistOnce: the hash files are reloaded, then every process is    *)
(* hashed.                                                                  *)

ChangeList(f) ==
    /\ Other
    /\ \E content \in ListContents \ {listFile[f]} :
        /\ listFile' = [listFile EXCEPT ![f] = content]
        /\ readings' = IF scan.file \notin 1 .. HashFiles + 1 THEN readings
                       ELSE [readings EXCEPT ![f] = @ \cup {content}]
    /\ UNCHANGED <<cache, disk, list, armed, scan, seen>>

MutStartFromList == list

\* reloadFiles builds a new set, beginning with the policy's own hashes.
NewSet == BaseHashes

StartScan ==
    /\ armed
    /\ scan = [file |-> 0, draft |-> {}, todo |-> {}]
    /\ call["scanner"].pc = "idle"
    /\ scan' = [scan EXCEPT !.file = 1, !.draft = NewSet]
    /\ readings' = [f \in Files |-> {listFile[f]}]
    /\ UNCHANGED <<cache, disk, list, armed, listFile, others, seen>>

ReadHashFile ==
    /\ scan.file \in Files
    /\ scan' = [scan EXCEPT !.file = @ + 1, !.draft = @ \cup listFile[scan.file]]
    /\ UNCHANGED <<cache, disk, list, armed, listFile, others, readings, seen>>

\* A hash file cannot be opened or read: the old list stays, and the scan goes
\* on with the processes.
ReadHashFileFails ==
    /\ scan.file \in Files
    /\ Other
    /\ scan' = [scan EXCEPT !.file = HashFiles + 2, !.draft = {}]
    /\ readings' = [f \in Files |-> {}]
    /\ UNCHANGED <<cache, disk, list, armed, listFile, seen>>

Swap ==
    /\ scan.file = HashFiles + 1
    /\ list' = scan.draft
    /\ scan' = [scan EXCEPT !.file = HashFiles + 2, !.draft = {}]
    /\ readings' = [f \in Files |-> {}]
    /\ UNCHANGED <<cache, disk, armed, listFile, others, seen>>

MutOnlyUncached == {p \in Paths : entries[p] = NoEntry}

\* The processes a scan hashes: all of them, also those whose hash is cached.
ScanSet == Paths

\* listProcs gives the processes, or fails and ends the scan.
ListProcs ==
    /\ scan.file = HashFiles + 2
    /\ \/ scan' = [scan EXCEPT !.file = 0, !.todo = ScanSet] /\ UNCHANGED others
       \/ scan' = [scan EXCEPT !.file = 0] /\ Other
    /\ UNCHANGED <<cache, disk, list, armed, listFile, readings, seen>>

NextProc ==
    \E p \in scan.todo :
        /\ Begin("scanner", p)
        /\ scan' = [scan EXCEPT !.todo = @ \ {p}]
        /\ UNCHANGED <<entries, others, disk, list, armed, listFile, readings>>

Scanner == StartScan \/ ReadHashFile \/ ReadHashFileFails \/ Swap \/ ListProcs \/ NextProc

Step(g) == GetStat(g) \/ GetLookup(g) \/ NotFound(g) \/ Hash(g) \/ After(g) \/ Store(g) \/ Match(g)

Next ==
    \/ \E p \in Changing : Write(p, 1) \/ Write(p, 2) \/ Replace(p) \/ Remove(p)
    \/ \E f \in Files : ChangeList(f)
    \/ \E g \in Goroutines : Asked(g) \/ Step(g)
    \/ Scanner

\* The Go scheduler runs every goroutine that is ready; a ticker starts the scans.
Spec == /\ Init /\ [][Next]_vars
        /\ WF_vars(Scanner)
        /\ \A g \in Goroutines : WF_vars(Step(g))

-----------------------------------------------------------------------------
(* Properties *)

\* The state is well formed, and the cache never holds more than
\* maxHashCacheEntries, whichever goroutines store into it.
TypeOK ==
    /\ at \in [Paths -> Inodes \cup {Gone}]
    /\ inodes \in [Inodes -> [data : Hashes, mtime : Versions]]
    /\ entries \in [Paths -> [stamp : (Inodes \cup {0}) \X Versions, hash : Hashes]]
    /\ Cardinality(Cached) <= CacheSize
    /\ list \subseteq Hashes
    /\ scan.file \in 0 .. HashFiles + 2

\* A cached hash is the hash of the whole content that the file had under the
\* stamp it is cached with: never of a mixture of two versions, never of an
\* older version under a newer stamp, whoever changed the file during compute.
EntriesFaithful ==
    \A p \in Cached : <<entries[p].stamp, entries[p].hash>> \in was

\* The hash that get or compute returns is that of content the path had at
\* some moment of this very call: a verdict is never about a version that was
\* gone before the question was asked.
AnswerWasCurrent ==
    \A g \in Goroutines : call[g].pc = "answered" => call[g].hash \in seen[g]

\* matchHash never sees a partly built list: the list changes only when a
\* reload completes, and then to the policy's hashes with, for each hash file,
\* what that file held at one moment of this reload and nothing older.
ListIsOneReading ==
    [][list' # list \/ (scan.file = HashFiles + 1 /\ scan'.file # scan.file) =>
        \E pick \in [Files -> ListContents] :
            /\ \A f \in Files : pick[f] \in readings[f]
            /\ list' = BaseHashes \cup UNION Range(pick)]_vars

OnDisk == BaseHashes \cup UNION Range(listFile)

\* An executable that is in place with a listed hash from some moment on is
\* matched by every later round of the scanner, whatever the cache holds and
\* whatever failed before.
ListedIsMatched ==
    armed => \A p \in Paths :
        <>[](at[p] # Gone /\ Content(at[p]) \in OnDisk)
            => []<>(/\ call["scanner"].pc = "answered"
                    /\ call["scanner"].path = p
                    /\ call["scanner"].hash \in list)
===============================================================================
