--------------------------- MODULE HashCacheProofs ---------------------------
(***************************************************************************)
(* EntriesFaithful, AnswerWasCurrent, ListIsOneReading and the bound of    *)
(* the cache for any number of paths, cache size, hash files and changes.  *)
(*                                                                         *)
(* The heart of the inductive invariant is CallInv: as long as the path     *)
(* still has the stamp that compute saw before hashing, what it has read so *)
(* far is the content of the file.  It is kept by every change of a file,   *)
(* because a change gives the path a stamp that no goroutine has seen       *)
(* (DiskInv, WasInv).  For the list of forbidden hashes, ReloadInv follows  *)
(* a reload from hash file to hash file.                                    *)
(***************************************************************************)
EXTENDS HashCache, FiniteSetTheorems, TLAPS

Pcs == {"idle", "stat", "lookup", "before", "open", "lo", "hi", "after", "store", "answered"}
Stamps == Nat \X Nat
Calls == [pc : Pcs, path : Nat, before : Stamps, fd : Nat, lo : Nat, hash : Nat \X Nat, attempt : Nat]

TypeInv ==
    /\ changes \in Nat /\ changes <= MaxChanges
    /\ at \in [Paths -> Nat]
    /\ inodes \in [Inodes -> [data : Nat \X Nat, mtime : Nat]]
    /\ entries \in [Paths -> [stamp : Stamps, hash : Nat \X Nat]]
    /\ call \in [Goroutines -> Calls]
    /\ seen \in [Goroutines -> SUBSET (Nat \X Nat)]
    /\ was \subseteq Stamps \X (Nat \X Nat)

\* Paths name different inodes, all of them already in use, whose
\* modification times are past.
DiskInv ==
    /\ \A p \in Paths : at[p] # Gone => at[p] \in Inodes /\ at[p] <= NumPaths + changes
    /\ \A p, q \in Paths : at[p] = at[q] /\ at[p] # Gone => p = q
    /\ \A i \in Inodes : inodes[i].mtime <= changes

\* A stamp stands for one content, and every file in place is on record.
WasInv ==
    /\ \A s \in Stamps, c \in Nat \X Nat : <<s, c>> \in was => s[1] # 0 /\ s[2] <= changes
    /\ \A s \in Stamps, c, d \in Nat \X Nat : <<s, c>> \in was /\ <<s, d>> \in was => c = d
    /\ \A p \in Paths : at[p] # Gone => <<Stamp(at[p]), Content(at[p])>> \in was

CacheInv ==
    \A p \in Paths : entries[p] # NoEntry => <<entries[p].stamp, entries[p].hash>> \in was

\* The path of the call still has the stamp the call has seen.
Same(g) == File(g) # Gone /\ Stamp(File(g)) = call[g].before

CallInv(g) ==
    /\ call[g].pc # "idle" => call[g].path \in Paths
    /\ call[g].before[1] <= NumPaths + changes /\ call[g].before[2] <= changes
    /\ call[g].pc \notin {"idle", "answered"} =>
        (File(g) # Gone => Content(File(g)) \in seen[g])
    /\ call[g].pc = "lookup" => \E c \in seen[g] : <<call[g].before, c>> \in was
    /\ call[g].pc \in {"lo", "hi"} => call[g].fd \in Inodes /\ (Same(g) => call[g].fd = File(g))
    /\ call[g].pc = "hi" => (Same(g) => call[g].lo = Content(File(g))[1])
    /\ call[g].pc = "after" => (Same(g) => call[g].hash = Content(File(g)))
    /\ call[g].pc = "store" =>
        <<call[g].before, call[g].hash>> \in was /\ call[g].hash \in seen[g]
    /\ call[g].pc = "answered" => call[g].hash \in seen[g]

IInv == TypeInv /\ DiskInv /\ WasInv /\ CacheInv /\ \A g \in Goroutines : CallInv(g)

-----------------------------------------------------------------------------
\* Every file starts with an inode of its own that has never changed, and no
\* call is under way.
LEMMA InitInv == Init => IInv
<1> SUFFICES ASSUME Init PROVE IInv
    OBVIOUS
<1>1. TypeInv
    BY HashAssumption DEF Init, TypeInv, Paths, Inodes, NoEntry, NoStamp, Idle, Calls, Pcs, Gone,
        Stamps, Stamp, Content
<1>2. DiskInv
    BY HashAssumption DEF Init, DiskInv, Paths, Inodes, Gone
<1>3. WasInv
    <2>1. \A p \in Paths : at[p] = p /\ p \in Nat /\ p # 0 /\ Stamp(p) = <<p, 0>> /\ Content(p) = <<0, 0>>
        BY HashAssumption DEF Init, Paths, Inodes, Stamp, Content
    <2>2. \A w : w \in was <=> \E p \in Paths : w = << <<p, 0>>, <<0, 0>> >>
        BY <2>1, Zenon DEF Init
    <2>3. \A s, c : <<s, c>> \in was <=> c = <<0, 0>> /\ \E p \in Paths : s = <<p, 0>>
        BY <2>2
    <2> QED
        BY <2>1, <2>3 DEF Init, WasInv, Stamps
<1>4. CacheInv
    BY DEF Init, CacheInv
<1>5. \A g \in Goroutines : CallInv(g)
    BY HashAssumption DEF Init, CallInv, Idle, NoStamp
<1> QED
    BY <1>1, <1>2, <1>3, <1>4, <1>5 DEF IInv

\* Nothing the invariant speaks of changes.
LEMMA StutterInv == IInv /\ UNCHANGED <<disk, cache, seen>> => IInv'
<1> SUFFICES ASSUME IInv, UNCHANGED <<disk, cache, seen>> PROVE IInv'
    OBVIOUS
<1>1. /\ at' = at /\ inodes' = inodes /\ changes' = changes /\ was' = was
      /\ entries' = entries /\ call' = call /\ seen' = seen
    BY DEF disk, cache
<1>2. TypeInv' /\ DiskInv' /\ WasInv' /\ CacheInv'
    BY <1>1 DEF IInv, TypeInv, DiskInv, WasInv, CacheInv, Stamp, Content
<1>3. ASSUME NEW g \in Goroutines PROVE CallInv(g)'
    <2>1. CallInv(g)
        BY DEF IInv
    <2> QED
        BY <1>1, <2>1, Zenon DEF CallInv, Same, File, Stamp, Content
<1> QED
    BY <1>2, <1>3 DEF IInv

\* What holds of a call is not touched by the steps of other goroutines.
LEMMA UntouchedCall ==
    ASSUME NEW h \in Goroutines, CallInv(h), call'[h] = call[h], seen'[h] = seen[h],
           at' = at, inodes' = inodes, changes' = changes, was' = was
    PROVE  CallInv(h)'
<1>1. File(h)' = File(h) /\ Content(File(h))' = Content(File(h)) /\ Same(h)' = Same(h)
    BY DEF Same, File, Stamp, Content
<1> QED
    BY <1>1 DEF CallInv

\* A step of one goroutine inside get or compute.
LEMMA OneCallInv ==
    ASSUME IInv, UNCHANGED disk,
           NEW g \in Goroutines, NEW r \in Calls, NEW S \in SUBSET (Nat \X Nat),
           call' = [call EXCEPT ![g] = r], seen' = [seen EXCEPT ![g] = S],
           entries' \in [Paths -> [stamp : Stamps, hash : Nat \X Nat]], CacheInv',
           CallInv(g)'
    PROVE  IInv'
<1>1. TypeInv'
    BY DEF IInv, TypeInv, disk
<1>2. DiskInv' /\ WasInv'
    BY DEF IInv, DiskInv, WasInv, Stamp, Content, disk
<1>3. ASSUME NEW h \in Goroutines, h # g PROVE CallInv(h)'
    <2>1. call'[h] = call[h] /\ seen'[h] = seen[h]
        BY <1>3 DEF IInv, TypeInv
    <2>2. at' = at /\ inodes' = inodes /\ changes' = changes /\ was' = was
        BY DEF disk
    <2> QED
        BY <2>1, <2>2, UntouchedCall DEF IInv
<1> QED
    BY <1>1, <1>2, <1>3 DEF IInv

-----------------------------------------------------------------------------
\* A call under way survives a change of its file: either its path still has
\* the stamp and the content it had, or it will find out.
LEMMA KeptCall ==
    ASSUME NEW g \in Goroutines, CallInv(g), call[g] \in Calls, call'[g] = call[g],
           NumPaths \in Nat, changes \in Nat, changes' \in Nat, changes <= changes',
           seen[g] \subseteq seen'[g], was \subseteq was',
           call[g].pc \notin {"idle", "answered"} =>
               (File(g)' # Gone => Content(File(g))' \in seen'[g]),
           call[g].pc # "idle" =>
               (Same(g)' => /\ Same(g) /\ File(g)' = File(g)
                            /\ Content(File(g))' = Content(File(g)))
    PROVE  CallInv(g)'
<1>1. call[g].before[1] <= NumPaths + changes' /\ call[g].before[2] <= changes'
    BY DEF CallInv, Calls, Stamps
<1>2. call[g].pc = "lookup" => \E c \in seen'[g] : <<call[g].before, c>> \in was'
    BY DEF CallInv
<1>3. /\ call[g].pc \in {"lo", "hi"} =>
            call[g].fd \in Inodes /\ (Same(g)' => call[g].fd = File(g)')
      /\ call[g].pc = "hi" => (Same(g)' => call[g].lo = Content(File(g))'[1])
      /\ call[g].pc = "after" => (Same(g)' => call[g].hash = Content(File(g))')
    BY DEF CallInv
<1>4. /\ call[g].pc # "idle" => call[g].path \in Paths
      /\ call[g].pc = "store" =>
            <<call[g].before, call[g].hash>> \in was' /\ call[g].hash \in seen'[g]
      /\ call[g].pc = "answered" => call[g].hash \in seen'[g]
    BY DEF CallInv
<1> QED
    BY <1>1, <1>2, <1>3, <1>4, Zenon DEF CallInv

\* A change leaves path p with inode i, content c and a stamp that is new.
LEMMA FileChangeInv ==
    ASSUME IInv, NEW p \in Paths, NEW i \in Inodes, NEW c \in Nat \X Nat,
           changes < MaxChanges, changes' = changes + 1,
           i <= NumPaths + changes + 1, \A q \in Paths : q # p => at[q] # i,
           at' = [at EXCEPT ![p] = i],
           inodes' = [inodes EXCEPT ![i] = [data |-> c, mtime |-> changes + 1]],
           was' = was \cup {<< <<i, changes + 1>>, c >>},
           Witnessed(p, c), UNCHANGED cache
    PROVE  IInv'
<1>0. /\ i \in Nat /\ i # 0 /\ NumPaths \in Nat /\ MaxChanges \in Nat
      /\ call' = call /\ entries' = entries
    BY HashAssumption DEF Inodes, cache
<1>1. TypeInv'
    BY <1>0 DEF IInv, TypeInv, Witnessed, Stamps
<1>2. DiskInv'
    BY <1>0 DEF IInv, TypeInv, DiskInv, Gone
<1>3. ASSUME NEW q \in Paths, q # p, at[q] # Gone
      PROVE  Stamp(at[q])' = Stamp(at[q]) /\ Content(at[q])' = Content(at[q])
    BY <1>0, <1>3 DEF IInv, TypeInv, DiskInv, Stamp, Content
<1>4. at'[p] = i /\ Stamp(at[p])' = <<i, changes + 1>> /\ Content(at[p])' = c
    BY <1>0 DEF IInv, TypeInv, Stamp, Content
<1>5. WasInv'
    <2>1. \A s, d : <<s, d>> \in was' <=> <<s, d>> \in was \/ (s = <<i, changes + 1>> /\ d = c)
        OBVIOUS
    <2>2. \A s \in Stamps, d \in Nat \X Nat : <<s, d>> \in was => s[1] # 0 /\ s[2] <= changes
        BY DEF IInv, WasInv
    <2>3. ASSUME NEW s \in Stamps, NEW d \in Nat \X Nat, <<s, d>> \in was'
          PROVE  s[1] # 0 /\ s[2] <= changes'
        BY <1>0, <2>1, <2>2, <2>3 DEF IInv, TypeInv, Stamps
    <2>4. ASSUME NEW s \in Stamps, NEW d \in Nat \X Nat, NEW e \in Nat \X Nat,
                 <<s, d>> \in was', <<s, e>> \in was'
          PROVE  d = e
        <3>1. <<s, d>> \in was => s # <<i, changes + 1>>
            BY <1>0, <2>2 DEF IInv, TypeInv, Stamps
        <3>2. <<s, e>> \in was => s # <<i, changes + 1>>
            BY <1>0, <2>2 DEF IInv, TypeInv, Stamps
        <3> QED
            BY <2>1, <2>4, <3>1, <3>2 DEF IInv, WasInv
    <2>5. ASSUME NEW q \in Paths, at'[q] # Gone
          PROVE  <<Stamp(at[q])', Content(at[q])'>> \in was'
        <3>1. CASE q = p
            BY <2>1, <3>1, <1>4
        <3>2. CASE q # p
            <4>1. at[q] # Gone
                BY <2>5, <3>2 DEF IInv, TypeInv
            <4> QED
                BY <2>1, <3>2, <1>3, <4>1 DEF IInv, WasInv
        <3> QED
            BY <3>1, <3>2
    <2> QED
        BY <2>3, <2>4, <2>5 DEF WasInv
<1>6. CacheInv'
    BY <1>0 DEF IInv, CacheInv
<1>7. ASSUME NEW g \in Goroutines PROVE CallInv(g)'
    <2>0. CallInv(g) /\ call[g] \in Calls /\ changes \in Nat
        BY DEF IInv, TypeInv
    <2>1. /\ seen[g] \subseteq seen'[g] /\ was \subseteq was'
          /\ call[g].path = p /\ call[g].pc # "answered" => c \in seen'[g]
        BY DEF Witnessed
    <2>2. call[g].before[2] <= changes
        BY <2>0 DEF CallInv
    <2>3. CASE call[g].path = p
        <3>1. Same(g)' = FALSE
            BY <1>0, <1>4, <2>0, <2>2, <2>3 DEF Same, File, Calls, Stamps
        <3>2. Content(File(g))' = c
            BY <1>0, <1>4, <2>3, Zenon DEF File
        <3> QED
            BY <1>0, <2>0, <2>1, <2>3, <3>1, <3>2, KeptCall
    <2>4. CASE call[g].path # p /\ call[g].path \in Paths
        <3>1. File(g)' = File(g)
            BY <1>0, <2>4 DEF File, IInv, TypeInv
        <3>2. File(g) # Gone => Content(File(g))' = Content(File(g)) /\ Same(g)' = Same(g)
            BY <1>0, <1>3, <2>4, <3>1 DEF File, Same
        <3>3. Same(g)' => Same(g) /\ File(g)' = File(g) /\ Content(File(g))' = Content(File(g))
            BY <3>1, <3>2 DEF Same
        <3>4. call[g].pc \notin {"idle", "answered"} =>
                (File(g)' # Gone => Content(File(g))' \in seen'[g])
            BY <2>0, <2>1, <3>1, <3>2, Zenon DEF CallInv
        <3> QED
            BY <1>0, <2>0, <2>1, <3>1, <3>2, <3>3, <3>4, KeptCall
    <2>5. CASE call[g].path \notin Paths
        <3>1. call[g].pc = "idle"
            BY <2>0, <2>5 DEF CallInv
        <3> QED
            BY <1>0, <2>0, <2>1, <3>1, KeptCall
    <2> QED
        BY <2>3, <2>4, <2>5
<1> QED
    BY <1>1, <1>2, <1>5, <1>6, <1>7 DEF IInv

\* The three ways a file changes.
LEMMA ChangeInv ==
    ASSUME IInv, NEW p \in Paths,
           Write(p, 1) \/ Write(p, 2) \/ Replace(p) \/ Remove(p)
    PROVE  IInv'
<1>0. NumPaths \in Nat /\ MaxChanges \in Nat /\ TypeInv /\ DiskInv
    BY HashAssumption DEF IInv
<1>1. ASSUME NEW half \in {1, 2}, Write(p, half) PROVE IInv'
    <2> DEFINE old == Content(at[p])
               c == IF half = 1 THEN <<changes + 1, old[2]>> ELSE <<old[1], changes + 1>>
    <2>1. at[p] \in Inodes /\ at[p] <= NumPaths + changes + 1
        BY <1>0, <1>1 DEF Write, DiskInv, TypeInv, Inodes
    <2>2. c \in Nat \X Nat
        BY <1>0, <2>1 DEF TypeInv, Content
    <2>3. \A q \in Paths : q # p => at[q] # at[p]
        BY <1>0, <1>1, Zenon DEF Write, DiskInv
    <2>4. at' = [at EXCEPT ![p] = at[p]]
        BY <1>0, <1>1, Zenon DEF Write, TypeInv
    <2>5. /\ changes < MaxChanges /\ changes' = changes + 1
          /\ inodes' = [inodes EXCEPT ![at[p]] = [data |-> c, mtime |-> changes + 1]]
          /\ was' = was \cup {<< <<at[p], changes + 1>>, c >>}
          /\ Witnessed(p, c) /\ UNCHANGED cache
        BY <1>1 DEF Write
    <2> HIDE DEF c
    <2> QED
        BY <2>1, <2>2, <2>3, <2>4, <2>5, FileChangeInv, Zenon
<1>2. ASSUME Replace(p) PROVE IInv'
    <2> DEFINE i == NumPaths + changes + 1
               c == <<changes + 1, changes + 1>>
    <2>1. changes < MaxChanges /\ changes \in Nat
        BY <1>0, <1>2 DEF Replace, TypeInv
    <2>2. i \in Inodes /\ i <= NumPaths + changes + 1 /\ c \in Nat \X Nat
        BY <1>0, <2>1 DEF Inodes
    <2>3. \A q \in Paths : q # p => at[q] # i
        BY <1>0, <2>1 DEF DiskInv, TypeInv, Gone
    <2>4. /\ changes' = changes + 1
          /\ at' = [at EXCEPT ![p] = i]
          /\ inodes' = [inodes EXCEPT ![i] = [data |-> c, mtime |-> changes + 1]]
          /\ was' = was \cup {<< <<i, changes + 1>>, c >>}
          /\ Witnessed(p, c) /\ UNCHANGED cache
        <3>1. NumPaths + (changes + 1) = i
            BY <1>0, <2>1
        <3> QED
            BY <1>2, <3>1, Zenon DEF Replace
    <2> HIDE DEF i, c
    <2> QED
        BY <2>1, <2>2, <2>3, <2>4, FileChangeInv, Zenon
<1>3. ASSUME Remove(p) PROVE IInv'
    <2>0. /\ changes < MaxChanges /\ changes' = changes + 1 /\ at' = [at EXCEPT ![p] = Gone]
          /\ inodes' = inodes /\ was' = was /\ entries' = entries /\ call' = call /\ seen' = seen
        BY <1>3 DEF Remove, cache
    <2>1. TypeInv'
        BY <1>0, <2>0 DEF TypeInv, Gone
    <2>2. DiskInv'
        BY <1>0, <2>0 DEF TypeInv, DiskInv, Gone
    <2>3. WasInv'
        <3>1. \A q \in Paths : at'[q] # Gone =>
                at'[q] = at[q] /\ Stamp(at[q])' = Stamp(at[q]) /\ Content(at[q])' = Content(at[q])
            BY <1>0, <2>0 DEF TypeInv, Stamp, Content
        <3>2. \A s \in Stamps, c \in Nat \X Nat : <<s, c>> \in was' => s[1] # 0 /\ s[2] <= changes'
            BY <1>0, <2>0 DEF IInv, TypeInv, WasInv, Stamps
        <3> QED
            BY <2>0, <3>1, <3>2 DEF IInv, WasInv
    <2>4. CacheInv'
        BY <2>0 DEF IInv, CacheInv
    <2>5. ASSUME NEW g \in Goroutines PROVE CallInv(g)'
        <3>1. /\ CallInv(g) /\ call[g] \in Calls /\ call'[g] = call[g]
              /\ changes \in Nat /\ changes' \in Nat /\ changes <= changes'
              /\ seen[g] \subseteq seen'[g] /\ was \subseteq was'
            BY <1>0, <2>0 DEF IInv, TypeInv
        <3>2. ASSUME call[g].pc # "idle", File(g)' # Gone
              PROVE  /\ File(g)' = File(g) /\ Content(File(g))' = Content(File(g))
                     /\ Same(g)' = Same(g)
            <4>1. call[g].path \in Paths
                BY <3>1, <3>2 DEF CallInv
            <4>2. File(g)' = File(g)
                BY <1>0, <2>0, <3>2, <4>1 DEF File, TypeInv
            <4> QED
                BY <2>0, <4>2, Zenon DEF Same, Stamp, Content
        <3>3. call[g].pc # "idle" =>
                (Same(g)' => /\ Same(g) /\ File(g)' = File(g)
                             /\ Content(File(g))' = Content(File(g)))
            BY <3>2, Zenon DEF Same
        <3>4. call[g].pc \notin {"idle", "answered"} =>
                (File(g)' # Gone => Content(File(g))' \in seen'[g])
            BY <2>0, <3>1, <3>2 DEF CallInv
        <3> QED
            BY <1>0, <3>1, <3>3, <3>4, KeptCall
    <2> QED
        BY <2>1, <2>2, <2>3, <2>4, <2>5 DEF IInv
<1> QED
    BY <1>1, <1>2, <1>3

-----------------------------------------------------------------------------
EntriesInv == entries \in [Paths -> [stamp : Stamps, hash : Nat \X Nat]] /\ CacheInv

\* The state of a goroutine that is in no call.
LEMMA IdleCall == Idle \in Calls /\ Idle.pc = "idle" /\ Idle.before[1] = 0 /\ Idle.before[2] = 0
<1>1. NoStamp \in Stamps /\ NoStamp[1] = 0 /\ NoStamp[2] = 0 /\ <<0, 0>> \in Nat \X Nat
    BY DEF NoStamp, Stamps
<1>2. Idle \in Calls
    BY <1>1 DEF Idle, Calls, Pcs, Gone
<1>3. Idle.pc = "idle" /\ Idle.before = NoStamp
    BY DEF Idle
<1> QED
    BY <1>1, <1>2, <1>3

\* Before a call has opened its file, it only has to have seen what the path is.
LEMMA QuietCall ==
    ASSUME NEW g \in Goroutines, call'[g].pc \in {"idle", "stat", "before", "open"},
           call'[g].pc # "idle" => call'[g].path \in Paths,
           call'[g].before[1] <= NumPaths + changes' /\ call'[g].before[2] <= changes',
           call'[g].pc # "idle" => (File(g)' # Gone => Content(File(g))' \in seen'[g])
    PROVE  CallInv(g)'
BY DEF CallInv

\* A call that ends without an answer, or whose answer has been used.
LEMMA ReturnInv ==
    ASSUME IInv, NEW g \in Goroutines, UNCHANGED disk, Return(g), EntriesInv'
    PROVE  IInv'
<1>1. Idle \in Calls /\ {} \in SUBSET (Nat \X Nat)
    BY IdleCall
<1>2. call'[g] = Idle
    BY DEF IInv, TypeInv, Return
<1>3. CallInv(g)'
    <2>1. call'[g].pc = "idle" /\ call'[g].before[1] = 0 /\ call'[g].before[2] = 0
        BY <1>2, IdleCall
    <2>2. 0 <= NumPaths + changes' /\ 0 <= changes'
        BY HashAssumption DEF IInv, TypeInv, disk
    <2> QED
        BY <2>1, <2>2, QuietCall, Zenon
<1> QED
    BY <1>1, <1>3, OneCallInv, Zenon DEF Return, EntriesInv

\* A call begins.
LEMMA BeginInv ==
    ASSUME IInv, NEW g \in Goroutines, NEW p \in Paths, UNCHANGED <<disk, entries>>, Begin(g, p)
    PROVE  IInv'
<1> DEFINE r == [Idle EXCEPT !.pc = "stat", !.path = p]
           S == IF at[p] = Gone THEN {} ELSE {Content(at[p])}
<1>1. r \in Calls
    <2>1. p \in Nat
        BY HashAssumption DEF Paths
    <2> QED
        BY <2>1, IdleCall, Zenon DEF Calls, Pcs
<1>2. S \in SUBSET (Nat \X Nat)
    BY DEF IInv, TypeInv, DiskInv, Content
<1>3. EntriesInv' /\ UNCHANGED disk
    BY DEF EntriesInv, IInv, TypeInv, CacheInv, disk
<1>4. call' = [call EXCEPT ![g] = r] /\ seen' = [seen EXCEPT ![g] = S]
    BY DEF Begin
<1>5. /\ call'[g].pc = "stat" /\ call'[g].path = p
      /\ call'[g].before[1] = 0 /\ call'[g].before[2] = 0 /\ seen'[g] = S
      /\ NumPaths \in Nat /\ changes' \in Nat
    BY <1>4, IdleCall, HashAssumption DEF IInv, TypeInv, Calls, disk
<1>6. File(g)' # Gone => Content(File(g))' \in S
    BY <1>3, <1>5 DEF File, Content, disk
<1> HIDE DEF r, S
<1>7. CallInv(g)'
    <2>1. 0 <= NumPaths + changes' /\ 0 <= changes'
        BY <1>3, HashAssumption DEF IInv, TypeInv, disk
    <2> QED
        BY <1>5, <1>6, <2>1, QuietCall, Zenon
<1> QED
    BY <1>1, <1>2, <1>3, <1>4, <1>7, OneCallInv, Zenon DEF EntriesInv

\* get finds nothing.
LEMMA MissInv ==
    ASSUME IInv, NEW g \in Goroutines, UNCHANGED disk, call[g].pc \in {"stat", "lookup"},
           Miss(g), EntriesInv'
    PROVE  IInv'
<1>1. CASE Return(g)
    BY <1>1, ReturnInv
<1>2. CASE /\ call' = [call EXCEPT ![g] = [@ EXCEPT !.pc = "before", !.before = NoStamp]]
           /\ UNCHANGED seen
    <2> DEFINE r == [call[g] EXCEPT !.pc = "before", !.before = NoStamp]
    <2>0. call[g] \in Calls /\ CallInv(g) /\ NumPaths \in Nat /\ changes' \in Nat
        BY HashAssumption DEF IInv, TypeInv, disk
    <2>1. r \in Calls
        BY <2>0, Zenon DEF Calls, Pcs, Stamps, NoStamp
    <2>2. call' = [call EXCEPT ![g] = r] /\ seen' = [seen EXCEPT ![g] = seen[g]]
        BY <1>2 DEF IInv, TypeInv
    <2>3. /\ call'[g].pc = "before" /\ call'[g].path = call[g].path
          /\ call'[g].before = <<0, 0>> /\ seen'[g] = seen[g]
        BY <1>2, <2>0 DEF IInv, TypeInv, NoStamp, Calls
    <2>4. File(g)' = File(g) /\ Content(File(g))' = Content(File(g))
        BY <2>3 DEF File, Content, disk
    <2> HIDE DEF r
    <2>5. CallInv(g)'
        <3>1. call'[g].before[1] <= NumPaths + changes' /\ call'[g].before[2] <= changes'
            BY <2>0, <2>3
        <3>2. call[g].path \in Paths /\ (File(g) # Gone => Content(File(g)) \in seen[g])
            BY <2>0 DEF CallInv
        <3> QED
            BY <2>3, <2>4, <3>1, <3>2, QuietCall, Zenon
    <2>6. seen[g] \in SUBSET (Nat \X Nat)
        BY Zenon DEF IInv, TypeInv
    <2> QED
        BY <2>1, <2>2, <2>5, <2>6, OneCallInv, Zenon DEF EntriesInv
<1> QED
    BY <1>1, <1>2 DEF Miss

-----------------------------------------------------------------------------
\* The file of a call is one of the inodes in use, and on record.
LEMMA FileOfCall ==
    ASSUME IInv, NEW g \in Goroutines, call[g].pc # "idle", File(g) # Gone
    PROVE  /\ File(g) \in Inodes /\ File(g) \in Nat
           /\ Stamp(File(g)) \in Stamps /\ Content(File(g)) \in Nat \X Nat
           /\ <<Stamp(File(g)), Content(File(g))>> \in was
           /\ Stamp(File(g))[1] <= NumPaths + changes /\ Stamp(File(g))[2] <= changes
<1>1. call[g].path \in Paths
    BY Zenon DEF IInv, CallInv
<1>2. File(g) \in Inodes /\ File(g) \in Nat /\ File(g) <= NumPaths + changes
    BY <1>1 DEF IInv, DiskInv, TypeInv, File
<1>3. inodes[File(g)].mtime \in Nat /\ inodes[File(g)].mtime <= changes
    BY <1>2 DEF IInv, DiskInv, TypeInv
<1>4. Content(File(g)) \in Nat \X Nat
    BY <1>2 DEF IInv, TypeInv, Content
<1>5. Stamp(File(g)) \in Stamps /\ Stamp(File(g))[1] = File(g) /\ Stamp(File(g))[2] = inodes[File(g)].mtime
    BY <1>2, <1>3 DEF Stamp, Stamps
<1>6. <<Stamp(File(g)), Content(File(g))>> \in was
    BY <1>1 DEF IInv, WasInv, File
<1> QED
    BY <1>2, <1>3, <1>4, <1>5, <1>6

\* A call goes on about the same path, with the state r.
LEMMA MovedCall ==
    ASSUME IInv, NEW g \in Goroutines, UNCHANGED <<disk, seen>>, NEW r \in Calls,
           r.path = call[g].path, call' = [call EXCEPT ![g] = r]
    PROVE  /\ call'[g] = r /\ seen'[g] = seen[g]
           /\ changes' = changes /\ was' = was
           /\ File(g)' = File(g) /\ Content(File(g))' = Content(File(g))
           /\ Stamp(File(g))' = Stamp(File(g))
<1>1. call'[g] = r
    BY DEF IInv, TypeInv
<1>2. at' = at /\ inodes' = inodes /\ changes' = changes /\ was' = was /\ seen' = seen
    BY DEF disk
<1>3. File(g)' = File(g)
    BY <1>1, <1>2, Zenon DEF File
<1> QED
    BY <1>1, <1>2, <1>3, Zenon DEF Content, Stamp

\* The invariant after such a step.
LEMMA MovedInv ==
    ASSUME IInv, NEW g \in Goroutines, UNCHANGED <<disk, seen>>, NEW r \in Calls,
           call' = [call EXCEPT ![g] = r], EntriesInv', CallInv(g)'
    PROVE  IInv'
<1>1. seen' = [seen EXCEPT ![g] = seen[g]] /\ seen[g] \in SUBSET (Nat \X Nat)
    BY DEF IInv, TypeInv
<1>2. UNCHANGED disk
    BY DEF disk
<1> QED
    BY <1>1, <1>2, OneCallInv, Zenon DEF EntriesInv

\* Entries that stay as they are.
LEMMA SameEntries == ASSUME IInv, UNCHANGED <<disk, entries>> PROVE EntriesInv'
BY DEF IInv, EntriesInv, TypeInv, CacheInv, disk

\* os.Stat in get.
LEMMA GetStatInv == ASSUME IInv, NEW g \in Goroutines, GetStat(g) PROVE IInv'
<1>1. UNCHANGED disk /\ UNCHANGED entries /\ call[g].pc = "stat" /\ EntriesInv'
    BY SameEntries DEF GetStat
<1>2. CASE Miss(g)
    BY <1>1, <1>2, MissInv
<1>3. ASSUME File(g) # Gone, UNCHANGED seen,
             call' = [call EXCEPT ![g] = [@ EXCEPT !.pc = "lookup", !.before = Stamp(File(g))]]
      PROVE  IInv'
    <2> DEFINE r == [call[g] EXCEPT !.pc = "lookup", !.before = Stamp(File(g))]
    <2>0. call[g] \in Calls /\ CallInv(g)
        BY DEF IInv, TypeInv
    <2>1. /\ Stamp(File(g)) \in Stamps /\ <<Stamp(File(g)), Content(File(g))>> \in was
          /\ Stamp(File(g))[1] <= NumPaths + changes /\ Stamp(File(g))[2] <= changes
        BY <1>1, <1>3, FileOfCall
    <2>2. /\ r \in Calls /\ r.pc = "lookup" /\ r.before = Stamp(File(g)) /\ r.path = call[g].path
        BY <2>0, <2>1, Zenon DEF Calls, Pcs
    <2>3. call' = [call EXCEPT ![g] = r] /\ UNCHANGED <<disk, seen>>
        BY <1>1, <1>3
    <2> HIDE DEF r
    <2>4. /\ call'[g] = r /\ seen'[g] = seen[g] /\ changes' = changes /\ was' = was
          /\ File(g)' = File(g) /\ Content(File(g))' = Content(File(g))
        BY <2>2, <2>3, MovedCall, Zenon
    <2>5. call[g].path \in Paths /\ Content(File(g)) \in seen[g]
        BY <1>1, <1>3, <2>0, Zenon DEF CallInv
    <2>6. CallInv(g)'
        BY <2>1, <2>2, <2>4, <2>5 DEF CallInv
    <2> QED
        BY <1>1, <2>2, <2>3, <2>6, MovedInv, Zenon
<1> QED
    BY <1>2, <1>3 DEF GetStat

\* A call ends with the hash h of a content that it has witnessed.
LEMMA AnswerInv ==
    ASSUME IInv, NEW g \in Goroutines, UNCHANGED <<disk, seen>>, call[g].pc # "idle",
           NEW h \in Nat \X Nat, h \in seen[g], Answer(g, h), EntriesInv'
    PROVE  IInv'
<1> DEFINE r == [Idle EXCEPT !.pc = "answered", !.path = call[g].path, !.hash = h]
<1>1. call[g].path \in Paths /\ call[g].path \in Nat
    BY Zenon DEF IInv, CallInv, TypeInv, Calls
<1>2. /\ r \in Calls /\ r.pc = "answered" /\ r.path = call[g].path /\ r.hash = h
      /\ r.before[1] = 0 /\ r.before[2] = 0
    BY <1>1, IdleCall, Zenon DEF Calls, Pcs
<1>3. call' = [call EXCEPT ![g] = r]
    BY DEF Answer
<1>4. 0 <= NumPaths + changes /\ 0 <= changes
    BY HashAssumption DEF IInv, TypeInv
<1> HIDE DEF r
<1>5. call'[g] = r /\ seen'[g] = seen[g] /\ changes' = changes
    BY <1>2, <1>3, MovedCall, Zenon
<1>6. CallInv(g)'
    BY <1>1, <1>2, <1>4, <1>5, Zenon DEF CallInv
<1> QED
    BY <1>2, <1>3, <1>6, MovedInv, Zenon

\* The lookup under the lock.  A stamp on record is never that of NoEntry, and
\* stands for one content: the cached hash is the one stat saw.
LEMMA GetLookupInv == ASSUME IInv, NEW g \in Goroutines, GetLookup(g) PROVE IInv'
<1> DEFINE entry == entries[call[g].path]
<1>0. /\ call[g].pc = "lookup" /\ UNCHANGED disk /\ call[g] \in Calls /\ CallInv(g)
      /\ call[g].path \in Paths
    BY Zenon DEF GetLookup, IInv, TypeInv, CallInv
<1>1. ASSUME Fresh(entry, call[g].before), Answer(g, entry.hash), UNCHANGED <<entries, seen>>
      PROVE  IInv'
    <2>1. PICK c \in seen[g] : <<call[g].before, c>> \in was
        BY <1>0, Zenon DEF CallInv
    <2>2. /\ entry.stamp = call[g].before /\ entry.hash \in Nat \X Nat
          /\ call[g].before \in Stamps /\ c \in Nat \X Nat
        BY <1>0, <1>1, <2>1, Zenon DEF Fresh, IInv, TypeInv, Calls
    <2>3. call[g].before[1] # 0
        BY <2>1, <2>2 DEF IInv, WasInv
    <2>4. NoEntry.stamp[1] = 0
        BY DEF NoEntry, NoStamp
    <2>5. entry # NoEntry
        BY Zenon, <2>2, <2>3, <2>4
    <2>6. <<call[g].before, entry.hash>> \in was
        BY <1>0, <2>2, <2>5 DEF IInv, CacheInv
    <2>7. entry.hash = c
        BY <2>1, <2>2, <2>6, Zenon DEF IInv, WasInv
    <2>8. UNCHANGED <<disk, seen>> /\ EntriesInv' /\ entry.hash \in seen[g]
        BY Zenon, <1>0, <1>1, <2>1, <2>7, SameEntries
    <2> HIDE DEF entry
    <2> QED
        BY <1>0, <1>1, <2>2, <2>8, AnswerInv, Zenon
<1>2. ASSUME entries' = [entries EXCEPT ![call[g].path] = NoEntry], Miss(g)
      PROVE  IInv'
    <2>1. NoEntry \in [stamp : Stamps, hash : Nat \X Nat]
        BY DEF NoEntry, NoStamp, Stamps
    <2>2. entries' \in [Paths -> [stamp : Stamps, hash : Nat \X Nat]]
        BY <1>2, <2>1, Zenon DEF IInv, TypeInv
    <2>3. \A p \in Paths : entries'[p] # NoEntry => entries'[p] = entries[p]
        BY <1>2 DEF IInv, TypeInv
    <2>4. CacheInv'
        BY <1>0, <2>3 DEF IInv, CacheInv, disk
    <2> QED
        BY <1>0, <1>2, <2>2, <2>4, MissInv DEF EntriesInv
<1> QED
    BY <1>1, <1>2 DEF GetLookup

\* compute stats, opens and reads: if the path has kept its stamp throughout,
\* the descriptor is that of the path and the halves are of one version.
LEMMA HashInv == ASSUME IInv, NEW g \in Goroutines, Hash(g) PROVE IInv'
<1>0. /\ UNCHANGED <<disk, seen>> /\ EntriesInv' /\ call[g] \in Calls /\ CallInv(g)
      /\ call[g].before[1] <= NumPaths + changes /\ call[g].before[2] <= changes
    BY SameEntries, Zenon DEF Hash, IInv, TypeInv, CallInv
<1>1. CASE Before(g)
    <2> DEFINE r == [call[g] EXCEPT !.pc = "open", !.before = Stamp(File(g))]
    <2>1. /\ Stamp(File(g)) \in Stamps
          /\ Stamp(File(g))[1] <= NumPaths + changes /\ Stamp(File(g))[2] <= changes
        BY <1>1, FileOfCall, Zenon DEF Before
    <2>2. r \in Calls /\ r.pc = "open" /\ r.before = Stamp(File(g)) /\ r.path = call[g].path
        BY <1>0, <2>1, Zenon DEF Calls, Pcs
    <2>3. call' = [call EXCEPT ![g] = r]
        BY <1>1 DEF Before
    <2>4. call[g].path \in Paths /\ Content(File(g)) \in seen[g]
        BY <1>0, <1>1 DEF CallInv, Before
    <2> HIDE DEF r
    <2>5. /\ call'[g] = r /\ seen'[g] = seen[g] /\ changes' = changes
          /\ File(g)' = File(g) /\ Content(File(g))' = Content(File(g))
        BY <1>0, <2>2, <2>3, MovedCall, Zenon
    <2>6. CallInv(g)'
        BY <2>1, <2>2, <2>4, <2>5, QuietCall
    <2> QED
        BY <1>0, <2>2, <2>3, <2>6, MovedInv, Zenon
<1>2. CASE Open(g)
    <2> DEFINE r == [call[g] EXCEPT !.pc = "lo", !.fd = File(g)]
    <2>1. File(g) \in Inodes /\ File(g) \in Nat
        BY <1>2, FileOfCall, Zenon DEF Open
    <2>2. /\ r \in Calls /\ r.pc = "lo" /\ r.before = call[g].before /\ r.path = call[g].path
          /\ r.fd = File(g)
        BY <1>0, <2>1, Zenon DEF Calls, Pcs
    <2>3. call' = [call EXCEPT ![g] = r]
        BY <1>2 DEF Open
    <2>4. call[g].path \in Paths /\ Content(File(g)) \in seen[g]
        BY <1>0, <1>2 DEF CallInv, Open
    <2> HIDE DEF r
    <2>5. /\ call'[g] = r /\ seen'[g] = seen[g] /\ changes' = changes
          /\ File(g)' = File(g) /\ Content(File(g))' = Content(File(g))
        BY <1>0, <2>2, <2>3, MovedCall, Zenon
    <2>6. CallInv(g)'
        BY <1>0, <2>1, <2>2, <2>4, <2>5, Zenon DEF CallInv
    <2> QED
        BY <1>0, <2>2, <2>3, <2>6, MovedInv, Zenon
<1>3. CASE ReadLo(g)
    <2> DEFINE r == [call[g] EXCEPT !.pc = "hi", !.lo = Content(call[g].fd)[1]]
    <2>1. /\ call[g].fd \in Inodes /\ (Same(g) => call[g].fd = File(g)) /\ call[g].path \in Paths
          /\ (File(g) # Gone => Content(File(g)) \in seen[g])
        BY <1>0, <1>3 DEF CallInv, ReadLo
    <2>2. Content(call[g].fd)[1] \in Nat
        BY <2>1 DEF IInv, TypeInv, Content
    <2>3. /\ r \in Calls /\ r.pc = "hi" /\ r.before = call[g].before /\ r.path = call[g].path
          /\ r.fd = call[g].fd /\ r.lo = Content(call[g].fd)[1]
        BY <1>0, <2>2, Zenon DEF Calls, Pcs
    <2>4. call' = [call EXCEPT ![g] = r]
        BY <1>3 DEF ReadLo
    <2> HIDE DEF r
    <2>5. /\ call'[g] = r /\ seen'[g] = seen[g] /\ changes' = changes
          /\ File(g)' = File(g) /\ Content(File(g))' = Content(File(g))
          /\ Stamp(File(g))' = Stamp(File(g))
        BY <1>0, <2>3, <2>4, MovedCall, Zenon
    <2>6. Same(g)' = Same(g)
        BY <2>3, <2>5 DEF Same
    <2>7. CallInv(g)'
        BY <1>0, <2>1, <2>3, <2>5, <2>6, Zenon DEF CallInv
    <2> QED
        BY <1>0, <2>3, <2>4, <2>7, MovedInv, Zenon
<1>4. CASE ReadHi(g)
    <2> DEFINE h == <<call[g].lo, Content(call[g].fd)[2]>>
               r == [call[g] EXCEPT !.pc = "after", !.lo = 0, !.fd = Gone, !.hash = h]
    <2>1. /\ call[g].fd \in Inodes /\ (Same(g) => call[g].fd = File(g)) /\ call[g].path \in Paths
          /\ (File(g) # Gone => Content(File(g)) \in seen[g])
          /\ (Same(g) => call[g].lo = Content(File(g))[1])
        BY <1>0, <1>4, Zenon DEF CallInv, ReadHi
    <2>2. Content(call[g].fd) \in Nat \X Nat /\ call[g].lo \in Nat
        BY <1>0, <2>1 DEF IInv, TypeInv, Content, Calls
    <2>3. h \in Nat \X Nat
        BY Zenon, <2>2
    <2>4. Same(g) => h = Content(File(g))
        BY <2>1, <2>2
    <2> HIDE DEF h
    <2>5. /\ r \in Calls /\ r.pc = "after" /\ r.before = call[g].before /\ r.path = call[g].path
          /\ r.hash = h
        BY <1>0, <2>3, Zenon DEF Calls, Pcs, Gone
    <2>6. call' = [call EXCEPT ![g] = r]
        BY <1>4 DEF ReadHi, h
    <2> HIDE DEF r
    <2>7. /\ call'[g] = r /\ seen'[g] = seen[g] /\ changes' = changes
          /\ File(g)' = File(g) /\ Content(File(g))' = Content(File(g))
          /\ Stamp(File(g))' = Stamp(File(g))
        BY <1>0, <2>5, <2>6, MovedCall, Zenon
    <2>8. Same(g)' = Same(g)
        BY <2>5, <2>7 DEF Same
    <2>9. CallInv(g)'
        BY <1>0, <2>1, <2>4, <2>5, <2>7, <2>8, Zenon DEF CallInv
    <2> QED
        BY <1>0, <2>5, <2>6, <2>9, MovedInv, Zenon
<1> QED
    BY <1>1, <1>2, <1>3, <1>4 DEF Hash

\* The second stat: a file with the stamp of the first one is hashed as a whole.
LEMMA AfterInv == ASSUME IInv, NEW g \in Goroutines, After(g) PROVE IInv'
<1>0. /\ UNCHANGED disk /\ EntriesInv' /\ call[g] \in Calls /\ CallInv(g)
      /\ call[g].pc = "after" /\ File(g) # Gone
    BY SameEntries DEF After, IInv, TypeInv
<1>1. call[g].path \in Paths /\ Content(File(g)) \in seen[g]
    BY <1>0, Zenon DEF CallInv
<1>2. ASSUME Unchanged(call[g].before, Stamp(File(g))), UNCHANGED seen,
             call' = [call EXCEPT ![g] = [@ EXCEPT !.pc = "store", !.before = Stamp(File(g))]]
      PROVE  IInv'
    <2> DEFINE r == [call[g] EXCEPT !.pc = "store", !.before = Stamp(File(g))]
    <2>1. /\ Stamp(File(g)) \in Stamps /\ <<Stamp(File(g)), Content(File(g))>> \in was
          /\ Stamp(File(g))[1] <= NumPaths + changes /\ Stamp(File(g))[2] <= changes
        BY <1>0, FileOfCall
    <2>2. call[g].hash = Content(File(g))
        BY <1>0, <1>2 DEF CallInv, Same, Unchanged
    <2>3. /\ r \in Calls /\ r.pc = "store" /\ r.before = Stamp(File(g)) /\ r.path = call[g].path
          /\ r.hash = call[g].hash
        BY <1>0, <2>1, Zenon DEF Calls, Pcs
    <2>4. call' = [call EXCEPT ![g] = r] /\ UNCHANGED <<disk, seen>>
        BY <1>0, <1>2
    <2> HIDE DEF r
    <2>5. /\ call'[g] = r /\ seen'[g] = seen[g] /\ changes' = changes /\ was' = was
          /\ File(g)' = File(g) /\ Content(File(g))' = Content(File(g))
        BY <2>3, <2>4, MovedCall, Zenon
    <2>6. CallInv(g)'
        BY <1>1, <2>1, <2>2, <2>3, <2>5 DEF CallInv
    <2> QED
        BY <1>0, <2>3, <2>4, <2>6, MovedInv, Zenon
<1>3. ASSUME UNCHANGED seen,
             call' = [call EXCEPT ![g] =
                        [Idle EXCEPT !.pc = "before", !.path = call[g].path, !.attempt = 1]]
      PROVE  IInv'
    <2> DEFINE r == [Idle EXCEPT !.pc = "before", !.path = call[g].path, !.attempt = 1]
    <2>1. /\ r \in Calls /\ r.pc = "before" /\ r.path = call[g].path
          /\ r.before[1] = 0 /\ r.before[2] = 0
        BY <1>0, IdleCall, Zenon DEF Calls, Pcs
    <2>2. call' = [call EXCEPT ![g] = r] /\ UNCHANGED <<disk, seen>>
        BY <1>0, <1>3
    <2>3. 0 <= NumPaths + changes /\ 0 <= changes
        BY HashAssumption DEF IInv, TypeInv
    <2> HIDE DEF r
    <2>4. /\ call'[g] = r /\ seen'[g] = seen[g] /\ changes' = changes
          /\ File(g)' = File(g) /\ Content(File(g))' = Content(File(g))
        BY <2>1, <2>2, MovedCall, Zenon
    <2>5. CallInv(g)'
        BY <1>1, <2>1, <2>3, <2>4, QuietCall, Zenon
    <2> QED
        BY <1>0, <2>1, <2>2, <2>5, MovedInv, Zenon
<1>4. CASE Return(g)
    BY Zenon, <1>0, <1>4, ReturnInv
<1> QED
    BY <1>2, <1>3, <1>4 DEF After

\* The entry is stored, perhaps in place of another.
LEMMA StoreInv == ASSUME IInv, NEW g \in Goroutines, Store(g) PROVE IInv'
<1> DEFINE new == [stamp |-> call[g].before, hash |-> call[g].hash]
<1>0. /\ UNCHANGED <<disk, seen>> /\ call[g] \in Calls /\ call[g].pc = "store"
      /\ Answer(g, call[g].hash) /\ CallInv(g)
    BY Zenon DEF Store, IInv, TypeInv
<1>1. <<call[g].before, call[g].hash>> \in was /\ call[g].hash \in seen[g]
    BY <1>0 DEF CallInv
<1>2. PICK victims : entries' = [p \in Paths |->
                        IF p = call[g].path THEN new
                        ELSE IF p \in victims THEN NoEntry ELSE entries[p]]
    BY Zenon DEF Store
<1>3. /\ new \in [stamp : Stamps, hash : Nat \X Nat] /\ new.stamp = call[g].before
      /\ new.hash = call[g].hash /\ call[g].hash \in Nat \X Nat
    BY <1>0 DEF Calls
<1>4. NoEntry \in [stamp : Stamps, hash : Nat \X Nat]
    BY Zenon DEF NoEntry, NoStamp, Stamps
<1> HIDE DEF new
<1>5. entries' \in [Paths -> [stamp : Stamps, hash : Nat \X Nat]]
    BY <1>2, <1>3, <1>4, Zenon DEF IInv, TypeInv
<1>6. \A p \in Paths : entries'[p] # NoEntry => entries'[p] = new \/ entries'[p] = entries[p]
    BY <1>2
<1>7. was' = was
    BY <1>0 DEF disk
<1>8. CacheInv'
    BY <1>1, <1>3, <1>6, <1>7, Zenon DEF IInv, CacheInv
<1> QED
    BY <1>0, <1>1, <1>3, <1>5, <1>8, AnswerInv, Zenon DEF EntriesInv

-----------------------------------------------------------------------------
\* The scanner only hashes paths of running executables.
ScanInv ==
    /\ scan \in [file : Nat, draft : SUBSET Hashes, todo : SUBSET Paths]
    /\ listFile \in [Files -> ListContents]

\* No scan is under way at first.
LEMMA InitScan == Init => ScanInv
BY HashAssumption DEF Init, ScanInv

\* Only a scan's own steps and the list files matter to ScanInv.
LEMMA NextScan == ScanInv /\ [Next]_vars => ScanInv'
<1> SUFFICES ASSUME ScanInv, [Next]_vars PROVE ScanInv'
    BY Zenon
<1>1. ASSUME NEW p \in Changing, Write(p, 1) \/ Write(p, 2) \/ Replace(p) \/ Remove(p) PROVE ScanInv'
    BY <1>1 DEF Write, Replace, Remove, lists, ScanInv
<1>2. ASSUME NEW f \in Files, ChangeList(f) PROVE ScanInv'
    BY <1>2 DEF ChangeList, ScanInv
<1>3. ASSUME NEW g \in Goroutines, Asked(g) \/ Step(g) PROVE ScanInv'
    <2>1. UNCHANGED lists
        BY <1>3 DEF Asked, Step, GetStat, GetLookup, NotFound, Hash, After, Store, Match
    <2> QED
        BY <2>1 DEF lists, ScanInv
<1>4. CASE Scanner
    <2>0. HashFiles + 2 \in Nat /\ BaseHashes \in SUBSET Hashes /\ {} \in SUBSET Hashes
        BY HashAssumption
    <2>1. CASE StartScan
        BY <2>0, <2>1, Zenon DEF StartScan, NewSet, ScanInv
    <2>2. CASE ReadHashFile
        <3> DEFINE d == scan.draft \cup listFile[scan.file]
                   n == scan.file + 1
        <3>1. d \in SUBSET Hashes /\ n \in Nat
            BY <2>2, HashAssumption DEF ReadHashFile, ScanInv
        <3>2. scan' = [scan EXCEPT !.file = n, !.draft = d] /\ listFile' = listFile
            BY <2>2 DEF ReadHashFile
        <3> HIDE DEF d, n
        <3> QED
            BY <3>1, <3>2, Zenon DEF ScanInv
    <2>3. CASE ReadHashFileFails \/ Swap
        BY <2>0, <2>3, Zenon DEF ReadHashFileFails, Swap, ScanInv
    <2>4. CASE ListProcs
        <3>1. ScanSet \in SUBSET Paths /\ scan.todo \in SUBSET Paths
            BY DEF ScanSet, ScanInv
        <3>2. listFile' = listFile
            BY <2>4 DEF ListProcs
        <3>3. CASE scan' = [scan EXCEPT !.file = 0, !.todo = ScanSet]
            BY <3>1, <3>2, <3>3, Zenon DEF ScanInv
        <3>4. CASE scan' = [scan EXCEPT !.file = 0]
            BY <3>2, <3>4 DEF ScanInv
        <3> QED
            BY <2>4, <3>3, <3>4 DEF ListProcs
    <2>5. CASE NextProc
        BY <2>5 DEF NextProc, ScanInv
    <2> QED
        BY <1>4, <2>1, <2>2, <2>3, <2>4, <2>5 DEF Scanner
<1>5. CASE UNCHANGED vars
    BY <1>5 DEF vars, lists, ScanInv
<1> QED
    BY <1>1, <1>2, <1>3, <1>4, <1>5 DEF Next

\* Every step of the program keeps the invariant.
LEMMA NextInv == IInv /\ ScanInv /\ [Next]_vars => IInv'
<1> SUFFICES ASSUME IInv, ScanInv, [Next]_vars PROVE IInv'
    OBVIOUS
<1>1. ASSUME NEW p \in Changing, Write(p, 1) \/ Write(p, 2) \/ Replace(p) \/ Remove(p) PROVE IInv'
    <2>1. p \in Paths
        BY HashAssumption
    <2> QED
        BY <1>1, <2>1, ChangeInv
<1>2. ASSUME NEW f \in Files, ChangeList(f) PROVE IInv'
    BY <1>2, StutterInv DEF ChangeList
<1>3. ASSUME NEW g \in Goroutines, Asked(g) PROVE IInv'
    <2>1. PICK p \in Paths : Begin(g, p)
        BY <1>3 DEF Asked
    <2>2. UNCHANGED <<disk, entries>>
        BY <1>3 DEF Asked
    <2> QED
        BY <2>1, <2>2, BeginInv
<1>4. ASSUME NEW g \in Goroutines, Step(g) PROVE IInv'
    <2>1. CASE NotFound(g)
        BY <2>1, SameEntries, ReturnInv DEF NotFound
    <2>2. CASE Match(g)
        BY <2>2, SameEntries, ReturnInv DEF Match
    <2> QED
        BY <1>4, <2>1, <2>2, GetStatInv, GetLookupInv, HashInv, AfterInv, StoreInv DEF Step
<1>5. CASE Scanner
    <2>1. CASE StartScan \/ ReadHashFile \/ ReadHashFileFails \/ Swap \/ ListProcs
        BY <2>1, StutterInv DEF StartScan, ReadHashFile, ReadHashFileFails, Swap, ListProcs
    <2>2. CASE NextProc
        <3>1. PICK p \in scan.todo : Begin("scanner", p) /\ UNCHANGED <<disk, entries>>
            BY <2>2 DEF NextProc
        <3>2. p \in Paths /\ "scanner" \in Goroutines
            BY <3>1 DEF ScanInv, Goroutines
        <3> QED
            BY <3>1, <3>2, BeginInv
    <2> QED
        BY <1>5, <2>1, <2>2 DEF Scanner
<1>6. CASE UNCHANGED vars
    BY <1>6, StutterInv DEF vars
<1> QED
    BY <1>1, <1>2, <1>3, <1>4, <1>5, <1>6 DEF Next

\* The cache never holds the hash of a mixture of versions, nor that of an older
\* version under a newer stamp, whatever is written, renamed or removed while
\* compute is at work.
THEOREM CacheIsFaithful == Spec => []EntriesFaithful
<1>1. IInv => EntriesFaithful
    BY DEF IInv, CacheInv, EntriesFaithful, Cached
<1> QED
    BY <1>1, InitInv, NextInv, InitScan, NextScan, PTL DEF Spec

\* get and compute return the hash of content the path had during the call.
THEOREM AnswersAreCurrent == Spec => []AnswerWasCurrent
<1>1. IInv => AnswerWasCurrent
    BY Zenon DEF IInv, CallInv, AnswerWasCurrent
<1> QED
    BY <1>1, InitInv, NextInv, InitScan, NextScan, PTL DEF Spec

-----------------------------------------------------------------------------
(* The list of forbidden hashes *)

\* The set a reload has built after the files before scan.file is the policy's
\* hashes with one reading of each of them; the file as it is now is always
\* among the readings of the reload.
Reading ==
    \E pick \in [Files -> ListContents] :
        /\ \A f \in Files : pick[f] \in readings[f]
        /\ scan.draft = BaseHashes \cup UNION {pick[f] : f \in 1 .. scan.file - 1}

ReloadInv ==
    /\ DOMAIN readings = Files
    /\ scan.file \in 1 .. HashFiles + 1 =>
        Reading /\ \A f \in Files : listFile[f] \in readings[f]

\* A reload goes on with the readings it has when its files are left alone or
\* a file changes.
LEMMA ReadingStays ==
    ASSUME ScanInv, ReloadInv, UNCHANGED scan, DOMAIN readings' = Files,
           \A f \in Files : scan.file \in 1 .. HashFiles + 1 =>
               readings[f] \subseteq readings'[f] /\ listFile'[f] \in readings'[f]
    PROVE  ReloadInv'
<1> SUFFICES ASSUME scan.file \in 1 .. HashFiles + 1
             PROVE  Reading'
    BY Zenon DEF ReloadInv
<1>1. PICK pick \in [Files -> ListContents] :
        /\ \A f \in Files : pick[f] \in readings[f]
        /\ scan.draft = BaseHashes \cup UNION {pick[f] : f \in 1 .. scan.file - 1}
    BY Zenon DEF ReloadInv, Reading
<1>2. \A f \in Files : pick[f] \in readings'[f]
    BY <1>1, Zenon
<1> QED
    BY <1>1, <1>2, Zenon DEF Reading

\* Every step of the program keeps the readings of a reload.
LEMMA NextReload == ScanInv /\ ReloadInv /\ [Next]_vars => ReloadInv'
<1> SUFFICES ASSUME ScanInv, ReloadInv, [Next]_vars PROVE ReloadInv'
    OBVIOUS
<1>0. scan.file \in Nat /\ HashFiles \in Nat /\ 0 \notin 1 .. HashFiles + 1 /\ HashFiles + 2 \notin 1 .. HashFiles + 1
    BY HashAssumption DEF ScanInv
<1>1. ASSUME NEW f \in Files, ChangeList(f) PROVE ReloadInv'
    <2>1. PICK content \in ListContents :
            /\ listFile' = [listFile EXCEPT ![f] = content]
            /\ readings' = IF scan.file \notin 1 .. HashFiles + 1 THEN readings
                           ELSE [readings EXCEPT ![f] = readings[f] \cup {content}]
        BY <1>1, Zenon DEF ChangeList
    <2>2. UNCHANGED scan
        BY <1>1 DEF ChangeList
    <2>3. DOMAIN readings' = Files
        BY <2>1 DEF ReloadInv
    <2>4. ASSUME NEW h \in Files, scan.file \in 1 .. HashFiles + 1
          PROVE  readings[h] \subseteq readings'[h] /\ listFile'[h] \in readings'[h]
        BY <2>1, <2>4 DEF ReloadInv, ScanInv
    <2> QED
        BY <2>2, <2>3, <2>4, ReadingStays
<1>2. CASE UNCHANGED lists
    <2>1. UNCHANGED <<scan, readings, listFile>>
        BY <1>2 DEF lists
    <2>2. \A f \in Files : scan.file \in 1 .. HashFiles + 1 =>
            readings[f] \subseteq readings'[f] /\ listFile'[f] \in readings'[f]
        BY <2>1, Zenon DEF ReloadInv
    <2> QED
        BY <2>1, <2>2, ReadingStays, Zenon DEF ReloadInv
<1>3. CASE Scanner
    <2>1. CASE StartScan
        <3>1. /\ scan'.file = 1 /\ scan'.draft = BaseHashes
              /\ readings' = [f \in Files |-> {listFile[f]}] /\ listFile' = listFile
            BY <2>1 DEF StartScan, NewSet, ScanInv
        <3>2. {f \in 1 .. scan'.file - 1 : TRUE} = {}
            BY <3>1
        <3>3. /\ \A f \in Files : listFile[f] \in readings'[f]
              /\ scan'.draft = BaseHashes \cup UNION {listFile[f] : f \in 1 .. scan'.file - 1}
            BY <3>1, <3>2
        <3>4. Reading'
            BY <3>3, Zenon DEF Reading, ScanInv
        <3> QED
            BY <3>1, <3>3, <3>4, Zenon DEF ReloadInv
    <2>2. CASE ReadHashFile
        <3>1. /\ scan.file \in Files /\ scan'.file = scan.file + 1
              /\ scan'.draft = scan.draft \cup listFile[scan.file]
              /\ readings' = readings /\ listFile' = listFile
            BY <2>2 DEF ReadHashFile, ScanInv
        <3>2. scan.file \in 1 .. HashFiles + 1
            BY <1>0, <3>1 DEF Files
        <3>3. PICK pick \in [Files -> ListContents] :
                /\ \A f \in Files : pick[f] \in readings[f]
                /\ scan.draft = BaseHashes \cup UNION {pick[f] : f \in 1 .. scan.file - 1}
            BY <3>2, Zenon DEF ReloadInv, Reading
        <3> DEFINE new == [pick EXCEPT ![scan.file] = listFile[scan.file]]
        <3>4. new \in [Files -> ListContents] /\ \A f \in Files : new[f] \in readings'[f]
            BY <3>1, <3>2, <3>3, Zenon DEF ReloadInv, ScanInv
        <3>5. 1 .. scan'.file - 1 = (1 .. scan.file - 1) \cup {scan.file}
            BY <1>0, <3>1, <3>2
        <3>6. /\ \A f \in 1 .. scan.file - 1 : f \in Files /\ new[f] = pick[f]
              /\ new[scan.file] = listFile[scan.file]
            BY <1>0, <3>1, <3>3 DEF Files
        <3> HIDE DEF new
        <3>7. UNION {new[f] : f \in 1 .. scan'.file - 1}
                = (UNION {pick[f] : f \in 1 .. scan.file - 1}) \cup listFile[scan.file]
            BY <3>5, <3>6
        <3>8. scan'.draft = BaseHashes \cup UNION {new[f] : f \in 1 .. scan'.file - 1}
            BY <3>1, <3>3, <3>7
        <3>9. Reading'
            BY <3>4, <3>8, Zenon DEF Reading
        <3> QED
            BY <3>1, <3>2, <3>9, Zenon DEF ReloadInv
    <2>3. CASE ReadHashFileFails \/ Swap
        <3>1. scan'.file = HashFiles + 2 /\ DOMAIN readings' = Files
            BY <2>3, Zenon DEF ReadHashFileFails, Swap, ScanInv
        <3> QED
            BY <1>0, <3>1, Zenon DEF ReloadInv
    <2>4. CASE ListProcs
        <3>1. scan'.file = 0 /\ readings' = readings
            BY <2>4, Zenon DEF ListProcs, ScanInv
        <3> QED
            BY <1>0, <3>1, Zenon DEF ReloadInv
    <2>5. CASE NextProc
        <3>1. /\ scan'.file = scan.file /\ scan'.draft = scan.draft
              /\ readings' = readings /\ listFile' = listFile
            BY <2>5 DEF NextProc, ScanInv
        <3> QED
            BY <3>1, Zenon DEF ReloadInv, Reading
    <2> QED
        BY <1>3, <2>1, <2>2, <2>3, <2>4, <2>5 DEF Scanner
<1>4. CASE UNCHANGED vars
    BY <1>2, <1>4, Zenon DEF vars
<1>5. ASSUME NEW p \in Changing, Write(p, 1) \/ Write(p, 2) \/ Replace(p) \/ Remove(p) PROVE ReloadInv'
    BY <1>2, <1>5 DEF Write, Replace, Remove
<1>6. ASSUME NEW g \in Goroutines, Asked(g) \/ Step(g) PROVE ReloadInv'
    BY <1>2, <1>6 DEF Asked, Step, GetStat, GetLookup, NotFound, Hash, After, Store, Match
<1> QED
    BY <1>1, <1>3, <1>4, <1>5, <1>6 DEF Next

\* Only Swap changes the list or ends a reload that has read every file.
LEMMA OnlySwap ==
    ASSUME ScanInv, [Next]_vars,
           list' # list \/ (scan.file = HashFiles + 1 /\ scan'.file # scan.file)
    PROVE  Swap
<1>0. scan.file \in Nat /\ HashFiles \in Nat
    BY HashAssumption DEF ScanInv
<1>1. ASSUME NEW f \in Files PROVE ~ChangeList(f)
    BY DEF ChangeList
<1>2. ~UNCHANGED lists
    BY Zenon DEF lists
<1>3. ASSUME NEW p \in Changing PROVE ~(Write(p, 1) \/ Write(p, 2) \/ Replace(p) \/ Remove(p))
    BY <1>2 DEF Write, Replace, Remove
<1>4. ASSUME NEW g \in Goroutines PROVE ~(Asked(g) \/ Step(g))
    BY <1>2 DEF Asked, Step, GetStat, GetLookup, NotFound, Hash, After, Store, Match
<1>5. ~StartScan
    BY <1>0 DEF StartScan
<1>6. ~(ReadHashFile \/ ReadHashFileFails)
    BY <1>0 DEF ReadHashFile, ReadHashFileFails, Files
<1>7. ~ListProcs
    BY <1>0 DEF ListProcs
<1>8. ~NextProc
    BY DEF NextProc, ScanInv
<1>9. ~UNCHANGED vars
    BY <1>2 DEF vars
<1> QED
    BY <1>1, <1>3, <1>4, <1>5, <1>6, <1>7, <1>8, <1>9 DEF Next, Scanner

\* matchHash never sees a partly built list, however many hash files there are
\* and however they change while reloadFiles goes through them.
THEOREM ListIsWhole == Spec => ListIsOneReading
<1> DEFINE Whole == list' # list \/ (scan.file = HashFiles + 1 /\ scan'.file # scan.file) =>
                \E pick \in [Files -> ListContents] :
                    /\ \A f \in Files : pick[f] \in readings[f]
                    /\ list' = BaseHashes \cup UNION Range(pick)
<1>1. Init => ReloadInv
  <2>1. 0 \notin 1 .. HashFiles + 1
    BY HashAssumption
  <2>2. Init => /\ readings = [f \in Files |-> {}]
                /\ scan = [file |-> 0, draft |-> {}, todo |-> {}]
    BY Zenon DEF Init
  <2>3. Init => scan.file = 0 /\ DOMAIN readings = Files
    BY <2>2
  <2> QED
    BY <2>1, <2>3, Zenon DEF ReloadInv
<1>2. ScanInv /\ ReloadInv /\ [Next]_vars => [Whole]_vars
  <2> SUFFICES ASSUME ScanInv, ReloadInv, [Next]_vars,
                      list' # list \/ (scan.file = HashFiles + 1 /\ scan'.file # scan.file)
               PROVE  \E pick \in [Files -> ListContents] :
                        /\ \A f \in Files : pick[f] \in readings[f]
                        /\ list' = BaseHashes \cup UNION Range(pick)
    BY Zenon
  <2>1. scan.file = HashFiles + 1 /\ list' = scan.draft
    BY OnlySwap DEF Swap
  <2>2. scan.file \in 1 .. HashFiles + 1 /\ 1 .. scan.file - 1 = Files
    BY <2>1, HashAssumption DEF Files
  <2>3. PICK pick \in [Files -> ListContents] :
            /\ \A f \in Files : pick[f] \in readings[f]
            /\ scan.draft = BaseHashes \cup UNION {pick[f] : f \in Files}
    BY <2>2, Zenon DEF ReloadInv, Reading
  <2>4. Range(pick) = {pick[f] : f \in Files}
    BY <2>3, Zenon DEF Range
  <2> QED
    BY <2>1, <2>3, <2>4, Zenon
<1> QED
    BY <1>1, <1>2, InitScan, NextScan, NextReload, PTL DEF Spec, ListIsOneReading

-----------------------------------------------------------------------------
(* The types, and the bound of the cache *)

\* What the files may hold, which is also what the cache and the list may.
FileTypes ==
    /\ at \in [Paths -> Inodes \cup {Gone}]
    /\ inodes \in [Inodes -> [data : Hashes, mtime : Versions]]
    /\ was \subseteq (Inodes \X Versions) \X Hashes

ListTypes == list \subseteq Hashes /\ scan.file \in 0 .. HashFiles + 2

Bounded == Cardinality(Cached) <= CacheSize

\* A set of cached paths is finite.
LEMMA CachedFinite ==
    ASSUME NEW S \in SUBSET Paths
    PROVE  IsFiniteSet(S) /\ Cardinality(S) \in Nat
<1>1. IsFiniteSet(Paths)
    BY HashAssumption, FS_Interval DEF Paths
<1> QED
    BY <1>1, FS_Subset, FS_CardinalityType

\* Storing an entry for a path keeps the bound: there is room, or an entry goes.
LEMMA RoomForOne ==
    ASSUME NEW S \in SUBSET Paths, NEW T \in SUBSET Paths, NEW p \in Paths,
           Cardinality(S) <= CacheSize,
           \/ p \in S /\ T \subseteq S
           \/ Cardinality(S) < CacheSize /\ T \subseteq S \cup {p}
           \/ \E v \in S : T \subseteq (S \ {v}) \cup {p}
    PROVE  Cardinality(T) <= CacheSize
<1>0. IsFiniteSet(S) /\ Cardinality(S) \in Nat /\ Cardinality(T) \in Nat /\ CacheSize \in Nat
    BY CachedFinite, HashAssumption
<1>1. ASSUME NEW R \in SUBSET Paths, T \subseteq R \cup {p}, Cardinality(R) < CacheSize
      PROVE  Cardinality(T) <= CacheSize
    <2>1. IsFiniteSet(R) /\ Cardinality(R) \in Nat
        BY CachedFinite
    <2>2. IsFiniteSet(R \cup {p}) /\ (Cardinality(R \cup {p}) = Cardinality(R) \/ Cardinality(R \cup {p}) = Cardinality(R) + 1)
        BY Zenon, <2>1, FS_AddElement
    <2>3. Cardinality(T) <= Cardinality(R \cup {p})
        BY <1>1, <2>2, FS_Subset
    <2> QED
        BY <1>0, <1>1, <2>1, <2>2, <2>3
<1>2. CASE p \in S /\ T \subseteq S
    <2>1. Cardinality(T) <= Cardinality(S)
        BY <1>0, <1>2, FS_Subset
    <2> QED
        BY <1>0, <2>1
<1>3. CASE \E v \in S : T \subseteq (S \ {v}) \cup {p}
    <2>1. PICK v \in S : T \subseteq (S \ {v}) \cup {p}
        BY <1>3
    <2>2. Cardinality(S \ {v}) = Cardinality(S) - 1
        BY <1>0, FS_RemoveElement
    <2>3. Cardinality(S \ {v}) < CacheSize
        BY <1>0, <2>2
    <2> QED
        BY <1>1, <2>1, <2>3
<1> QED
    BY <1>1, <1>2, <1>3

\* Only Store adds an entry.
LEMMA NextBounded == IInv /\ ScanInv /\ Bounded /\ [Next]_vars => Bounded'
<1> SUFFICES ASSUME IInv, ScanInv, Bounded, [Next]_vars PROVE Bounded'
    OBVIOUS
<1>0. Cached \in SUBSET Paths /\ Cached' \in SUBSET Paths /\ CacheSize \in Nat
    BY HashAssumption DEF Cached
<1>1. CASE Cached' \subseteq Cached
    <2>1. Cardinality(Cached') <= Cardinality(Cached) /\ Cardinality(Cached) \in Nat /\ Cardinality(Cached') \in Nat
        BY <1>0, <1>1, CachedFinite, FS_Subset
    <2> QED
        BY <1>0, <2>1 DEF Bounded
<1>2. CASE UNCHANGED entries
    BY <1>1, <1>2 DEF Cached
<1>3. ASSUME NEW g \in Goroutines, GetLookup(g) PROVE Bounded'
    <2>1. entries' = entries \/ entries' = [entries EXCEPT ![call[g].path] = NoEntry]
        BY <1>3, Zenon DEF GetLookup
    <2>2. Cached' \subseteq Cached
        BY <2>1 DEF Cached, IInv, TypeInv
    <2> QED
        BY <1>1, <2>2
<1>4. ASSUME NEW g \in Goroutines, Store(g) PROVE Bounded'
    <2> DEFINE p == call[g].path
    <2>1. p \in Paths
        BY <1>4, Zenon DEF Store, IInv, CallInv
    <2>2. PICK victims \in Victims(p) :
            entries' = [q \in Paths |->
                            IF q = p THEN [stamp |-> call[g].before, hash |-> call[g].hash]
                            ELSE IF q \in victims THEN NoEntry ELSE entries[q]]
        BY <1>4, Zenon DEF Store
    <2>3. Cached' \subseteq (Cached \ victims) \cup {p}
        BY <2>2 DEF Cached
    <2> HIDE DEF p
    <2>4. \/ p \in Cached
          \/ ~(Cardinality(Cached) >= CacheSize)
          \/ \E v \in Cached : victims = {v}
        BY <2>2, Zenon DEF Victims
    <2>5. Cardinality(Cached) \in Nat
        BY <1>0, CachedFinite
    <2>6. \/ p \in Cached /\ Cached' \subseteq Cached
          \/ Cardinality(Cached) < CacheSize /\ Cached' \subseteq Cached \cup {p}
          \/ \E v \in Cached : Cached' \subseteq (Cached \ {v}) \cup {p}
        BY <1>0, <2>3, <2>4, <2>5
    <2> QED
        BY <1>0, <2>1, <2>6, RoomForOne DEF Bounded
<1>5. ASSUME NEW g \in Goroutines, Asked(g) \/ Step(g) PROVE Bounded'
    <2>1. Store(g) \/ GetLookup(g) \/ UNCHANGED entries
        BY <1>5 DEF Asked, Step, GetStat, NotFound, Hash, After, Match
    <2> QED
        BY <1>2, <1>3, <1>4, <2>1
<1>6. ASSUME NEW p \in Changing, Write(p, 1) \/ Write(p, 2) \/ Replace(p) \/ Remove(p) PROVE Bounded'
    BY <1>2, <1>6, Zenon DEF Write, Replace, Remove, cache
<1>7. ASSUME NEW f \in Files, ChangeList(f) PROVE Bounded'
    BY <1>2, <1>7 DEF ChangeList, cache
<1>8. CASE Scanner
    BY <1>2, <1>8 DEF Scanner, StartScan, ReadHashFile, ReadHashFileFails, Swap, ListProcs, NextProc, cache
<1>9. CASE UNCHANGED vars
    BY <1>2, <1>9, Zenon DEF vars, cache
<1> QED
    BY <1>5, <1>6, <1>7, <1>8, <1>9 DEF Next

\* A change gives a path an inode of the instance, a modification time and a
\* content that no file had before.
LEMMA NextFileTypes == IInv /\ FileTypes /\ [Next]_vars => FileTypes'
<1> SUFFICES ASSUME IInv, FileTypes, [Next]_vars PROVE FileTypes'
    OBVIOUS
<1>0. changes \in Nat /\ MaxChanges \in Nat /\ NumPaths \in Nat
    BY HashAssumption DEF IInv, TypeInv
<1>1. CASE UNCHANGED disk
    BY <1>1 DEF disk, FileTypes
<1>2. ASSUME changes < MaxChanges
      PROVE  changes + 1 \in Versions /\ NumPaths + (changes + 1) \in Inodes
    BY <1>0, <1>2 DEF Versions, Inodes
<1>3. ASSUME NEW i \in Inodes, NEW c \in Hashes, NEW n \in Versions,
             inodes' = [inodes EXCEPT ![i] = [data |-> c, mtime |-> n]],
             was' = was \cup {<< <<i, n>>, c >>},
             at' \in [Paths -> Inodes \cup {Gone}]
      PROVE  FileTypes'
    <2>1. inodes' \in [Inodes -> [data : Hashes, mtime : Versions]]
        BY <1>3 DEF FileTypes
    <2>2. was' \subseteq (Inodes \X Versions) \X Hashes
        BY <1>3 DEF FileTypes
    <2> QED
        BY <1>3, <2>1, <2>2 DEF FileTypes
<1>4. ASSUME NEW p \in Changing, NEW half \in {1, 2}, Write(p, half)
      PROVE  FileTypes'
    <2> DEFINE n == changes + 1
               old == Content(at[p])
               content == IF half = 1 THEN <<n, old[2]>> ELSE <<old[1], n>>
    <2>1. /\ changes < MaxChanges /\ at[p] # Gone /\ at' = at
          /\ inodes' = [inodes EXCEPT ![at[p]] = [data |-> content, mtime |-> n]]
          /\ was' = was \cup {<< <<at[p], n>>, content >>}
        BY <1>4 DEF Write
    <2>2. p \in Paths
        BY Zenon, HashAssumption
    <2>3. at[p] \in Inodes /\ old \in Hashes /\ n \in Versions
        BY <1>2, <2>1, <2>2 DEF FileTypes, Content
    <2>4. content \in Hashes
        BY <2>3 DEF Hashes
    <2> HIDE DEF n, old, content
    <2> QED
        BY <1>3, <2>1, <2>3, <2>4, Zenon DEF FileTypes
<1>5. ASSUME NEW p \in Changing, Replace(p) PROVE FileTypes'
    <2> DEFINE n == changes + 1
    <2>1. /\ changes < MaxChanges /\ at' = [at EXCEPT ![p] = NumPaths + n]
          /\ inodes' = [inodes EXCEPT ![NumPaths + n] = [data |-> <<n, n>>, mtime |-> n]]
          /\ was' = was \cup {<< <<NumPaths + n, n>>, <<n, n>> >>}
        BY <1>5 DEF Replace
    <2>2. n \in Versions /\ NumPaths + n \in Inodes /\ <<n, n>> \in Hashes
        BY <1>2, <2>1 DEF Hashes
    <2>3. at' \in [Paths -> Inodes \cup {Gone}]
        BY <2>1, <2>2, Zenon DEF FileTypes
    <2> HIDE DEF n
    <2> QED
        BY <1>3, <2>1, <2>2, <2>3, Zenon
<1>6. ASSUME NEW p \in Changing, Remove(p) PROVE FileTypes'
    <2>1. UNCHANGED <<inodes, was>> /\ at' \in [Paths -> Inodes \cup {Gone}]
        BY <1>6, Zenon DEF Remove, FileTypes
    <2> QED
        BY <2>1 DEF FileTypes
<1>7. ASSUME NEW f \in Files, ChangeList(f) PROVE FileTypes'
    BY <1>1, <1>7 DEF ChangeList
<1>8. ASSUME NEW g \in Goroutines, Asked(g) \/ Step(g) PROVE FileTypes'
    BY <1>1, <1>8 DEF Asked, Step, GetStat, GetLookup, NotFound, Hash, After, Store, Match
<1>9. CASE Scanner
    BY <1>1, <1>9 DEF Scanner, StartScan, ReadHashFile, ReadHashFileFails, Swap, ListProcs, NextProc
<1>10. CASE UNCHANGED vars
    BY <1>1, <1>10 DEF vars
<1> QED
    BY <1>4, <1>5, <1>6, <1>7, <1>8, <1>9, <1>10 DEF Next

\* The list changes by Swap alone, and a scan goes on from file to file.
LEMMA NextListTypes == ScanInv /\ ListTypes /\ [Next]_vars => ListTypes'
<1> SUFFICES ASSUME ScanInv, ListTypes, [Next]_vars PROVE ListTypes'
    OBVIOUS
<1>0. HashFiles \in Nat /\ scan.draft \subseteq Hashes
    BY HashAssumption DEF ScanInv
<1>1. list' \subseteq Hashes
    <2>1. CASE list' = list
        BY <2>1 DEF ListTypes
    <2>2. CASE list' # list
        <3>1. list' = scan.draft
            BY <2>2, OnlySwap DEF Swap
        <3> QED
            BY <1>0, <3>1
    <2> QED
        BY <2>1, <2>2
<1>2. scan'.file \in 0 .. HashFiles + 2
    <2>1. CASE UNCHANGED scan
        BY <2>1 DEF ListTypes
    <2>2. CASE Scanner
        <3>1. scan'.file \in {0, 1, HashFiles + 2} \/ scan'.file = scan.file
                \/ (scan.file \in Files /\ scan'.file = scan.file + 1)
            BY <2>2, Zenon DEF Scanner, StartScan, ReadHashFile, ReadHashFileFails, Swap, ListProcs,
                        NextProc, ScanInv
        <3> QED
            BY <1>0, <3>1 DEF ListTypes, Files
    <2>3. ASSUME NEW p \in Changing, Write(p, 1) \/ Write(p, 2) \/ Replace(p) \/ Remove(p)
          PROVE  UNCHANGED scan
        BY <2>3, Zenon DEF Write, Replace, Remove, lists
    <2>4. ASSUME NEW f \in Files, ChangeList(f) PROVE UNCHANGED scan
        BY <2>4, Zenon DEF ChangeList
    <2>5. ASSUME NEW g \in Goroutines, Asked(g) \/ Step(g) PROVE UNCHANGED scan
        BY <2>5 DEF Asked, Step, GetStat, GetLookup, NotFound, Hash, After, Store, Match, lists
    <2>6. CASE UNCHANGED vars
        BY <2>1, <2>6 DEF vars, lists
    <2> QED
        BY <2>1, <2>2, <2>3, <2>4, <2>5, <2>6 DEF Next
<1> QED
    BY <1>1, <1>2 DEF ListTypes

\* The cache never holds more than maxHashCacheEntries entries, whatever that
\* limit is and whichever goroutines store, and the state stays well formed.
THEOREM CacheIsBounded == Spec => []TypeOK
<1>1. Init => FileTypes /\ ListTypes /\ Bounded
  <2> SUFFICES ASSUME Init PROVE FileTypes /\ ListTypes /\ Bounded
    OBVIOUS
  <2>1. 0 \in Versions /\ <<0, 0>> \in Hashes /\ \A p \in Paths : p \in Inodes
    BY HashAssumption DEF Versions, Hashes, Paths, Inodes
  <2>2. FileTypes
    <3>1. at \in [Paths -> Inodes \cup {Gone}] /\ inodes \in [Inodes -> [data : Hashes, mtime : Versions]]
        BY <2>1, Zenon DEF Init
    <3>2. \A p \in Paths : <<Stamp(p), Content(p)>> \in (Inodes \X Versions) \X Hashes
        BY <2>1, <3>1, Zenon DEF Stamp, Content
    <3>3. was = {<<Stamp(p), Content(p)>> : p \in Paths}
        BY DEF Init
    <3> QED
        BY <3>1, <3>2, <3>3 DEF FileTypes
  <2>3. ListTypes
    <3>1. scan.file = 0 /\ (list = {} \/ list = BaseHashes \cup UNION Range(FirstLists))
        BY DEF Init
    <3>2. UNION Range(FirstLists) \subseteq Hashes
        BY HashAssumption DEF Range
    <3> QED
        BY <3>1, <3>2, HashAssumption DEF ListTypes
  <2>4. Bounded
    <3>1. Cached = {}
        BY Zenon DEF Init, Cached
    <3> QED
        BY <3>1, FS_EmptySet, HashAssumption DEF Bounded
  <2> QED
    BY <2>2, <2>3, <2>4
<1>2. IInv /\ FileTypes /\ ListTypes /\ Bounded => TypeOK
  <2> SUFFICES ASSUME IInv, FileTypes PROVE entries \in [Paths -> [stamp : (Inodes \cup {0}) \X Versions, hash : Hashes]]
    BY Zenon DEF TypeOK, FileTypes, ListTypes, Bounded
  <2>1. entries \in [Paths -> [stamp : Stamps, hash : Nat \X Nat]]
    BY DEF IInv, TypeInv
  <2>2. 0 \in Versions
    BY HashAssumption DEF Versions
  <2>3. NoEntry \in [stamp : (Inodes \cup {0}) \X Versions, hash : Hashes]
    BY <2>2, Zenon DEF NoEntry, NoStamp, Hashes
  <2>4. ASSUME NEW p \in Paths, entries[p] # NoEntry
        PROVE  entries[p] \in [stamp : (Inodes \cup {0}) \X Versions, hash : Hashes]
    <3>1. <<entries[p].stamp, entries[p].hash>> \in (Inodes \X Versions) \X Hashes
        BY <2>4 DEF IInv, CacheInv, FileTypes
    <3>2. entries[p].stamp \in (Inodes \cup {0}) \X Versions /\ entries[p].hash \in Hashes
        BY <3>1
    <3>3. entries[p] = [stamp |-> entries[p].stamp, hash |-> entries[p].hash]
        BY <2>1
    <3> QED
        BY Zenon, <3>2, <3>3
  <2> QED
    BY <2>1, <2>3, <2>4
<1> QED
    BY <1>1, <1>2, InitInv, NextInv, InitScan, NextScan, NextFileTypes, NextListTypes, NextBounded, PTL DEF Spec
===============================================================================
