------------------------------ MODULE ModelCache ------------------------------
(***************************************************************************)
(* The client's cache of assets (src/Client/ModelCache.cpp): one directory *)
(* for each server, with the files and a manifest, cache.json, that says   *)
(* which hash each of them has.                                            *)
(*                                                                         *)
(* An operation holds the mutex throughout: it decides at once, and what   *)
(* it then does on disk is the sequence "work", a step each, so that the   *)
(* process can end between any two of them.  A file being written is torn: *)
(* it may have its full length by then (SetEndOfFile), or none.  A torn    *)
(* manifest does not parse, and is as good as none.                        *)
(***************************************************************************)
EXTENDS Naturals, FiniteSets, SequencesExt

CONSTANTS
    Servers,              \* addresses
    Home,                 \* the address while no server is known
    Keys, Sounds,         \* files of models, and those that are sounds
    Hashes, Waves,        \* contents by hash, and those that start with RIFF
    None, Torn, Empty,    \* no file, part of one, one of length 0
    Forgetful,            \* the address is gone when the process ends
    SavesFail,            \* cache.json may not be writable
    MaxRequests,          \* bound: files asked for
    MaxRuns,              \* bound: times the process starts
    MaxInvalidations,     \* bound: files found to be no model
    MaxFailures           \* bound: writes that fail

ASSUME CacheAssumption ==
    /\ Home \in Servers /\ Waves \subseteq Hashes
    /\ IsFiniteSet(Keys) /\ Sounds \subseteq Keys
    /\ Hashes \cap {None, Torn, Empty} = {}
    /\ {Forgetful, SavesFail} \subseteq BOOLEAN
    /\ {MaxRequests, MaxRuns, MaxInvalidations, MaxFailures} \subseteq Nat

VARIABLES
    running,
    connection,           \* "none" in this run so far, "on" or "off"
    server,               \* GetCurrentServerAddress()
    loadedFor,            \* currentServerHash, None before the manifest is read
    assets,               \* the records in memory
    disk, manifest,       \* of each server: its files, its cache.json
    work,                 \* what the operation under way has left to do on disk
    wanted,               \* the hash of each file in transfer
    kept, dropped,        \* of each server: hashes stored and not given up since,
                          \*   and files invalidated and not stored since
    requests, runs, invalidations, failures

vars == <<running, connection, server, loadedFor, assets, disk, manifest, work,
          wanted, kept, dropped, requests, runs, invalidations, failures>>
memory  == <<loadedFor, assets>>
storage == <<disk, manifest>>
history == <<kept, dropped>>
counts  == <<requests, runs, invalidations, failures>>

-----------------------------------------------------------------------------
Paths == Keys \X {"ogg", "wav"}     \* a file that is no sound has the first
\* AssetRecord.
Record(h, p) == [hash |-> h, path |-> p]
NoRecords == [k \in Keys |-> None]
ASSUME RecordAssumption == None \notin Paths \cup [hash : Hashes, path : Paths]
Contents == Hashes \cup {None, Torn, Empty}

\* GetAssetFileName, for what is stored and for what is looked for.
PathOf(k, h) == <<k, IF k \in Sounds /\ h \in Waves THEN "wav" ELSE "ogg">>
Files == disk[server]
CheckPath(k) ==
    IF Files[<<k, "ogg">>] = None /\ k \in Sounds /\ Files[<<k, "wav">>] # None
    THEN <<k, "wav">> ELSE <<k, "ogg">>

\* Steps on disk.
Erase(p)    == [op |-> "remove", path |-> p, as |-> None]
Begin(p)    == [op |-> "begin", path |-> p, as |-> None]
Finish(p, h) == [op |-> "finish", path |-> p, as |-> h]
Tear        == [op |-> "tear", path |-> None, as |-> None]
Save(a)     == [op |-> "save", path |-> None, as |-> a]
SaveManifest(a) == <<Tear, Save(a)>>

Init ==
    /\ running = FALSE /\ connection = "none" /\ server = Home
    /\ loadedFor = None /\ assets = NoRecords
    /\ disk = [s \in Servers |-> [p \in Paths |-> None]]
    /\ manifest = [s \in Servers |-> NoRecords]
    /\ work = <<>> /\ wanted = [k \in Keys |-> None]
    /\ kept = [s \in Servers |-> NoRecords] /\ dropped = [s \in Servers |-> {}]
    /\ requests = 0 /\ runs = 0 /\ invalidations = 0 /\ failures = 0

-----------------------------------------------------------------------------
(* Operations. *)

\* EnsureServerInitialized: the records an operation works with.
Records == IF loadedFor = server THEN assets ELSE manifest[server]
Operate(a, steps) ==
    /\ running /\ work = <<>>
    /\ loadedFor' = server /\ assets' = a
    /\ work' = steps

\* TryGet.  The path of a hit, by the records or by what is found on disk; the
\* latter only when it has the hash.  Variant: nothing is looked for on disk.
There(p) == Files[p] \notin {None, Empty}
Recorded(a, k, h) == a[k] # None /\ a[k].hash = h /\ There(a[k].path)
FoundNot(a, k, h) == FALSE
Found(a, k, h) == a[k] = None /\ Files[CheckPath(k)] = h
Hit(a, k, h) ==
    CASE Recorded(a, k, h) -> a[k].path
      [] Found(a, k, h)    -> CheckPath(k)
      [] OTHER             -> None

\* A record of another hash goes with its file, and so does one whose file is
\* gone or empty; a file without a record goes when it is another.
AfterTryGet(a, k, h) ==
    CASE Recorded(a, k, h) -> a
      [] Found(a, k, h)    -> [a EXCEPT ![k] = Record(h, CheckPath(k))]
      [] OTHER             -> [a EXCEPT ![k] = None]
StepsOfTryGet(a, k, h) ==
    CASE Recorded(a, k, h) -> <<>>
      [] Found(a, k, h)    -> SaveManifest(AfterTryGet(a, k, h))
      [] OTHER -> IF a[k] # None
                  THEN <<Erase(a[k].path)>> \o SaveManifest(AfterTryGet(a, k, h))
                  ELSE <<Erase(CheckPath(k))>>

\* RequestFile: a miss begins a transfer, if none is under way.  The server may
\* have changed its file.
TryGet(k, h) ==
    LET a == Records IN
    /\ connection = "on" /\ requests < MaxRequests /\ requests' = requests + 1
    /\ Operate(AfterTryGet(a, k, h), StepsOfTryGet(a, k, h))
    /\ IF Hit(a, k, h) # None
       THEN UNCHANGED <<wanted, kept>>
       ELSE /\ wanted' = [wanted EXCEPT ![k] = IF @ = None THEN h ELSE @]
            /\ kept' = [kept EXCEPT ![server][k] = None]
    /\ UNCHANGED <<running, connection, server, storage, dropped, runs,
                   invalidations, failures>>

\* Store, of a transfer that has the hash: the file, then the manifest.  Variant:
\* the manifest, then the file.
StoreStepsManifestFirst(a, p, h) == SaveManifest(a) \o <<Begin(p), Finish(p, h)>>
StoreSteps(a, p, h) == <<Begin(p), Finish(p, h)>> \o SaveManifest(a)
Store(k) ==
    LET h == wanted[k]
        p == PathOf(k, h)
        a == [Records EXCEPT ![k] = Record(h, p)]
    IN /\ h # None /\ Operate(a, StoreSteps(a, p, h))
       /\ wanted' = [wanted EXCEPT ![k] = None]
       /\ kept' = [kept EXCEPT ![server][k] = h]
       /\ dropped' = [dropped EXCEPT ![server] = @ \ {k}]
       /\ UNCHANGED <<running, connection, server, storage, counts>>

\* WriteBufferToFileWin32 fails: the file is as it was, or gone; the transfer is
\* retried.
StoreFails(k) ==
    LET p == PathOf(k, wanted[k]) IN
    /\ wanted[k] # None /\ failures < MaxFailures /\ failures' = failures + 1
    /\ \E steps \in {<<>>, <<Begin(p), Erase(p)>>} : Operate(Records, steps)
    /\ UNCHANGED <<running, connection, server, storage, wanted, history, requests,
                   runs, invalidations>>

\* Invalidate: the record and its file, and whatever file there is.  Variant:
\* the former only.
InvalidateStepsRecorded(a, k) ==
    IF a[k] # None
    THEN <<Erase(a[k].path)>> \o SaveManifest([a EXCEPT ![k] = None]) ELSE <<>>
InvalidateSteps(a, k) ==
    (IF a[k] # None
     THEN <<Erase(a[k].path)>> \o SaveManifest([a EXCEPT ![k] = None]) ELSE <<>>)
    \o <<Erase(<<k, "ogg">>)>>
    \o (IF k \in Sounds THEN <<Erase(<<k, "wav">>)>> ELSE <<>>)
Invalidate(k) ==
    /\ connection = "on"
    /\ invalidations < MaxInvalidations /\ invalidations' = invalidations + 1
    /\ Operate([Records EXCEPT ![k] = None], InvalidateSteps(Records, k))
    /\ kept' = [kept EXCEPT ![server][k] = None]
    /\ dropped' = [dropped EXCEPT ![server] = @ \cup {k}]
    /\ UNCHANGED <<running, connection, server, storage, wanted, requests, runs,
                   failures>>

-----------------------------------------------------------------------------
(* The disk, the process and the connection. *)

\* WriteBufferToFileWin32 writes in place, or to a temporary file that then
\* takes the name.
Step ==
    LET next == Head(work)
        Becomes(c) == disk' = [disk EXCEPT ![server][next.path] = c]
        Says(a) == manifest' = [manifest EXCEPT ![server] = a]
    IN /\ work # <<>> /\ work' = Tail(work)
       /\ CASE next.op = "remove" -> Becomes(None) /\ UNCHANGED manifest
            [] next.op = "begin"  -> /\ \E c \in {Torn, Empty, Files[next.path]} : Becomes(c)
                                     /\ UNCHANGED manifest
            [] next.op = "finish" -> Becomes(next.as) /\ UNCHANGED manifest
            [] next.op = "tear"   -> /\ \E a \in {NoRecords, manifest[server]} : Says(a)
                                     /\ UNCHANGED disk
            [] next.op = "save"   -> /\ Says(next.as) \/ (SavesFail /\ UNCHANGED manifest)
                                     /\ UNCHANGED disk
       /\ UNCHANGED <<running, connection, server, memory, wanted, history, counts>>

\* What the directory of s still holds of what was stored in it, when the files
\* at P are gone.
KeptWithout(s, P) ==
    [kept EXCEPT ![s] = [k \in Keys |->
        IF {<<k, "ogg">>, <<k, "wav">>} \cap P # {} THEN None ELSE @[k]]]

\* The game starts: Sweep removes files that are too old or too many from the
\* directory of the current server, and leaves the records of them.
Sweep(R, over) ==
    /\ work' = [i \in 1 .. Cardinality(R) |-> Erase(SetToSeq(R)[i])]
               \o (IF over THEN SaveManifest(manifest[Home]) ELSE <<>>)
    /\ kept' = KeptWithout(Home, R)
Start ==
    /\ ~running /\ runs < MaxRuns /\ runs' = runs + 1
    /\ running' = TRUE /\ server' = Home
    /\ loadedFor' = Home /\ assets' = manifest[Home]
    /\ \E R \in SUBSET {p \in Paths : disk[Home][p] # None}, over \in BOOLEAN : Sweep(R, over)
    /\ UNCHANGED <<connection, storage, wanted, dropped, requests, invalidations, failures>>

\* The connection, and each INIT of a session: ReloadManifest.
Connect(s) ==
    /\ running /\ (connection = "none" \/ server = s)
    /\ connection' = "on" /\ server' = s /\ work = <<>>
    /\ loadedFor' = s /\ assets' = manifest[s]
    /\ UNCHANGED <<running, storage, work, wanted, history, counts>>

\* The connection ends: SaveManifest, of what is in memory, and transfers go.
\* This call takes no lock and may come while an operation is under way (its
\* reading of the map while another thread changes it is undefined, and left out).
Leave ==
    /\ running /\ connection = "on" /\ connection' = "off"
    /\ work' = work \o SaveManifest(assets)
    /\ wanted' = [k \in Keys |-> None]
    /\ UNCHANGED <<running, server, memory, storage, history, counts>>

\* The process ends: the destructor of the cache saves, where the current address
\* is then.
Quit ==
    /\ running /\ work = <<>> /\ running' = FALSE /\ connection' = "none"
    /\ \E s \in IF Forgetful THEN {server, Home} ELSE {server} :
          manifest' = [manifest EXCEPT ![s] = assets]
    /\ wanted' = [k \in Keys |-> None]
    /\ UNCHANGED <<server, memory, disk, work, history, counts>>

\* The process is killed.  What it had not done by then is not promised.
Unfinished(ops) == {work[i].path : i \in {j \in DOMAIN work : work[j].op \in ops}}
Crash ==
    /\ running /\ running' = FALSE /\ connection' = "none"
    /\ work' = <<>> /\ wanted' = [k \in Keys |-> None]
    /\ kept' = KeptWithout(server, Unfinished({"begin", "finish"}))
    /\ dropped' = [dropped EXCEPT ![server] = @ \ {p[1] : p \in Unfinished({"remove"})}]
    /\ UNCHANGED <<server, memory, storage, counts>>

Next ==
    \/ \E k \in Keys, h \in Hashes : TryGet(k, h)
    \/ \E k \in Keys : Store(k) \/ StoreFails(k) \/ Invalidate(k)
    \/ Step \/ Start \/ Leave \/ Quit \/ Crash
    \/ \E s \in Servers : Connect(s)
Spec == Init /\ [][Next]_vars

-----------------------------------------------------------------------------
\* Each variable has its type: records name a path of their own file and a hash,
\* files are whole, torn, empty or absent.
Manifests ==
    {a \in [Keys -> [hash : Hashes, path : Paths] \cup {None}] :
        \A k \in Keys : a[k] # None => a[k].path[1] = k}
TypeOK ==
    /\ running \in BOOLEAN /\ connection \in {"none", "on", "off"}
    /\ server \in Servers /\ loadedFor \in Servers \cup {None}
    /\ assets \in Manifests /\ manifest \in [Servers -> Manifests]
    /\ disk \in [Servers -> [Paths -> Contents]]
    /\ \A i \in DOMAIN work : work[i].op \in {"remove", "begin", "finish", "tear", "save"}
    /\ wanted \in [Keys -> Hashes \cup {None}]
    /\ kept \in [Servers -> [Keys -> Hashes \cup {None}]]
    /\ dropped \in [Servers -> SUBSET Keys]
    /\ counts \in Nat \X Nat \X Nat \X Nat

\* Between two operations of a connected client.
Idle == running /\ connection = "on" /\ work = <<>>

\* What TryGet gives out has the hash asked for, though a hit by the records
\* reads no file: whatever was torn, lost or changed before, and in whichever run
\* of the game (ModelCache::TryGet, :454-478).
ReturnsExpected ==
    Idle => \A k \in Keys, h \in Hashes :
        Hit(Records, k, h) # None => Files[Hit(Records, k, h)] = h

\* What was stored is found again, also after a crash that took the manifest:
\* one transfer of a file is enough until it is given up, swept or changed
\* (ModelCache::Store, the fallback of TryGet).
StoredIsFound ==
    Idle => \A k \in Keys :
        kept[server][k] # None => Hit(Records, k, kept[server][k]) # None

\* A file that turned out to be no model is not given out again before it was
\* transferred again (ModelCache::Invalidate; FinalizeCustomVehicle in
\* Plugin.cpp:3304).
InvalidatedIsGone ==
    Idle => \A k \in dropped[server], h \in Hashes : Hit(Records, k, h) = None
=============================================================================
