------------------------------ MODULE Registry ------------------------------
(***************************************************************************)
(* The pool's registry of workers (user_stats_, pool/pool.cpp), the        *)
(* sessions that hold on to its rows, the status thread that prunes it and *)
(* writes one file per address (stats/poolstatus.cpp), and the restart     *)
(* that reads the files back.                                              *)
(*                                                                         *)
(* Of a row the times decide its fate: the last share, the last activity,  *)
(* and whether anything was counted.  Rates and counts are carried along   *)
(* by the code and left out here.  The clock is the wall clock in units of *)
(* the shorter limit.                                                      *)
(***************************************************************************)
EXTENDS Integers, FiniteSets

CONSTANTS
  Addresses,
  Names,              \* the worker names and Bare
  Bare,               \* "", the bucket of the bare address
  Sessions,
  Setups,             \* the workers that mine, pairs of address and name, and the
                      \* values of max_workers_per_address (0 is no limit)
  UserCap,            \* kMaxUserFiles
  Grace, Retention,   \* kGhostRowGraceSeconds, user_stats_retention_days
  MaxNow,             \* bound: the clock
  MaxRuns,            \* bound: runs of the process
  None

\* What is kept of a WorkerAccounting.
Rows == [share : 0..MaxNow, activity : 0..MaxNow, counted : BOOLEAN]

ASSUME RegistryAssumption ==
  /\ IsFiniteSet(Addresses) /\ IsFiniteSet(Names)
  /\ Bare \in Names /\ UserCap \in Nat /\ None \notin Rows
  /\ \A c \in Setups : c.workers \subseteq Addresses \X Names /\ c.caps \subseteq Nat
  /\ Grace \in Nat /\ Retention \in Nat /\ MaxNow \in Nat \ {0} /\ MaxRuns \in Nat

VARIABLES
  setup,      \* the setup of this behaviour
  now,        \* the wall clock
  runs,       \* runs of the process so far
  nameCap,    \* max_workers_per_address of this run
  row,        \* user_stats_: per address and key a row or None
  session,    \* per session None, or the row it holds, or else the name it gave
  file,       \* users/<address>: last share per row in it and its mtime, or None
  known,      \* DirRegistry::known, None before the first visit
  status,     \* the status thread within write_stats
  evicted     \* history: rows with shares that were evicted and not begun again

vars == <<setup, now, runs, nameCap, row, session, file, known, status, evicted>>

NoRows == [w \in Names |-> None]
NewRow(t) == [share |-> 0, activity |-> t, counted |-> FALSE]
Asleep == [at |-> "asleep", rows |-> [a \in Addresses |-> NoRows], todo |-> {}]
Worker(a, w, holds) == [address |-> a, name |-> w, holds |-> holds]

Known(workers) == {w \in Names : workers[w] /= None}
Present == {a \in Addresses : Known(row[a]) /= {}}
Files == {a \in Addresses : file[a] /= None}

Init ==
  /\ setup \in Setups
  /\ now = 1 /\ runs = 1 /\ nameCap \in setup.caps
  /\ row = [a \in Addresses |-> NoRows]
  /\ session = [s \in Sessions |-> None]
  /\ file = [a \in Addresses |-> None]
  /\ known = None /\ status = Asleep /\ evicted = {}

Tick ==
  /\ now < MaxNow
  /\ now' = now + 1
  /\ UNCHANGED <<setup, runs, nameCap, row, session, file, known, status, evicted>>

------------------------------------------------------------------------------
\* Rows

\* resolve_worker_key: a name beyond the limit folds into the bucket.
ResolveWorkerKey(workers, w) ==
  IF /\ workers[w] = None /\ w /= Bare /\ nameCap > 0
     /\ Cardinality(Known(workers) \ {Bare}) >= nameCap
  THEN Bare ELSE w

\* worker_entry: the key of the row, None when the registry is full.
WorkerEntry(a, w) ==
  IF a \notin Present /\ Cardinality(Present) >= UserCap THEN None
  ELSE ResolveWorkerKey(row[a], w)

\* The row of a key, made when it is missing, after f.
With(a, key, f(_)) ==
  row' = [row EXCEPT ![a][key] = f(IF @ = None THEN NewRow(0) ELSE @)]

Touched(r) == [r EXCEPT !.activity = now]
Accepted(r) == [share |-> now, activity |-> now, counted |-> TRUE]
Rejected(r) == [r EXCEPT !.activity = now, !.counted = TRUE]

\* attach_worker on authorize or when a channel is opened.
Attach(s, a, w) ==
  LET key == WorkerEntry(a, w) IN
  /\ session' = [session EXCEPT ![s] = IF key = None THEN Worker(a, w, FALSE)
                                       ELSE Worker(a, key, TRUE)]
  /\ IF key = None THEN UNCHANGED <<row, evicted>>
     ELSE With(a, key, Touched) /\ evicted' = evicted \ {<<a, key>>}
  /\ UNCHANGED <<setup, now, runs, nameCap, file, known, status>>

\* note_accepted_share and note_rejected_share: the row the session holds, or the
\* one its name gives now.
NoteShare(s, f(_)) ==
  LET me == session[s]
      key == IF me.holds THEN me.name ELSE WorkerEntry(me.address, me.name) IN
  /\ me /= None
  /\ IF key = None THEN UNCHANGED <<row, evicted>>
     ELSE With(me.address, key, f) /\ evicted' = evicted \ {<<me.address, key>>}
  /\ UNCHANGED <<setup, now, runs, nameCap, session, file, known, status>>

AcceptShare(s) == NoteShare(s, Accepted)
RejectShare(s) == NoteShare(s, Rejected)

Disconnect(s) ==
  /\ session[s] /= None
  /\ session' = [session EXCEPT ![s] = None]
  /\ UNCHANGED <<setup, now, runs, nameCap, row, file, known, status, evicted>>

------------------------------------------------------------------------------
\* write_stats, on the status thread

Pinned(a, w) == \E s \in Sessions : session[s] = Worker(a, w, TRUE)

\* Fault: a row of a connected worker expires too.
ExpiredPinned(a, w) ==
  LET r == row[a][w] IN
  /\ r /= None /\ r.activity > 0
  /\ IF r.share = 0 THEN r.activity < now - Grace
     ELSE Retention > 0 /\ r.activity < now - Retention

\* A row nobody holds expires: one that never mined after the grace, one that did
\* after the retention, if there is one.
Expired(a, w) ==
  LET r == row[a][w] IN
  /\ r /= None /\ ~Pinned(a, w) /\ r.activity > 0
  /\ IF r.share = 0 THEN r.activity < now - Grace
     ELSE Retention > 0 /\ r.activity < now - Retention

\* prune_user_stats, one region of user_stats_mutex_.  The file of an address
\* without rows goes at once, if it can be removed.
Prune ==
  LET left == [a \in Addresses |->
                [w \in Names |-> IF Expired(a, w) THEN None ELSE row[a][w]]]
      emptied == {a \in Present : Known(left[a]) = {}} IN
  /\ status.at = "asleep"
  /\ row' = left
  /\ evicted' = evicted \cup {p \in Addresses \X Names :
                                Expired(p[1], p[2]) /\ row[p[1]][p[2]].share > 0}
  /\ \E removed \in SUBSET emptied :
       file' = [a \in Addresses |-> IF a \in removed THEN None ELSE file[a]]
  /\ status' = [status EXCEPT !.at = "snapshot"]
  /\ UNCHANGED <<setup, now, runs, nameCap, session, known>>

\* snapshot() reads the registry in a region of its own; write_user_files then picks
\* the addresses with anything counted.  Its first call in a run learns the names on
\* disk, or gives up for this cycle.
Snapshot ==
  /\ status.at = "snapshot"
  /\ \/ /\ known' = IF known = None THEN Files ELSE known
        /\ status' = [at |-> "files",
                      rows |-> [a \in Addresses |->
                                 [w \in Names |-> IF row[a][w] = None THEN None
                                                  ELSE row[a][w].share]],
                      todo |-> {a \in Present :
                                  \E w \in Known(row[a]) : row[a][w].counted}]
     \/ known = None /\ status' = Asleep /\ UNCHANGED known
  /\ UNCHANGED <<setup, now, runs, nameCap, row, session, file, evicted>>

\* One address after the other.  At the limit a new one is skipped; a failed
\* write ends the cycle and leaves the file as it was.
WriteUserFile(a) ==
  LET admitted == a \in known \/ Cardinality(known) < UserCap IN
  /\ status.at = "files" /\ a \in status.todo
  /\ known' = IF admitted THEN known \cup {a} ELSE known
  /\ \/ /\ file' = IF admitted
                   THEN [file EXCEPT ![a] = [rows |-> status.rows[a], mtime |-> now]]
                   ELSE file
        /\ status' = [status EXCEPT !.todo = @ \ {a}]
     \/ admitted /\ status' = Asleep /\ UNCHANGED file
  /\ UNCHANGED <<setup, now, runs, nameCap, row, session, evicted>>

StaleFiles ==
  {a \in Files : Known(status.rows[a]) = {} /\ file[a].mtime < now - Retention}

\* Fault: a sweep that broke off keeps only the names it came by.
SweepPartial ==
  /\ status.at = "files" /\ status.todo = {}
  /\ \E removed \in SUBSET StaleFiles, seen \in SUBSET Files :
       /\ removed \subseteq seen
       /\ file' = [a \in Addresses |-> IF a \in removed THEN None ELSE file[a]]
       /\ known' = seen \ removed
  /\ status' = Asleep
  /\ UNCHANGED <<setup, now, runs, nameCap, row, session, evicted>>

\* The retention sweep removes files of addresses without rows and relearns the
\* names, unless the walk over the directory broke off.
Sweep ==
  /\ status.at = "files" /\ status.todo = {}
  /\ Retention > 0
  /\ \E removed \in SUBSET StaleFiles, whole \in BOOLEAN :
       /\ file' = [a \in Addresses |-> IF a \in removed THEN None ELSE file[a]]
       /\ known' = IF whole THEN Files \ removed ELSE known
  /\ status' = Asleep
  /\ UNCHANGED <<setup, now, runs, nameCap, row, session, evicted>>

\* No retention, or the last sweep was not long ago.
NoSweep ==
  /\ status.at = "files" /\ status.todo = {}
  /\ status' = Asleep
  /\ UNCHANGED <<setup, now, runs, nameCap, row, session, file, known, evicted>>

------------------------------------------------------------------------------
\* Restart

\* Fault: rows past the retention are read back.
KeptForever(a) ==
  {w \in Names : /\ file[a] /= None /\ file[a].rows[w] /= None
                 /\ file[a].rows[w] /= 0}

\* The rows of a file that are worth keeping: mined, and within the retention.
Kept(a) ==
  {w \in Names : /\ file[a] /= None /\ file[a].rows[w] /= None
                 /\ file[a].rows[w] /= 0
                 /\ Retention > 0 => file[a].rows[w] >= now - Retention}

\* The sets of names that keep a row of their own under the limit cap, depending on
\* the order of the rows in the file.
Own(a, cap) ==
  LET named == Kept(a) \ {Bare} IN
  {own \in SUBSET named :
     IF cap = 0 \/ Cardinality(named) <= cap THEN own = named
     ELSE Cardinality(own) = cap}

Latest(times) == CHOOSE t \in times : \A u \in times : u <= t

\* The row recovered for a key: the bucket takes the rows that folded.
Recovered(a, own, w) ==
  LET folded == IF w = Bare THEN Kept(a) \ own ELSE own \cap {w} IN
  IF folded = {} THEN None
  ELSE LET t == Latest({file[a].rows[v] : v \in folded}) IN
       [share |-> t, activity |-> t, counted |-> TRUE]

\* The process ends anywhere and a new one reads the files before it serves.  There
\* are never more files than addresses that fit.
Restart ==
  /\ runs < MaxRuns
  /\ runs' = runs + 1
  /\ \E cap \in setup.caps, own \in [Addresses -> SUBSET (Names \ {Bare})] :
       /\ \A a \in Addresses : own[a] \in Own(a, cap)
       /\ nameCap' = cap
       /\ row' = [a \in Addresses |-> [w \in Names |-> Recovered(a, own[a], w)]]
       /\ evicted' = {p \in evicted : p[2] /= Bare \/ Kept(p[1]) \subseteq own[p[1]] \cup {Bare}}
  /\ session' = [s \in Sessions |-> None]
  /\ known' = None /\ status' = Asleep
  /\ UNCHANGED <<setup, now, file>>

Next ==
  \/ Tick \/ Restart
  \/ \E s \in Sessions :
       \/ \E p \in setup.workers : Attach(s, p[1], p[2])
       \/ AcceptShare(s) \/ RejectShare(s) \/ Disconnect(s)
  \/ Prune \/ Snapshot \/ Sweep \/ NoSweep
  \/ \E a \in Addresses : WriteUserFile(a)

Spec == Init /\ [][Next]_vars

------------------------------------------------------------------------------
\* Properties

\* A connected worker's row stays in the registry for as long as the session holds
\* it ("Never evicts a connected worker", Pool::prune_user_stats), so its shares are
\* counted where the status files and the API look for them.
ConnectedRowsKept ==
  \A s \in Sessions :
    session[s] /= None =>
      (session[s].holds => row[session[s].address][session[s].name] /= None)

\* A row that mined and was evicted for its age stays gone until the worker comes
\* back: no crash between the pruning of the registry and the writing or removal of
\* the files lets Pool::recover_user_stats bring it back.
EvictedStaysGone ==
  \A p \in evicted : row[p[1]][p[2]] = None

\* The limits hold whatever restarts, failed writes and broken directory walks
\* happen: addresses in the registry, named rows of an address, and files in users/
\* (Pool::worker_entry, Pool::recover_user_stats, write_user_files).
LimitsHold ==
  /\ Cardinality(Present) <= UserCap
  /\ Cardinality(Files) <= UserCap
  /\ nameCap > 0 => \A a \in Addresses : Cardinality(Known(row[a]) \ {Bare}) <= nameCap

==============================================================================
